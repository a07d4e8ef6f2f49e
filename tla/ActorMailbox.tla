---------------------------- MODULE ActorMailbox ----------------------------
(***************************************************************************)
(* Envelopes between actors: crates/berimor-actors/src/bus.rs (publish),    *)
(* actor.rs (run, recover_pending, FreezeSwitch) and the MailboxLog of      *)
(* crates/berimor-storage/src/lib.rs.                                      *)
(*                                                                         *)
(* Actors are tokio tasks of one OS process, publish calls are tasks too:   *)
(* an action is what runs between two awaits.  The host creates, restarts   *)
(* and freezes actors; nothing in the repository plays it yet, so it is     *)
(* modelled from the doc comments: it registers an actor, takes             *)
(* recover_pending, handles what that returned and then calls run.          *)
(***************************************************************************)
EXTENDS Integers, Sequences, FiniteSets

CONSTANTS Actor,        \* actor identifiers
          Envelope,     \* records [id, from, to, topic, payload]
          Allowed,      \* <<actor, topic>> the ACL manifests allow
          Capacity,     \* of an actor's mpsc channel
          MaxPublish, MaxCrash, MaxFreeze, MaxFailed,  \* bounds
          NoEnvelope

ASSUME MailboxAssumption ==
    /\ \A e \in Envelope : e.from \in Actor /\ e.to \in Actor
    /\ Capacity \in Nat \ {0}
    /\ {MaxPublish, MaxCrash, MaxFreeze, MaxFailed} \subseteq Nat
    /\ NoEnvelope \notin Envelope

VARIABLES rows,       \* table envelopes: the rows in the order they were written
          delivered,  \* ids of the rows with delivered = 1
          epoch,      \* [Actor -> number of its channel], 0: not registered
          inbox,      \* [Actor -> what its channel holds]
          sending,    \* publish calls that wait in mailbox.send
          at,         \* [Actor -> where its task stands]
          current,    \* [Actor -> envelope in the handler, or NoEnvelope]
          pending,    \* [Actor -> the rows recover_pending returned, not yet handled]
          frozen,     \* value of the watch channel
          version,    \* how often it was set
          seen,       \* [Actor -> version its receiver has seen]
          switch,     \* a FreezeSwitch is alive
          handled,    \* envelopes some handler returned Ok for
          failed,     \* envelopes some handler returned Err for
          taken,      \* [Actor -> envelopes taken since freeze_all]
          published, crashes

channels == <<epoch, inbox, sending>>
tasks    == <<at, current, pending>>
freezing == <<frozen, version, seen, switch>>
history  == <<handled, failed, taken>>
bounds   == <<published, crashes>>
vars     == <<rows, delivered, channels, tasks, freezing, history, bounds>>

RowIds == {rows[i].id : i \in DOMAIN rows}
EnvelopeRow(id) == CHOOSE e \in {rows[i] : i \in DOMAIN rows} : e.id = id

undelivered_for(a) ==
    {i \in DOMAIN rows : rows[i].to = a /\ rows[i].id \notin delivered}

Goes(a, place) == at' = [at EXCEPT ![a] = place]

-----------------------------------------------------------------------------
(* bus.rs: publish *)

\* INSERT OR IGNORE; an existing row must have the same payload, and nothing
\* else of it is compared.
persist_envelope(e) ==
    rows' = IF e.id \in RowIds THEN rows ELSE Append(rows, e)

accepted(e) ==
    /\ epoch[e.from] # 0
    /\ <<e.from, e.topic>> \in Allowed
    /\ e.id \in RowIds => EnvelopeRow(e.id).payload = e.payload

publish(e) ==
    /\ published < MaxPublish /\ published' = published + 1
    /\ accepted(e)
    /\ persist_envelope(e)
    /\ sending' = IF epoch[e.to] = 0 THEN sending
                  ELSE sending \cup {[envelope |-> e, epoch |-> epoch[e.to], call |-> published]}
    /\ UNCHANGED <<delivered, epoch, inbox, tasks, freezing, history, crashes>>

\* The send waits while the channel is full, and its error is dropped.
send(s) ==
    LET a == s.envelope.to
    IN  /\ sending' = sending \ {s}
        /\ \/ /\ s.epoch = epoch[a] /\ Len(inbox[a]) < Capacity
              /\ inbox' = [inbox EXCEPT ![a] = Append(@, s.envelope)]
           \/ s.epoch # epoch[a] /\ UNCHANGED inbox
        /\ UNCHANGED <<rows, delivered, epoch, tasks, freezing, history, bounds>>

-----------------------------------------------------------------------------
(* actor.rs: run *)

\* The watch is polled first (biased); it has news, or its sender is gone.
NewsOf(a) == seen[a] < version

freeze_changed(a) ==
    /\ at[a] = "select" /\ NewsOf(a)
    /\ seen' = [seen EXCEPT ![a] = version]
    /\ IF frozen THEN Goes(a, "returned") ELSE UNCHANGED at
    /\ UNCHANGED <<rows, delivered, channels, current, pending, frozen, version, switch,
                   history, bounds>>

\* Bug: the handler's turn comes before the watch is polled.
mailbox_polled_always(a) ==
    /\ at[a] = "select" /\ switch
    /\ Goes(a, "receive")
    /\ UNCHANGED <<rows, delivered, channels, current, pending, freezing, history, bounds>>

\* Without a sender changed() fails at once and the loop starts over: the
\* mailbox is only polled while the switch lives.
mailbox_polled(a) ==
    /\ at[a] = "select" /\ ~NewsOf(a) /\ switch
    /\ Goes(a, "receive")
    /\ UNCHANGED <<rows, delivered, channels, current, pending, freezing, history, bounds>>

\* The task slept on both and the watch woke it.
woken(a) ==
    /\ at[a] = "receive" /\ (NewsOf(a) \/ ~switch)
    /\ Goes(a, "select")
    /\ UNCHANGED <<rows, delivered, channels, current, pending, freezing, history, bounds>>

received(a) ==
    /\ at[a] = "receive" /\ inbox[a] # <<>>
    /\ current' = [current EXCEPT ![a] = Head(inbox[a])]
    /\ inbox' = [inbox EXCEPT ![a] = Tail(@)]
    /\ Goes(a, "handle")
    /\ taken' = [taken EXCEPT ![a] = IF frozen THEN @ + 1 ELSE @]
    /\ UNCHANGED <<rows, delivered, epoch, sending, pending, freezing, handled, failed, bounds>>

\* Bug: delivery is confirmed when the envelope is taken, not when it is handled.
handle_any(a, e) ==
    \/ handled' = handled \cup {e} /\ delivered' = delivered \cup {e.id} /\ UNCHANGED failed
    \/ Cardinality(failed) < MaxFailed
       /\ failed' = failed \cup {e} /\ delivered' = delivered \cup {e.id} /\ UNCHANGED handled

\* handle returned Ok and mark_delivered follows (its error is dropped); or it
\* returned Err and the row stays as it is.
handle(a, e) ==
    \/ /\ handled' = handled \cup {e}
       /\ delivered' \in {delivered, delivered \cup {e.id}}
       /\ UNCHANGED failed
    \/ /\ Cardinality(failed) < MaxFailed
       /\ failed' = failed \cup {e}
       /\ UNCHANGED <<handled, delivered>>

handles(a) ==
    /\ at[a] = "handle"
    /\ handle(a, current[a])
    /\ current' = [current EXCEPT ![a] = NoEnvelope]
    /\ Goes(a, "select")
    /\ UNCHANGED <<rows, channels, pending, freezing, taken, bounds>>

-----------------------------------------------------------------------------
(* The host *)

\* A new channel, a new receiver of the watch (subscribe takes the current
\* value for seen), a new registration.  The host waits for the thaw.
register_actor(a) ==
    /\ at[a] = "down" /\ ~frozen
    /\ epoch' = [epoch EXCEPT ![a] = crashes + 1]
    /\ inbox' = [inbox EXCEPT ![a] = <<>>]
    /\ seen' = [seen EXCEPT ![a] = version]
    /\ Goes(a, "returned")
    /\ UNCHANGED <<rows, delivered, sending, current, pending, frozen, version, switch,
                   history, bounds>>

\* Bug: the host trusts the channel and does not read the journal.
recover_nothing(a) == {}

recover_pending(a) == undelivered_for(a)

recovers(a) ==
    /\ at[a] = "returned" /\ ~frozen
    /\ pending' = [pending EXCEPT ![a] = recover_pending(a)]
    /\ Goes(a, "pending")
    /\ UNCHANGED <<rows, delivered, channels, current, freezing, history, bounds>>

\* In the order of the rows.
handles_pending(a) ==
    /\ at[a] = "pending"
    /\ \/ /\ \E i \in pending[a] :
                /\ \A j \in pending[a] : i <= j
                /\ handle(a, rows[i])
                /\ pending' = [pending EXCEPT ![a] = @ \ {i}]
          /\ UNCHANGED at
       \/ /\ pending[a] = {}
          /\ Goes(a, "select")
          /\ UNCHANGED <<pending, handled, failed, delivered>>
    /\ UNCHANGED <<rows, channels, current, freezing, taken, bounds>>

freeze_all ==
    /\ switch /\ ~frozen /\ version < 2 * MaxFreeze
    /\ frozen' = TRUE /\ version' = version + 1
    /\ taken' = [a \in Actor |-> 0]
    /\ UNCHANGED <<rows, delivered, channels, tasks, seen, switch, handled, failed, bounds>>

unfreeze_all ==
    /\ switch /\ frozen
    /\ frozen' = FALSE /\ version' = version + 1
    /\ taken' = [a \in Actor |-> 0]
    /\ UNCHANGED <<rows, delivered, channels, tasks, seen, switch, handled, failed, bounds>>

drop_switch ==
    /\ switch /\ ~frozen
    /\ switch' = FALSE
    /\ UNCHANGED <<rows, delivered, channels, tasks, frozen, version, seen, history, bounds>>

\* The OS process dies: the table survives, and nothing else.
dies ==
    /\ crashes < MaxCrash /\ crashes' = crashes + 1
    /\ epoch' = [a \in Actor |-> 0] /\ inbox' = [a \in Actor |-> <<>>] /\ sending' = {}
    /\ at' = [a \in Actor |-> "down"] /\ current' = [a \in Actor |-> NoEnvelope]
    /\ pending' = [a \in Actor |-> {}]
    /\ frozen' = FALSE /\ version' = 0 /\ seen' = [a \in Actor |-> 0] /\ switch' = TRUE
    /\ taken' = [a \in Actor |-> 0]
    /\ UNCHANGED <<rows, delivered, handled, failed, published>>

-----------------------------------------------------------------------------
Init ==
    /\ rows = <<>> /\ delivered = {}
    /\ epoch = [a \in Actor |-> 0] /\ inbox = [a \in Actor |-> <<>>] /\ sending = {}
    /\ at = [a \in Actor |-> "down"] /\ current = [a \in Actor |-> NoEnvelope]
    /\ pending = [a \in Actor |-> {}]
    /\ frozen = FALSE /\ version = 0 /\ seen = [a \in Actor |-> 0] /\ switch = TRUE
    /\ handled = {} /\ failed = {} /\ taken = [a \in Actor |-> 0]
    /\ published = 0 /\ crashes = 0

run(a) == freeze_changed(a) \/ mailbox_polled(a) \/ woken(a) \/ received(a) \/ handles(a)
host(a) == register_actor(a) \/ recovers(a) \/ handles_pending(a)

Next ==
    \/ \E e \in Envelope : publish(e)
    \/ \E s \in sending : send(s)
    \/ \E a \in Actor : run(a) \/ host(a)
    \/ freeze_all \/ unfreeze_all \/ drop_switch \/ dies

Spec == Init /\ [][Next]_vars

\* tokio polls every task that is ready; the host restarts and thaws what it
\* stopped.
FairSpec ==
    /\ Spec
    /\ \A a \in Actor : WF_vars(run(a)) /\ WF_vars(host(a))
    /\ \A a \in Actor : WF_vars(\E s \in sending : s.envelope.to = a /\ send(s))
    /\ WF_vars(unfreeze_all)

-----------------------------------------------------------------------------
(* Properties *)

Journalled(e) == \E i \in DOMAIN rows : rows[i] = e

\* What the table calls delivered its addressee has handled with success, also when the
\* process died in between, and nothing reaches a handler that the journal does not hold
\* (bus.rs: the row comes before the send; stack.md section 68).
ConfirmedOnceHandled ==
    /\ \A id \in delivered : EnvelopeRow(id) \in handled
    /\ \A e \in handled \cup failed : Journalled(e)

\* After freeze_all an actor takes at most the one envelope whose poll had
\* begun; the rest stays undelivered (security-model.md section 4).
FreezeStopsActors == frozen => \A a \in Actor : taken[a] <= 1

\* No envelope in the journal is lost to a full or closed channel, a freeze or
\* a crash: its addressee's handler gets it, while a FreezeSwitch is alive.
EveryEnvelopeHandled ==
    []<>(~switch \/ \A e \in Envelope : Journalled(e) => e \in handled \cup failed)
=============================================================================
