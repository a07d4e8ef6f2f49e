----------------------------- MODULE ActorProofs -----------------------------
(***************************************************************************)
(* Proofs about Dispatcher and ActorMailbox, for any tasks, actors,          *)
(* envelopes and bounds: the human's queue is the set of escalated tasks and *)
(* an escalation is left to the human; a freeze stops every actor, and what  *)
(* the journal calls delivered was handled.                                  *)
(***************************************************************************)
EXTENDS ActorMailbox, Dispatcher, TLAPS

-----------------------------------------------------------------------------
(* Dispatcher *)

BoardInv == BoardTypeOK /\ QueueIsEscalated

LEMMA InitBoard == BoardInit => BoardInv
BY DispatcherAssumption
DEF BoardInit, BoardInv, BoardTypeOK, QueueIsEscalated, Is, Status

\* Counting one failure more stays below the limit, or ends at it.
LEMMA AttemptsCounted ==
    ASSUME BoardTypeOK, NEW t \in Task
    PROVE  /\ attempts_so_far(t) + 1 \in Nat
           /\ attempts_so_far(t) + 1 \in 1..(MaxAttempts + 1)
           /\ attempts_so_far(t) + 1 < MaxAttempts
                  => attempts_so_far(t) + 1 \in 1..(MaxAttempts - 1)
<1>1. CASE status[t].is = "Failed"
  <2>1. status[t].attempts \in 1..(MaxAttempts - 1)
    BY <1>1 DEF BoardTypeOK
  <2>2. QED
    BY <1>1, <2>1, DispatcherAssumption DEF attempts_so_far
<1>2. CASE status[t].is # "Failed"
  BY <1>2, DispatcherAssumption DEF attempts_so_far
<1>3. QED
  BY <1>1, <1>2

LEMMA StepBoard == BoardInv /\ [BoardNext]_board => BoardInv'
<1> SUFFICES ASSUME BoardInv, [BoardNext]_board PROVE BoardInv'
  OBVIOUS
<1> USE DispatcherAssumption
    DEF BoardInv, BoardTypeOK, QueueIsEscalated, Sets, Is, Status
<1>1. ASSUME NEW t \in Task, submit(t) PROVE BoardInv'
  BY <1>1 DEF submit, OnBoard
<1>2. ASSUME NEW t \in Task, assign(t) PROVE BoardInv'
  <2>1. outstanding' \in [Task -> 0..MaxReports]
    BY <1>2 DEF assign
  <2>2. QED
    BY <1>2, <2>1 DEF assign, Assignable
<1>3. ASSUME NEW t \in Task, record_failure(t) PROVE BoardInv'
  <2> DEFINE attempts == attempts_so_far(t) + 1
  <2>1. outstanding' \in [Task -> 0..MaxReports]
    BY <1>3 DEF record_failure, Reported
  <2>2. /\ attempts \in 0..(MaxAttempts + 1)
        /\ attempts < MaxAttempts => attempts \in 1..(MaxAttempts - 1)
        /\ attempts \in Nat
    BY AttemptsCounted
  <2>3. CASE status[t].is = "Escalated"
    BY <1>3, <2>1, <2>3 DEF record_failure, failure
  <2> HIDE DEF attempts
  <2>4. CASE status[t].is # "Escalated" /\ attempts >= MaxAttempts
    <3>1. /\ status' = [status EXCEPT ![t] = Counted("Escalated", attempts)]
          /\ open_escalations' = open_escalations \cup {t}
      BY <1>3, <2>4 DEF record_failure, failure, attempts
    <3>2. QED
      BY <2>1, <2>2, <3>1 DEF Counted
  <2>5. CASE status[t].is # "Escalated" /\ ~(attempts >= MaxAttempts)
    <3>1. /\ status' = [status EXCEPT ![t] = Counted("Failed", attempts)]
          /\ open_escalations' = open_escalations
      BY <1>3, <2>5 DEF record_failure, failure, attempts
    <3>2. attempts \in 1..(MaxAttempts - 1)
      BY <2>2, <2>5
    <3>3. QED
      BY <2>1, <2>2, <2>5, <3>1, <3>2 DEF Counted
  <2>6. QED
    BY <2>3, <2>4, <2>5
<1>4. ASSUME NEW t \in Task, record_success(t) PROVE BoardInv'
  <2>1. outstanding' \in [Task -> 0..MaxReports]
    BY <1>4 DEF record_success, Reported
  <2>2. status' = [status EXCEPT ![t] = Is("Done")]
    BY <1>4 DEF record_success, success
  <2>3. status' \in [Task -> Status] /\ status'[t].is = "Done"
        /\ \A u \in Task : u # t => status'[u] = status[u]
    BY <2>2
  <2>4. open_escalations' = open_escalations \ {t}
    BY <1>4 DEF record_success, success
  <2>5. QED
    BY <2>1, <2>3, <2>4
<1>5. ASSUME NEW t \in Task, resolve_escalation(t) PROVE BoardInv'
  BY <1>5 DEF resolve_escalation
<1>6. CASE UNCHANGED board
  BY <1>6 DEF board
<1>7. QED
  BY <1>1, <1>2, <1>3, <1>4, <1>5, <1>6 DEF BoardNext

\* The queue that gates assignment is exactly the escalated tasks, after any
\* calls in any order (dispatcher.rs, TD4.1).
THEOREM QueueCorrect == BoardSpec => []QueueIsEscalated
<1>1. BoardInv => QueueIsEscalated
  BY DEF BoardInv
<1>2. QED
  BY <1>1, InitBoard, StepBoard, PTL DEF BoardSpec

LEMMA EscalationStep == ASSUME BoardInv, BoardNext PROVE EscalationStays
<1> SUFFICES ASSUME NEW u \in Task, status[u].is = "Escalated"
             PROVE  status'[u].is = "Done" \/ status'[u] = status[u]
  BY DEF EscalationStays
<1> USE DEF BoardInv, BoardTypeOK, Sets, Is
<1>1. ASSUME NEW t \in Task, submit(t) PROVE status'[u] = status[u]
  BY <1>1 DEF submit, OnBoard
<1>2. ASSUME NEW t \in Task, assign(t) PROVE status'[u] = status[u]
  BY <1>2 DEF assign, Assignable
<1>3. ASSUME NEW t \in Task, record_failure(t) PROVE status'[u] = status[u]
  BY <1>3 DEF record_failure, failure
<1>4. ASSUME NEW t \in Task, record_success(t)
      PROVE  status'[u].is = "Done" \/ status'[u] = status[u]
  BY <1>4 DEF record_success, success
<1>5. ASSUME NEW t \in Task, resolve_escalation(t)
      PROVE  status'[u].is = "Done" \/ status'[u] = status[u]
  BY <1>5 DEF resolve_escalation
<1>6. QED
  BY <1>1, <1>2, <1>3, <1>4, <1>5 DEF BoardNext

LEMMA FullQueueStep == ASSUME BoardInv, BoardNext PROVE FullQueueTakesNoMore
<1> SUFFICES ASSUME QueueFull
             PROVE  MayEscalate' \subseteq MayEscalate
  BY DEF FullQueueTakesNoMore, QueueFull
<1> USE DEF BoardInv, BoardTypeOK, MayEscalate
<1>1. ASSUME NEW t \in Task, submit(t) PROVE MayEscalate' \subseteq MayEscalate
  BY <1>1 DEF submit
<1>2. ASSUME NEW t \in Task, assign(t) PROVE FALSE
  BY <1>2 DEF assign
<1>3. ASSUME NEW t \in Task, record_failure(t) \/ record_success(t)
      PROVE  MayEscalate' \subseteq MayEscalate
  <2>1. /\ outstanding[t] > 0
        /\ \A u \in Task : u # t => outstanding'[u] = outstanding[u]
    BY <1>3 DEF record_failure, record_success, Reported
  <2>2. open_escalations' \subseteq open_escalations \cup {t}
    BY <1>3 DEF record_failure, record_success, failure, success
  <2>3. QED
    BY <2>1, <2>2
<1>4. ASSUME NEW t \in Task, resolve_escalation(t) PROVE MayEscalate' \subseteq MayEscalate
  BY <1>4 DEF resolve_escalation
<1>5. QED
  BY <1>1, <1>2, <1>3, <1>4 DEF BoardNext

\* No report and no assignment takes an escalated task from the human, and while
\* the human's queue is full, only a task whose actor owes a report, or that is in
\* the queue, can come to be in it (dispatcher.rs, section 3.8, ADR-0015).
THEOREM QueueStaysTheHumans == BoardSpec => QueueIsTheHumans
<1>1. BoardInv /\ [BoardNext]_board => [EscalationStays /\ FullQueueTakesNoMore]_board
  BY EscalationStep, FullQueueStep DEF board
<1>2. QED
  BY <1>1, InitBoard, StepBoard, PTL DEF BoardSpec, QueueIsTheHumans

-----------------------------------------------------------------------------
(* ActorMailbox: the freeze *)

Places == {"down", "returned", "pending", "select", "receive", "handle"}

\* The watch of an actor that runs during a freeze has news: it was polled
\* before the freeze began, or it is polled next.
FreezeInv ==
    /\ at \in [Actor -> Places]
    /\ version \in Nat /\ seen \in [Actor -> Nat] /\ taken \in [Actor -> Nat]
    /\ \A a \in Actor : seen[a] <= version
    /\ frozen => \A a \in Actor :
          /\ at[a] \notin {"down", "returned"} => NewsOf(a)
          /\ at[a] = "receive" => taken[a] = 0
          /\ taken[a] <= 1

LEMMA InitFreeze == Init => FreezeInv
BY DEF Init, FreezeInv, Places

LEMMA StepFreeze == FreezeInv /\ [Next]_vars => FreezeInv'
<1> SUFFICES ASSUME FreezeInv, [Next]_vars PROVE FreezeInv'
  OBVIOUS
<1> USE DEF FreezeInv, Places, NewsOf, Goes, channels, tasks, freezing, history, bounds
<1>1. ASSUME NEW e \in Envelope, publish(e) PROVE FreezeInv'
  BY <1>1 DEF publish
<1>2. ASSUME NEW s \in sending, send(s) PROVE FreezeInv'
  BY <1>2 DEF send
<1>3. ASSUME NEW a \in Actor, freeze_changed(a) PROVE FreezeInv'
  BY <1>3 DEF freeze_changed
<1>4. ASSUME NEW a \in Actor, mailbox_polled(a) PROVE FreezeInv'
  BY <1>4 DEF mailbox_polled
<1>5. ASSUME NEW a \in Actor, woken(a) PROVE FreezeInv'
  BY <1>5 DEF woken
<1>6. ASSUME NEW a \in Actor, received(a) PROVE FreezeInv'
  BY <1>6 DEF received
<1>7. ASSUME NEW a \in Actor, handles(a) PROVE FreezeInv'
  BY <1>7 DEF handles
<1>8. ASSUME NEW a \in Actor, register_actor(a) PROVE FreezeInv'
  BY <1>8 DEF register_actor
<1>9. ASSUME NEW a \in Actor, recovers(a) PROVE FreezeInv'
  BY <1>9 DEF recovers
<1>10. ASSUME NEW a \in Actor, handles_pending(a) PROVE FreezeInv'
  BY <1>10 DEF handles_pending
<1>11. CASE freeze_all
  BY <1>11 DEF freeze_all
<1>12. CASE unfreeze_all
  BY <1>12 DEF unfreeze_all
<1>13. CASE drop_switch
  BY <1>13 DEF drop_switch
<1>14. CASE dies
  BY <1>14 DEF dies
<1>15. CASE UNCHANGED vars
  BY <1>15 DEF vars
<1>16. QED
  BY <1>1, <1>2, <1>3, <1>4, <1>5, <1>6, <1>7, <1>8, <1>9, <1>10, <1>11, <1>12, <1>13,
     <1>14, <1>15 DEF Next, run, host

\* Whenever the freeze falls, an actor takes one envelope more at most
\* (actor.rs: the watch is polled first).
THEOREM FreezeIsFinal == Spec => []FreezeStopsActors
<1>1. FreezeInv => FreezeStopsActors
  BY DEF FreezeInv, FreezeStopsActors
<1>2. QED
  BY <1>1, InitFreeze, StepFreeze, PTL DEF Spec

-----------------------------------------------------------------------------
(* ActorMailbox: the journal *)

\* An identifier names one envelope: persist_envelope compares no more than
\* the payload of the row it finds.
IdsName == \A e, f \in Envelope : e.id = f.id => e = f

\* Whatever is on its way to a handler has its row.
MailInv ==
    /\ rows \in Seq(Envelope)
    /\ \A id \in delivered : \E e \in handled : e.id = id
    /\ \A e \in handled \cup failed : Journalled(e)
    /\ inbox \in [Actor -> Seq(Envelope)]
    /\ \A a \in Actor : \A i \in DOMAIN inbox[a] : Journalled(inbox[a][i])
    /\ \A s \in sending : Journalled(s.envelope)
    /\ at \in [Actor -> Places] /\ current \in [Actor -> Envelope \cup {NoEnvelope}]
    /\ \A a \in Actor : at[a] = "handle" => Journalled(current[a])
    /\ pending \in [Actor -> SUBSET DOMAIN rows]

LEMMA JournalledTyped == ASSUME MailInv, NEW e, Journalled(e) PROVE e \in Envelope
BY DEF MailInv, Journalled

\* A handler that got a journalled envelope leaves the table in order.
LEMMA HandleKeeps ==
    ASSUME MailInv, NEW a, NEW e, Journalled(e), handle(a, e), UNCHANGED rows
    PROVE  /\ \A id \in delivered' : \E f \in handled' : f.id = id
           /\ \A f \in handled' \cup failed' : Journalled(f)'
BY DEF MailInv, handle, Journalled

LEMMA InitMail == Init => MailInv
BY DEF Init, MailInv, Places, Journalled

LEMMA StepMail == ASSUME IdsName, MailInv, [Next]_vars PROVE MailInv'
<1> USE DEF channels, tasks, freezing, history, bounds, Goes
<1>0. rows \in Seq(Envelope)
  BY DEF MailInv
<1>1. ASSUME NEW e \in Envelope, publish(e) PROVE MailInv'
  <2>1. rows' = rows \/ rows' = Append(rows, e)
    BY <1>1 DEF publish, persist_envelope
  <2>2. rows' \in Seq(Envelope) /\ DOMAIN rows \subseteq DOMAIN rows'
    BY <1>0, <2>1
  <2>3. \A f : Journalled(f) => Journalled(f)'
    BY <1>0, <2>1 DEF Journalled
  <2>4. Journalled(e)'
    <3>1. CASE e.id \in RowIds
      <4>1. PICK i \in DOMAIN rows : rows[i].id = e.id
        BY <3>1 DEF RowIds
      <4>2. rows[i] = e
        BY <1>0, <4>1 DEF IdsName
      <4>3. QED
        BY <2>3, <4>2 DEF Journalled
    <3>2. CASE e.id \notin RowIds
      <4>1. rows' = Append(rows, e)
        BY <1>1, <3>2 DEF publish, persist_envelope
      <4>2. QED
        BY <1>0, <4>1 DEF Journalled
    <3>3. QED
      BY <3>1, <3>2
  <2>5. \A s \in sending' : Journalled(s.envelope)'
    <3>1. ASSUME NEW s \in sending' PROVE s \in sending \/ s.envelope = e
      BY <1>1 DEF publish
    <3>2. QED
      BY <2>3, <2>4, <3>1 DEF MailInv
  <2>6. UNCHANGED <<delivered, inbox, tasks, handled, failed>>
    BY <1>1 DEF publish
  <2>7. pending' \in [Actor -> SUBSET DOMAIN rows']
    BY <2>2, <2>6 DEF MailInv
  <2>8. QED
    BY <2>2, <2>3, <2>5, <2>6, <2>7 DEF MailInv
<1>2. ASSUME NEW s \in sending, send(s) PROVE MailInv'
  <2> DEFINE to == s.envelope.to
  <2>1. Journalled(s.envelope) /\ s.envelope \in Envelope
    BY JournalledTyped DEF MailInv
  <2>2. to \in Actor
    BY <2>1, MailboxAssumption
  <2>3. UNCHANGED <<rows, delivered, tasks, handled, failed>> /\ sending' \subseteq sending
    BY <1>2 DEF send
  <2>4. inbox' = inbox \/ inbox' = [inbox EXCEPT ![to] = Append(@, s.envelope)]
    BY <1>2 DEF send
  <2>5. inbox' \in [Actor -> Seq(Envelope)]
    <3>1. inbox \in [Actor -> Seq(Envelope)]
      BY DEF MailInv
    <3>2. Append(inbox[to], s.envelope) \in Seq(Envelope)
      BY <2>1, <2>2, <3>1
    <3> HIDE DEF to
    <3>3. QED
      BY <2>2, <2>4, <3>1, <3>2
  <2>6. ASSUME NEW a \in Actor, NEW i \in DOMAIN inbox'[a] PROVE Journalled(inbox'[a][i])
    <3>1. inbox[a] \in Seq(Envelope)
      BY DEF MailInv
    <3>2. CASE inbox'[a] = inbox[a]
      BY <2>6, <3>2 DEF MailInv
    <3>3. CASE inbox'[a] # inbox[a]
      <4>1. inbox'[a] = Append(inbox[a], s.envelope)
        BY <2>2, <2>4, <3>3 DEF MailInv
      <4>2. CASE i = Len(inbox[a]) + 1
        <5>1. inbox'[a][i] = s.envelope
          BY <3>1, <4>1, <4>2
        <5>2. QED
          BY <2>1, <5>1
      <4>3. CASE i # Len(inbox[a]) + 1
        <5>1. i \in DOMAIN inbox[a] /\ inbox'[a][i] = inbox[a][i]
          BY <2>6, <3>1, <4>1, <4>3
        <5>2. QED
          BY <5>1 DEF MailInv
      <4>4. QED
        BY <4>2, <4>3
    <3>4. QED
      BY <3>2, <3>3
  <2>7. QED
    BY <2>3, <2>5, <2>6 DEF MailInv, Journalled
<1>3. ASSUME NEW a \in Actor, freeze_changed(a) \/ mailbox_polled(a) \/ woken(a)
      PROVE  MailInv'
  <2>1. /\ UNCHANGED <<rows, delivered, inbox, sending, current, pending, handled, failed>>
        /\ at' \in [Actor -> Places]
        /\ \A b \in Actor : at'[b] = "handle" => at[b] = "handle"
    BY <1>3 DEF freeze_changed, mailbox_polled, woken, MailInv, Places
  <2>2. QED
    BY <2>1 DEF MailInv, Journalled
<1>4. ASSUME NEW a \in Actor, received(a) PROVE MailInv'
  <2>1. inbox[a] \in Seq(Envelope) /\ inbox[a] # <<>>
    BY <1>4 DEF received, MailInv
  <2>2. Journalled(Head(inbox[a])) /\ Head(inbox[a]) \in Envelope
    <3>1. Head(inbox[a]) = inbox[a][1] /\ 1 \in DOMAIN inbox[a]
      BY <2>1
    <3>2. QED
      BY <3>1, JournalledTyped DEF MailInv
  <2>3. Tail(inbox[a]) \in Seq(Envelope)
        /\ \A i \in DOMAIN Tail(inbox[a]) :
              i + 1 \in DOMAIN inbox[a] /\ Tail(inbox[a])[i] = inbox[a][i + 1]
    BY <2>1
  <2>4. /\ UNCHANGED <<rows, delivered, sending, pending, handled, failed>>
        /\ inbox' = [inbox EXCEPT ![a] = Tail(@)]
        /\ current' = [current EXCEPT ![a] = Head(inbox[a])]
        /\ at' = [at EXCEPT ![a] = "handle"]
    BY <1>4 DEF received
  <2>5. inbox' \in [Actor -> Seq(Envelope)]
    BY <2>3, <2>4 DEF MailInv
  <2>6. ASSUME NEW b \in Actor, NEW i \in DOMAIN inbox'[b] PROVE Journalled(inbox'[b][i])
    <3>1. CASE b = a
      BY <2>3, <2>4, <2>6, <3>1 DEF MailInv
    <3>2. CASE b # a
      BY <2>4, <2>6, <3>2 DEF MailInv
    <3>3. QED
      BY <3>1, <3>2
  <2>7. current' \in [Actor -> Envelope \cup {NoEnvelope}] /\ at' \in [Actor -> Places]
    BY <2>2, <2>4 DEF MailInv, Places
  <2>8. ASSUME NEW b \in Actor, at'[b] = "handle" PROVE Journalled(current'[b])
    BY <2>2, <2>4, <2>8 DEF MailInv
  <2>9. QED
    BY <2>4, <2>5, <2>6, <2>7, <2>8 DEF MailInv, Journalled
<1>5. ASSUME NEW a \in Actor, handles(a) PROVE MailInv'
  <2>1. Journalled(current[a]) /\ handle(a, current[a]) /\ UNCHANGED rows
    BY <1>5 DEF handles, MailInv
  <2>2. /\ \A id \in delivered' : \E f \in handled' : f.id = id
        /\ \A f \in handled' \cup failed' : Journalled(f)'
    BY <2>1, HandleKeeps
  <2>3. /\ UNCHANGED <<rows, inbox, sending, pending>>
        /\ at' \in [Actor -> Places] /\ current' \in [Actor -> Envelope \cup {NoEnvelope}]
        /\ \A b \in Actor : at'[b] = "handle" => at[b] = "handle" /\ current'[b] = current[b]
    BY <1>5 DEF handles, MailInv, Places
  <2>4. QED
    BY <2>2, <2>3 DEF MailInv, Journalled
<1>6. ASSUME NEW a \in Actor, register_actor(a) PROVE MailInv'
  <2>1. /\ UNCHANGED <<rows, delivered, sending, current, pending, handled, failed>>
        /\ at' \in [Actor -> Places]
        /\ \A b \in Actor : at'[b] = "handle" => at[b] = "handle"
    BY <1>6 DEF register_actor, MailInv, Places
  <2>2. inbox' \in [Actor -> Seq(Envelope)]
        /\ \A b \in Actor : inbox'[b] = inbox[b] \/ inbox'[b] = <<>>
    BY <1>6 DEF register_actor, MailInv
  <2>3. QED
    BY <2>1, <2>2 DEF MailInv, Journalled
<1>7. ASSUME NEW a \in Actor, recovers(a) PROVE MailInv'
  <2>1. /\ UNCHANGED <<rows, delivered, inbox, sending, current, handled, failed>>
        /\ at' \in [Actor -> Places]
        /\ \A b \in Actor : at'[b] = "handle" => at[b] = "handle"
    BY <1>7 DEF recovers, MailInv, Places
  <2>2. pending' \in [Actor -> SUBSET DOMAIN rows]
    BY <1>7 DEF recovers, recover_pending, undelivered_for, MailInv
  <2>3. QED
    BY <2>1, <2>2 DEF MailInv, Journalled
<1>8. ASSUME NEW a \in Actor, handles_pending(a) PROVE MailInv'
  <2>1. UNCHANGED <<rows, inbox, sending, current>>
    BY <1>8 DEF handles_pending
  <2>2. /\ at' \in [Actor -> Places] /\ pending' \in [Actor -> SUBSET DOMAIN rows]
        /\ \A b \in Actor : at'[b] = "handle" => at[b] = "handle"
    BY <1>8 DEF handles_pending, MailInv, Places
  <2>3. CASE UNCHANGED <<handled, failed, delivered>>
    BY <2>1, <2>2, <2>3 DEF MailInv, Journalled
  <2>4. CASE \E i \in pending[a] : handle(a, rows[i])
    <3>1. PICK i \in pending[a] : handle(a, rows[i])
      BY <2>4
    <3>2. Journalled(rows[i])
      BY DEF MailInv, Journalled
    <3>3. /\ \A id \in delivered' : \E f \in handled' : f.id = id
          /\ \A f \in handled' \cup failed' : Journalled(f)'
      BY <2>1, <3>1, <3>2, HandleKeeps
    <3>4. QED
      BY <2>1, <2>2, <3>3 DEF MailInv, Journalled
  <2>5. QED
    BY <1>8, <2>3, <2>4 DEF handles_pending
<1>9. CASE freeze_all \/ unfreeze_all \/ drop_switch \/ UNCHANGED vars
  BY <1>9 DEF freeze_all, unfreeze_all, drop_switch, vars, MailInv, Journalled
<1>10. CASE dies
  BY <1>10 DEF dies, MailInv, Journalled, Places
<1>11. QED
  BY <1>1, <1>2, <1>3, <1>4, <1>5, <1>6, <1>7, <1>8, <1>9, <1>10 DEF Next, run, host

\* If identifiers name envelopes, what the table calls delivered was handled by
\* its addressee, and no handler gets what the table does not hold (bus.rs,
\* actor.rs), for any number of deaths, freezes and failing handlers.
THEOREM DeliveryIsHonest == ASSUME IdsName PROVE Spec => []ConfirmedOnceHandled
<1>1. MailInv => ConfirmedOnceHandled
  <2> SUFFICES ASSUME MailInv PROVE ConfirmedOnceHandled
    OBVIOUS
  <2>1. ASSUME NEW id \in delivered PROVE EnvelopeRow(id) \in handled
    <3>1. PICK e \in handled : e.id = id
      BY DEF MailInv
    <3>2. PICK i \in DOMAIN rows : rows[i] = e
      BY DEF MailInv, Journalled
    <3>3. \E f \in {rows[j] : j \in DOMAIN rows} : f.id = id
      BY <3>1, <3>2
    <3>4. EnvelopeRow(id) \in {rows[j] : j \in DOMAIN rows} /\ EnvelopeRow(id).id = id
      BY <3>3 DEF EnvelopeRow
    <3>5. EnvelopeRow(id) \in Envelope /\ e \in Envelope
      BY <3>2, <3>4 DEF MailInv
    <3>6. QED
      BY <3>1, <3>4, <3>5 DEF IdsName
  <2>2. QED
    BY <2>1 DEF MailInv, ConfirmedOnceHandled
<1>2. MailInv /\ [Next]_vars => MailInv'
  BY StepMail
<1>3. QED
  BY <1>1, <1>2, InitMail, PTL DEF Spec
=============================================================================
