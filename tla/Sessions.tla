------------------------------- MODULE Sessions -------------------------------
(***************************************************************************)
(* Sessions of one host over the shared journal (sessions.rs): the registry,   *)
(* the file.changed notices put into the mailbox of every session that has      *)
(* observed a file, mail between sessions, and the drain of a mailbox at the     *)
(* edge of a chat turn.  Every session is a process of its own: what it has       *)
(* between two journal calls is lost when it is killed.                            *)
(***************************************************************************)
EXTENDS Naturals, FiniteSets

CONSTANTS Session, File, Text, MaxVersion, MaxMail, MaxMs

VARIABLES registry,     \* session -> "none", "open" or "closed", as folded
          alive,        \* the sessions whose pid exists
          noted,        \* FileObserved: <<session, file>>
          content,      \* file -> its version on disk
          mail,         \* the rows of envelopes
          known,        \* session -> file -> version in its history, 0 for none
          busy,         \* session -> the call it is in
          shown,        \* session -> what its turns have shown
          sent,         \* the messages a sender was told are sent
          unsaid,       \* <<session, file, why>>: changes nobody is to announce
          ms

session_vars == <<registry, alive, noted, content, mail, known, busy, shown, sent,
                  unsaid, ms>>

Idle == [at |-> "idle"]

SessionInit ==
    /\ registry = [s \in Session |-> "none"] /\ alive = {} /\ noted = {}
    /\ content = [f \in File |-> 1] /\ mail = {}
    /\ known = [s \in Session |-> [f \in File |-> 0]]
    /\ busy = [s \in Session |-> Idle] /\ shown = [s \in Session |-> {}]
    /\ sent = {} /\ unsaid = {} /\ ms = 0

\* What a reader of the registry takes for a live session.
Live == {s \in Session : registry[s] = "open" /\ s \in alive}

sessions_observing(f, writer) == {s \in Live \ {writer} : <<s, f>> \in noted}

\* persist_envelope: an id that exists is ignored, or refused if the payload differs.
Envelope(kind, from, to, body) ==
    [id |-> <<kind, from, to, ms, IF kind = "file.changed" THEN body ELSE 0>>,
     topic |-> kind, from |-> from, to |-> to, payload |-> body, delivered |-> FALSE]
Same(e) == {row \in mail : row.id = e.id}
accepted(e) == \A row \in Same(e) : row.payload = e.payload
persist(e) == mail' = IF Same(e) = {} THEN mail \cup {e} ELSE mail

record_open(s) ==
    /\ registry[s] = "none" /\ registry' = [registry EXCEPT ![s] = "open"]
    /\ alive' = alive \cup {s}
    /\ UNCHANGED <<noted, content, mail, known, busy, shown, sent, unsaid, ms>>

record_closed(s) ==
    /\ s \in Live /\ busy[s] = Idle
    /\ registry' = [registry EXCEPT ![s] = "closed"] /\ alive' = alive \ {s}
    /\ UNCHANGED <<noted, content, mail, known, busy, shown, sent, unsaid, ms>>

\* The process dies; what a writer had still to announce is not announced.
kill(s) ==
    /\ s \in alive /\ alive' = alive \ {s} /\ busy' = [busy EXCEPT ![s] = Idle]
    /\ unsaid' = IF busy[s].at \in {"touching", "notifying"}
                   THEN unsaid \cup {<<o, busy[s].file, "killed">> : o \in Session}
                   ELSE unsaid
    /\ UNCHANGED <<registry, noted, content, mail, known, shown, sent, ms>>

Forgotten(s, f) == {u \in unsaid : u[1] = s /\ u[2] = f}

\* files.read: the content is read first, FileObserved is journalled after it.
files_read(s, f) ==
    /\ s \in Live /\ busy[s] = Idle
    /\ busy' = [busy EXCEPT ![s] = [at |-> "reading", file |-> f, saw |-> content[f]]]
    /\ shown' = [shown EXCEPT ![s] = @ \ {f}]
    /\ unsaid' = unsaid \ Forgotten(s, f)
    /\ UNCHANGED <<registry, alive, noted, content, mail, known, sent, ms>>

note_observed(s) ==
    /\ busy[s].at = "reading" /\ noted' = noted \cup {<<s, busy[s].file>>}
    /\ known' = [known EXCEPT ![s][busy[s].file] = busy[s].saw]
    /\ busy' = [busy EXCEPT ![s] = Idle]
    /\ UNCHANGED <<registry, alive, content, mail, shown, sent, unsaid, ms>>

\* A tool changes the file; its session knows what it has written.
changed(s, f) ==
    /\ s \in Live /\ busy[s] = Idle /\ content[f] < MaxVersion
    /\ content' = [content EXCEPT ![f] = @ + 1]
    /\ known' = [known EXCEPT ![s][f] = content[f] + 1]
    /\ UNCHANGED <<registry, alive, noted, mail, shown, sent, ms>>

files_write(s, f) ==
    /\ changed(s, f) /\ busy' = [busy EXCEPT ![s] = [at |-> "touching", file |-> f]]
    /\ unsaid' = unsaid \ Forgotten(s, f)

\* files.edit does not call note_touched.
files_edit(s, f) ==
    /\ changed(s, f) /\ UNCHANGED busy
    /\ unsaid' = (unsaid \ Forgotten(s, f)) \cup {<<o, f, "edit">> : o \in Session \ {s}}

\* record_touched_and_notify: the observers are read once; a reader of the file that
\* has not journalled its FileObserved yet is not among them.
note_touched(s) ==
    LET f == busy[s].file
        racing == {o \in Session : busy[o].at = "reading" /\ busy[o].file = f
                                     /\ <<o, f>> \notin noted}
    IN /\ busy[s].at = "touching"
       /\ busy' = [busy EXCEPT ![s] = [at |-> "notifying", file |-> f,
                                       left |-> sessions_observing(f, s)]]
       /\ unsaid' = unsaid \cup {<<o, f, "race">> : o \in racing}
       /\ UNCHANGED <<registry, alive, noted, content, mail, known, shown, sent, ms>>

notify(s) ==
    /\ busy[s].at = "notifying"
    /\ \/ /\ busy[s].left = {} /\ busy' = [busy EXCEPT ![s] = Idle] /\ UNCHANGED mail
       \/ \E o \in busy[s].left :
            /\ busy' = [busy EXCEPT ![s].left = @ \ {o}]
            /\ persist(Envelope("file.changed", s, o, busy[s].file))
    /\ UNCHANGED <<registry, alive, noted, content, known, shown, sent, unsaid, ms>>

\* /tell: the sender is told of a refusal; a message sent twice in one millisecond is one.
send_message(s, to, text) ==
    LET e == Envelope("message", s, to, text)
    IN /\ s \in Live /\ busy[s] = Idle /\ Cardinality(mail) < MaxMail
       /\ sent' = IF accepted(e) THEN sent \cup {<<s, to, text>>} ELSE sent
       /\ persist(e)
       /\ UNCHANGED <<registry, alive, noted, content, known, busy, shown, unsaid, ms>>

\* /broadcast: the live sessions are listed once and written to in turn; the first
\* refusal ends it, and the sender is told of success only at the end.
broadcast_message(s, text) ==
    /\ s \in Live /\ busy[s] = Idle /\ Cardinality(mail) < MaxMail
    /\ busy' = [busy EXCEPT ![s] = [at |-> "broadcasting", text |-> text,
                                    left |-> Live \ {s}, to |-> Live \ {s}]]
    /\ UNCHANGED <<registry, alive, noted, content, mail, known, shown, sent, unsaid, ms>>

broadcasts(s) ==
    /\ busy[s].at = "broadcasting"
    /\ \/ /\ busy[s].left = {} /\ busy' = [busy EXCEPT ![s] = Idle] /\ UNCHANGED mail
          /\ sent' = sent \cup {<<s, o, busy[s].text>> : o \in busy[s].to}
       \/ \E o \in busy[s].left : LET e == Envelope("message", s, o, busy[s].text)
            IN /\ persist(e) /\ UNCHANGED sent
               /\ busy' = IF accepted(e) THEN [busy EXCEPT ![s].left = @ \ {o}]
                                         ELSE [busy EXCEPT ![s] = Idle]
    /\ UNCHANGED <<registry, alive, noted, content, known, shown, unsaid, ms>>

\* drain_envelopes at the edge of a turn: fetch, mark each as delivered, then show.
drain(s) ==
    LET got == {row \in mail : row.to = s /\ ~row.delivered}
    IN /\ s \in Live /\ busy[s] = Idle /\ got # {}
       /\ busy' = [busy EXCEPT ![s] = [at |-> "draining", got |-> got, left |-> got]]
       /\ UNCHANGED <<registry, alive, noted, content, mail, known, shown, sent, unsaid, ms>>

\* Bug: everything undelivered is marked, what arrived since the fetch included.
marks_the_box(s) ==
    /\ busy[s].at = "draining" /\ busy[s].left # {}
    /\ mail' = {IF row.to = s THEN [row EXCEPT !.delivered = TRUE] ELSE row : row \in mail}
    /\ busy' = [busy EXCEPT ![s].left = {}]
    /\ UNCHANGED <<registry, alive, noted, content, known, shown, sent, unsaid, ms>>

mark_delivered(s) ==
    /\ busy[s].at = "draining"
    /\ \E row \in busy[s].left :
         /\ mail' = (mail \ {row}) \cup {[row EXCEPT !.delivered = TRUE]}
         /\ busy' = [busy EXCEPT ![s].left = @ \ {row}]
    /\ UNCHANGED <<registry, alive, noted, content, known, shown, sent, unsaid, ms>>

\* The turn of the model that follows takes longer than the millisecond of an id.
shows(s) ==
    /\ busy[s].at = "draining" /\ busy[s].left = {} /\ ms < MaxMs /\ ms' = ms + 1
    /\ shown' = [shown EXCEPT ![s] = @ \cup
         {IF row.topic = "file.changed" THEN row.payload ELSE <<row.from, row.payload>>
            : row \in busy[s].got}]
    /\ busy' = [busy EXCEPT ![s] = Idle]
    /\ UNCHANGED <<registry, alive, noted, content, mail, known, sent, unsaid>>

tick == /\ ms < MaxMs /\ ms' = ms + 1
        /\ UNCHANGED <<registry, alive, noted, content, mail, known, busy, shown, sent, unsaid>>

SessionNext ==
    \/ tick
    \/ \E s \in Session :
         \/ record_open(s) \/ record_closed(s) \/ kill(s) \/ note_observed(s)
         \/ note_touched(s) \/ notify(s) \/ broadcasts(s)
         \/ drain(s) \/ mark_delivered(s) \/ shows(s)
         \/ \E f \in File : files_read(s, f) \/ files_write(s, f) \/ files_edit(s, f)
         \/ \E text \in Text : \/ broadcast_message(s, text)
                               \/ \E to \in Session \ {s} : send_message(s, to, text)
-----------------------------------------------------------------------------
Waiting(s) == {row \in mail : row.to = s /\ ~row.delivered}
Batch(s) == IF busy[s].at = "draining" THEN busy[s].got ELSE {}
ToldOf(s, f) ==
    \/ f \in shown[s]
    \/ \E row \in Waiting(s) \cup Batch(s) : row.topic = "file.changed" /\ row.payload = f

Stale(s, f) == known[s][f] # 0 /\ known[s][f] < content[f]
Announcing(f) == \E w \in Session : busy[w].at \in {"touching", "notifying"} /\ busy[w].file = f
Unsaid(s, f, why) == \E u \in Forgotten(s, f) : u[3] \in why

\* A live session whose history holds an older version of a file than the disk has been
\* told, or has the notice in its box, once the writers have finished announcing; unless
\* it was reading the file as the observers were listed, the writer died, or the change was
\* an edit (sessions.rs, record_touched_and_notify).
WritesAreAnnounced ==
    \A s \in Live, f \in File :
      (Stale(s, f) /\ <<s, f>> \in noted /\ busy[s].at # "reading"
         /\ ~Announcing(f) /\ ~Unsaid(s, f, {"race", "killed", "edit"}))
        => ToldOf(s, f)

\* A message its sender was told is sent waits in the receiver's box, is in the batch the
\* receiver is about to show, or was shown, as long as the receiver is alive
\* (send_message, broadcast_message, drain_envelopes).
SentIsNotLost ==
    \A m \in sent : m[2] \in Live =>
       \/ <<m[1], m[3]>> \in shown[m[2]]
       \/ \E row \in Waiting(m[2]) \cup Batch(m[2]) :
             row.topic = "message" /\ row.from = m[1] /\ row.payload = m[3]
=============================================================================
