----------------------------- MODULE Dispatcher -----------------------------
(***************************************************************************)
(* The task board of crates/berimor-actors/src/dispatcher.rs: assignment,   *)
(* failures in a row, escalation to a human and the limit of the human's    *)
(* queue (ADR-0015).                                                        *)
(*                                                                         *)
(* The board is plain data behind one owner: an action is one call.  Who    *)
(* calls is modelled from the doc comments: an assigned actor reports once  *)
(* per assignment, success or failure, at any later time, also after the    *)
(* task was given to another actor or closed by the human.                  *)
(***************************************************************************)
EXTENDS Integers, FiniteSets

CONSTANTS Task,        \* task identifiers
          MaxAttempts, \* max_attempts
          Limit,       \* human_gate_limit, or NoLimit for None
          NoLimit,
          MaxReports   \* bound: reports outstanding for one task

ASSUME DispatcherAssumption ==
    /\ MaxAttempts \in Nat /\ MaxReports \in Nat \ {0}
    /\ NoLimit \notin Nat /\ Limit \in Nat \cup {NoLimit}

VARIABLES status,            \* [Task -> its status on the board]
          open_escalations,  \* tasks in the human's queue
          outstanding        \* [Task -> reports its actors still owe]

board == <<status, open_escalations, outstanding>>

Is(kind) == [is |-> kind, attempts |-> 0]
Counted(kind, n) == [is |-> kind, attempts |-> n]
Status == [is : {"absent", "Pending", "Assigned", "Failed", "Escalated", "Done"},
           attempts : 0..(MaxAttempts + 1)]

Sets(t, s) == status' = [status EXCEPT ![t] = s]
OnBoard(t) == status[t].is # "absent"

\* Bug: one escalation more than the limit.
QueueOverfull == Limit # NoLimit /\ Cardinality(open_escalations) > Limit

QueueFull == Limit # NoLimit /\ Cardinality(open_escalations) >= Limit

-----------------------------------------------------------------------------
submit(t) ==
    /\ ~OnBoard(t)
    /\ Sets(t, Is("Pending"))
    /\ UNCHANGED <<open_escalations, outstanding>>

Assignable(t) == status[t].is \notin {"absent", "Escalated", "Done"}

\* The rule picked an actor; which one does not matter to the board.  A task
\* already assigned or failed may be assigned again.
assign(t) ==
    /\ Assignable(t) /\ ~QueueFull
    /\ outstanding[t] < MaxReports
    /\ Sets(t, Is("Assigned"))
    /\ outstanding' = [outstanding EXCEPT ![t] = @ + 1]
    /\ UNCHANGED open_escalations

Reported(t) ==
    /\ outstanding[t] > 0
    /\ outstanding' = [outstanding EXCEPT ![t] = @ - 1]

\* The attempts of the status before; any status but Failed counts as none.
attempts_so_far(t) == IF status[t].is = "Failed" THEN status[t].attempts ELSE 0

failure(t) ==
    LET attempts == attempts_so_far(t) + 1
    IN  IF status[t].is = "Escalated" THEN UNCHANGED <<status, open_escalations>>
        ELSE IF attempts >= MaxAttempts
        THEN Sets(t, Counted("Escalated", attempts)) /\ open_escalations' = open_escalations \cup {t}
        ELSE Sets(t, Counted("Failed", attempts)) /\ UNCHANGED open_escalations

record_failure(t) == OnBoard(t) /\ Reported(t) /\ failure(t)

\* Bug: success does not look at the queue (the state before TD4.1).
success_leaves_queue(t) == Sets(t, Is("Done")) /\ UNCHANGED open_escalations

success(t) ==
    /\ Sets(t, Is("Done"))
    /\ open_escalations' = IF status[t].is = "Escalated" THEN open_escalations \ {t}
                           ELSE open_escalations

record_success(t) == OnBoard(t) /\ Reported(t) /\ success(t)

resolve_escalation(t) ==
    /\ status[t].is = "Escalated"
    /\ Sets(t, Is("Done"))
    /\ open_escalations' = open_escalations \ {t}
    /\ UNCHANGED outstanding

-----------------------------------------------------------------------------
BoardInit ==
    /\ status = [t \in Task |-> Is("absent")]
    /\ open_escalations = {}
    /\ outstanding = [t \in Task |-> 0]

BoardNext == \E t \in Task : \/ submit(t) \/ assign(t)
                             \/ record_failure(t) \/ record_success(t)
                             \/ resolve_escalation(t)

BoardSpec == BoardInit /\ [][BoardNext]_board

-----------------------------------------------------------------------------
(* Properties *)

\* Every variable stays in its type (dispatcher.rs).
BoardTypeOK ==
    /\ status \in [Task -> Status]
    /\ \A t \in Task : status[t].is = "Failed" => status[t].attempts \in 1..(MaxAttempts - 1)
    /\ open_escalations \subseteq Task
    /\ outstanding \in [Task -> 0..MaxReports]

\* The queue that gates assignment holds the escalated tasks and no ghosts,
\* however late a report comes (TD4.1).
QueueIsEscalated == open_escalations = {t \in Task : status[t].is = "Escalated"}

MayEscalate == {t \in Task : t \in open_escalations \/ outstanding[t] > 0}

EscalationStays ==
    \A t \in Task : status[t].is = "Escalated" => status'[t].is = "Done" \/ status'[t] = status[t]

FullQueueTakesNoMore ==
    Limit # NoLimit /\ Cardinality(open_escalations) >= Limit => MayEscalate' \subseteq MayEscalate

\* An escalated task is the human's until it is done: no report and no
\* assignment takes it back to the actors (section 3.8, TD4.1); and while the
\* human's queue is full it can only be joined by tasks whose actors were
\* already at work: nothing new can come to it (ADR-0015).
QueueIsTheHumans == [][EscalationStays /\ FullQueueTakesNoMore]_board
=============================================================================
