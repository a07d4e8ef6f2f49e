------------------------------ MODULE MCDaemon ------------------------------
(***************************************************************************)
(* What runs beside a daemon, on small instances.  The parts share nothing,   *)
(* so a behaviour is one of                                                   *)
(*   mail       an actor that writes to another, whose channel has one place   *)
(*              (crates/berimor-actors/src/bus.rs, actor.rs);                  *)
(*   board      a dispatcher's board of three tasks, and a human's queue of one; *)
(*   schedules  a table that the daemon ticks (crates/berimor-cli/src/daemon.rs)  *)
(*              and a throttled client as well;                                    *)
(*   instance   an instance that the daemon drives and others want to (run.rs).    *)
(*                                                                         *)
(* The gate of the throttled client is the dispatcher's board, as ADR-0015   *)
(* puts the two together: is_throttled asks whether the human's queue is full. *)
(* Here the task of the board that the gate looks at is escalated by its first *)
(* failure; a schedule recurs and another fires once.                          *)
(***************************************************************************)
EXTENDS ActorMailbox, InstanceLease, Dispatcher, Scheduler

CONSTANTS alice, bob, t1, t2, t3, every, single, runner, daemon

VARIABLE part

ASSUME SchedulesAssumption == SchedulerAssumption

Letter(id, from, to, payload) ==
    [id |-> id, from |-> from, to |-> to, topic |-> "work", payload |-> payload]

Actors     == {alice, bob}
MCActor    == Actors
Letters    == {Letter(1, alice, bob, "x"), Letter(2, alice, bob, "y")}
MCLetters  == Letters
Topics     == {<<alice, "work">>, <<bob, "work">>}
MCAllowed  == Topics
Three      == {t1, t2, t3}
MCThree    == Three
Ids        == {every, single}
MCSchedule == Ids
Given      == {[id |-> every, next |-> 1, interval |-> 2],
               [id |-> single, next |-> 2, interval |-> Once]}
MCRows     == Given
Runners    == {runner}
MCGated    == Runners
Daemons    == {daemon}
MCDaemons  == Daemons

-----------------------------------------------------------------------------
all == <<part, vars, lease_vars, board, throttled, schedules>>

\* What the gate answers is whether the board's queue is full now.
Gate == throttled' = QueueFull'

\* The board of one task that the gate looks at.
Watched == INSTANCE Dispatcher WITH Task <- {t1}, MaxAttempts <- 1, MaxReports <- 2

Mails(A)  == part = "mail" /\ A /\ UNCHANGED <<part, lease_vars, board, throttled, schedules>>
Tasks(A)  == part = "board" /\ A /\ UNCHANGED <<part, vars, lease_vars, throttled, schedules>>
Boards(A) == part = "schedules" /\ A /\ UNCHANGED <<part, vars, lease_vars, schedules>> /\ Gate
Ticks(A)  == part = "schedules" /\ A /\ UNCHANGED <<part, vars, lease_vars, board>> /\ Gate
Drives(A) == part = "instance" /\ A /\ UNCHANGED <<part, vars, board, throttled, schedules>>

DaemonInit ==
    /\ part \in {"mail", "board", "schedules", "instance"}
    /\ Init /\ LeaseInit /\ BoardInit /\ SchedulerInit /\ throttled = QueueFull

DaemonNext == \/ Mails(Next) \/ Tasks(BoardNext) \/ Boards(Watched!BoardNext)
              \/ Ticks(SchedulerNext) \/ Drives(LeaseNext)

\* A process that has begun runs on; the clock runs, tasks are polled by tokio,
\* the host of the actors restarts and thaws what it stopped, the human clears the
\* queue, and a storage error does not last.
DaemonSpec ==
    /\ DaemonInit /\ [][DaemonNext]_all
    /\ \A a \in Actor : WF_all(Mails(run(a))) /\ WF_all(Mails(host(a)))
    /\ \A a \in Actor : WF_all(Mails(\E s \in sending : s.envelope.to = a /\ send(s)))
    /\ WF_all(Mails(unfreeze_all))
    /\ \A p \in Proc : WF_all(Drives(drives(p)))
    /\ WF_all(Ticks(time_passes))
    /\ \A g \in Gated : /\ WF_all(Ticks(polls(g)))
                        /\ SF_all(Ticks(tick_at_gated(g)))
    /\ \A c \in Gated \cup Daemon : WF_all(Ticks(on_fire(c)))
    /\ WF_all(Boards(Watched!resolve_escalation(t1)))

-----------------------------------------------------------------------------
(* Properties of Scheduler under this gate *)

\* A due schedule is run once the human has cleared the queue, and not lost to
\* it (ADR-0015, tick_at_gated).
DueIsRun == part = "schedules" => DueIsStarted
=============================================================================
