--------------------------- MODULE InstanceLease ---------------------------
(***************************************************************************)
(* Several OS processes that drive one instance from one journal:          *)
(* crates/berimor-cli/src/run.rs (run) over the flock lease of             *)
(* crates/berimor-process-engine/src/instance_lock.rs.                     *)
(*                                                                         *)
(* The process is a line of steps 1..N, some of them human gates: what a    *)
(* step does to the state is ProcessEngine's business, here only the order  *)
(* of the journal matters.  An action is what one OS process does between   *)
(* two accesses to what it shares with the others: journal and lock file.   *)
(***************************************************************************)
EXTENDS Integers, Sequences, FiniteSets

CONSTANTS Proc,              \* OS processes
          N,                 \* steps of the process
          Gates,             \* those that are human gates
          MaxRuns, MaxKills, \* bounds: runs started, processes killed
          NoProc

ASSUME LeaseAssumption ==
    /\ N \in Nat \ {0} /\ Gates \subseteq 1..N
    /\ MaxRuns \in Nat /\ MaxKills \in Nat
    /\ NoProc \notin Proc

VARIABLES journal,  \* the instance's events
          lease,    \* who holds the lock file of the instance, or NoProc
          stands,       \* [Proc -> where its run stands]
          pos,      \* [Proc -> current_step of its ProcessInstance, 0: none]
          runs, kills

lease_vars == <<journal, lease, stands, pos, runs, kills>>

Happened(kind, step) == [kind |-> kind, step |-> step]
Event == [kind : {"Instantiated", "StepApplied", "HumanGateOpened", "HumanGateResolved"},
          step : 0..N]

\* Bug: the applied steps are counted, as if none could come twice.
counted_step(events) ==
    Cardinality({i \in DOMAIN events : events[i].kind = "StepApplied"})

Least(S) == CHOOSE i \in S : \A j \in S : i <= j

\* recover searches from the end for a StepApplied.
restored_step(events) ==
    LET back == {k \in 0..(Len(events) - 1) : events[Len(events) - k].kind = "StepApplied"}
    IN  IF back = {} THEN 0 ELSE events[Len(events) - Least(back)].step

last_gate_unresolved(events) ==
    \E i \in DOMAIN events :
        /\ events[i].kind = "HumanGateOpened"
        /\ \A j \in DOMAIN events : j > i => events[j].kind # "HumanGateResolved"

GoesTo(p, place) == stands' = [stands EXCEPT ![p] = place]
MovesTo(p, step) == pos' = [pos EXCEPT ![p] = step]

-----------------------------------------------------------------------------
(* run: before the lease *)

Starts(p) == stands[p] = "idle" /\ runs < MaxRuns /\ runs' = runs + 1

\* The identifier is new: no other process knows it before it is journalled.
instantiate(p) ==
    /\ Starts(p) /\ journal = <<>>
    /\ journal' = <<Happened("Instantiated", 0)>>
    /\ MovesTo(p, 0) /\ GoesTo(p, "unleased")
    /\ UNCHANGED <<lease, kills>>

recover(p) ==
    /\ Starts(p) /\ journal # <<>>
    /\ MovesTo(p, restored_step(journal)) /\ GoesTo(p, "unleased")
    /\ UNCHANGED <<journal, lease, kills>>

\* Bug: the lock is taken whoever has it.
acquire_anyway(p) == lease' = p /\ GoesTo(p, "enters")

\* flock without waiting: the second process is refused and ends.
try_acquire_file_lease(p) ==
    \/ lease = NoProc /\ lease' = p /\ GoesTo(p, "enters")
    \/ lease # NoProc /\ UNCHANGED lease /\ GoesTo(p, "idle")

acquires(p) ==
    /\ stands[p] = "unleased"
    /\ try_acquire_file_lease(p)
    /\ UNCHANGED <<journal, pos, runs, kills>>

-----------------------------------------------------------------------------
(* run: under the lease *)

\* Bug: a killed process leaves its lock behind.
LockStays(p) == UNCHANGED lease

\* Dropping the descriptor, also by the death of the process, unlocks.
Unlocks(p) == lease' = IF lease = p THEN NoProc ELSE lease

\* engine::run closes the gate it stands on.
run_enters(p) ==
    /\ stands[p] = "enters"
    /\ journal' = IF pos[p] \in Gates /\ last_gate_unresolved(journal)
                  THEN Append(journal, Happened("HumanGateResolved", 0)) ELSE journal
    /\ GoesTo(p, "loop")
    /\ UNCHANGED <<lease, pos, runs, kills>>

\* Bug: the step declared last ends the run instead of being run.
finishes_early(p) ==
    /\ stands[p] = "loop" /\ pos[p] >= N - 1
    /\ GoesTo(p, "finished")
    /\ UNCHANGED <<journal, lease, pos, runs, kills>>

run_finishes(p) ==
    /\ stands[p] = "loop" /\ pos[p] = N
    /\ GoesTo(p, "finished")
    /\ UNCHANGED <<journal, lease, pos, runs, kills>>

human_gate(p) ==
    /\ stands[p] = "loop" /\ pos[p] + 1 \in Gates
    /\ journal' = IF last_gate_unresolved(journal) THEN journal
                  ELSE Append(journal, Happened("HumanGateOpened", pos[p] + 1))
    /\ MovesTo(p, pos[p] + 1) /\ GoesTo(p, "awaiting")
    /\ UNCHANGED <<lease, runs, kills>>

executes(p) ==
    /\ stands[p] = "loop" /\ pos[p] + 1 \in (1..N) \ Gates
    /\ GoesTo(p, "executing")
    /\ UNCHANGED <<journal, lease, pos, runs, kills>>

step_applied(p) ==
    /\ stands[p] = "executing"
    /\ journal' = Append(journal, Happened("StepApplied", pos[p] + 1))
    /\ MovesTo(p, pos[p] + 1) /\ GoesTo(p, "loop")
    /\ UNCHANGED <<lease, runs, kills>>

\* ask_human said yes: run is called again.
answered(p) ==
    /\ stands[p] = "awaiting"
    /\ GoesTo(p, "enters")
    /\ UNCHANGED <<journal, lease, pos, runs, kills>>

\* HumanDeclined, an executor's error, or Ok after Finished: run returns.
returns(p) ==
    /\ stands[p] \in {"awaiting", "executing", "finished"}
    /\ Unlocks(p) /\ GoesTo(p, "idle") /\ MovesTo(p, 0)
    /\ UNCHANGED <<journal, runs, kills>>

killed(p) ==
    /\ stands[p] # "idle" /\ kills < MaxKills /\ kills' = kills + 1
    /\ Unlocks(p) /\ GoesTo(p, "idle") /\ MovesTo(p, 0)
    /\ UNCHANGED <<journal, runs>>

-----------------------------------------------------------------------------
LeaseInit ==
    /\ journal = <<>> /\ lease = NoProc
    /\ stands = [p \in Proc |-> "idle"] /\ pos = [p \in Proc |-> 0]
    /\ runs = 0 /\ kills = 0

\* What the OS and the human keep going in a run that has begun.
drives(p) ==
    \/ acquires(p) \/ run_enters(p) \/ run_finishes(p) \/ human_gate(p)
    \/ executes(p) \/ step_applied(p) \/ answered(p) \/ returns(p)

LeaseNext == \E p \in Proc : instantiate(p) \/ recover(p) \/ drives(p) \/ killed(p)

LeaseSpec == LeaseInit /\ [][LeaseNext]_lease_vars
FairLeaseSpec == LeaseSpec /\ \A p \in Proc : WF_lease_vars(drives(p))

-----------------------------------------------------------------------------
(* Properties *)

\* Where a process may journal, execute a step or ask the human.
Driving == {"enters", "loop", "executing", "awaiting", "finished"}

\* Every variable stays in its type (run.rs, instance_lock.rs).
TypeOK ==
    /\ journal \in Seq(Event)
    /\ lease \in Proc \cup {NoProc}
    /\ stands \in [Proc -> Driving \cup {"idle", "unleased"}]
    /\ pos \in [Proc -> 0..N]
    /\ runs \in Nat /\ kills \in Nat

\* Two processes never drive the instance at once: no two executors run, no two
\* humans are asked, and between two events of a run no other run journals
\* (instance_lock.rs, audit 1.11).
OneDriver == \A p, q \in Proc : stands[p] \in Driving /\ stands[q] \in Driving => p = q

\* A step is journalled after all the steps before it, although a process may
\* start from a journal that others have extended since (run.rs recovers first
\* and locks second).
NoStepSkipped ==
    \A i \in DOMAIN journal : journal[i].kind = "StepApplied" =>
        \A s \in (1..(journal[i].step - 1)) \ Gates :
            \E j \in 1..(i - 1) : journal[j] = Happened("StepApplied", s)

\* "Finished" is said of an instance whose journal holds every step.
FinishedIsComplete ==
    \A p \in Proc : stands[p] = "finished" =>
        \A s \in (1..N) \ Gates : \E i \in DOMAIN journal :
            journal[i] = Happened("StepApplied", s)

\* No death and no refusal leaves the instance locked (FileInstanceLease: "a
\* lock for ever after a crash is impossible").
LeaseIsFreed == []<>(lease = NoProc)

\* Each process decides on the journal the lease's last holder left: no step is
\* journalled twice (instance_lock.rs: the lease is to be taken before recover).
AppliedOnce ==
    \A i, j \in DOMAIN journal :
        journal[i].kind = "StepApplied" /\ journal[j] = journal[i] => i = j
=============================================================================
