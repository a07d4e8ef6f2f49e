--------------------------- MODULE ProcessEngine ---------------------------
(***************************************************************************)
(* One process instance under crates/berimor-process-engine/src/engine.rs: *)
(* the journal and the latest snapshot that storage keeps, the in-memory   *)
(* ProcessInstance of the OS process that drives it, and the caller of the *)
(* engine's public functions.                                              *)
(*                                                                         *)
(* The engine is synchronous, so the steps of a call interleave only with   *)
(* a crash, with storage errors and with the events the executor journals   *)
(* while it runs.  A call is cut where one of those can fall: before and    *)
(* after an append, and between the append and the in-memory patch.         *)
(***************************************************************************)
EXTENDS ProcessGraph

CONSTANTS Inputs,         \* documents a caller may instantiate with
          MaxSteps,       \* limits.max_steps
          MigrateTo,      \* versions a caller may migrate to
          MeterVersions,  \* versions metering.rs stamps on its events
          StorageFaults,  \* TRUE: an append or a snapshot may fail
          CallerRetries,  \* TRUE: a caller keeps the instance after an Err
          MaxCalls        \* bound: calls of the engine's public functions

VARIABLES journal,   \* the instance's events, in seq order
          snapshot,  \* the latest snapshot, or None
          live,      \* the ProcessInstance in memory, or None
          pc,        \* where the call in progress stands
          pend,      \* the executor call in progress, or None
          used,      \* steps_this_run
          result,    \* what the last call returned
          consent,   \* the human answered "yes" to the stop of this instance
          calls      \* calls made so far (bounds the model)

vars == <<journal, snapshot, live, pc, pend, used, result, consent, calls>>

ASSUME ConstantsAssumption ==
    /\ MaxSteps \in Nat /\ MaxCalls \in Nat
    /\ Inputs \subseteq State
    /\ MigrateTo \subseteq Version /\ MeterVersions \subseteq Version
    /\ StorageFaults \in BOOLEAN /\ CallerRetries \in BOOLEAN

Instance == [ver : Version, state : State, current : StepId \cup {None},
             blocked : BOOLEAN]
Pending  == [fork : StepId \cup {None}, step : StepId, val : Value \cup {None},
             from : {"run", "timeout"}, audited : BOOLEAN]
Snap     == [seq : Nat, state : State]

ASSUME InstanceAssumption == None \notin Instance \cup Pending

-----------------------------------------------------------------------------
(* Reading the journal *)

Last(s)  == s[Len(s)]
IsGate(v, id) == has_step(v, id) /\ step_of(v, id).kind = "human_gate"

\* Bug: every Opened counts, answered or not.
opened_ever(events) == \E i \in DOMAIN events : events[i].kind = "HumanGateOpened"

last_gate_unresolved(events) ==
    \E i \in DOMAIN events :
        /\ events[i].kind = "HumanGateOpened"
        /\ \A j \in DOMAIN events : j > i => events[j].kind # "HumanGateResolved"

\* Bug: the search starts at the wrong end of the journal.
first_applied(events) ==
    LET hits == {i \in DOMAIN events : events[i].kind = "StepApplied"}
    IN  IF hits = {} THEN None ELSE events[Least(hits)].step

\* recover searches from the end for a StepApplied; no other event counts.
restored_step(events) ==
    LET back == {k \in 0..(Len(events) - 1) : events[Len(events) - k].kind = "StepApplied"}
    IN  IF back = {} THEN None ELSE events[Len(events) - Least(back)].step

\* Bug: the block lives in memory only (the state before TD1.4).
never_blocked(events) == FALSE

\* recover: only a timeout that is the very last event blocks.
restored_block(events) ==
    /\ Last(events).kind = "HumanGateTimedOut"
    /\ Last(events).policy # "branch"

-----------------------------------------------------------------------------
(* Pieces of the engine's functions *)

\* SqliteEventLog::append is three autocommitted statements: an error can
\* leave the event out of the journal or, past the first one, in it.
Persists(e)     == journal' = Append(journal, e)
PersistFails(e) == StorageFaults /\ journal' \in {journal, Append(journal, e)}

\* Bug: the snapshot is taken of the state before the patch.
write_stale_snapshot(state) == snapshot' = [seq |-> Len(journal), state |-> live.state]

write_snapshot(state) == snapshot' = [seq |-> Len(journal), state |-> state]

\* A call ends with Err; the CLI's callers drop the instance, a caller that
\* retries (as the engine's tests do) keeps it as the call left it.
Errs(inst) ==
    /\ pc' = "out" /\ result' = "error" /\ pend' = None
    /\ live' = IF CallerRetries THEN inst ELSE None
    /\ UNCHANGED <<used, consent, calls>>

Returns(inst, outcome) ==
    /\ pc' = "out" /\ result' = outcome /\ pend' = None /\ live' = inst
    /\ UNCHANGED <<used, calls>>

Call == pc = "out" /\ calls < MaxCalls /\ calls' = calls + 1

-----------------------------------------------------------------------------
(* instantiate, recover, migrate_version *)

instantiate(v, input) ==
    /\ Call /\ live = None
    /\ compile(v)
    /\ input # Scalar => \A p \in Path : p[1] = "parallel" => input[p] = Absent
    /\ journal = <<>>
    /\ LET e == [NewEvent("Instantiated", v) EXCEPT !.input = input]
       IN \/ /\ Persists(e)
             /\ live' = [ver |-> v, state |-> input, current |-> None, blocked |-> FALSE]
             /\ result' = "ok"
          \/ /\ PersistFails(e) /\ live' = None /\ result' = "error"
    /\ UNCHANGED <<snapshot, pc, pend, used, consent>>

recover(v) ==
    /\ Call /\ live = None
    /\ compile(v)
    /\ journal # <<>> /\ Last(journal).ver = v
    /\ live' = [ver |-> v, state |-> fold(journal),
                current |-> restored_step(journal), blocked |-> restored_block(journal)]
    /\ result' = "ok" /\ consent' = FALSE
    /\ UNCHANGED <<journal, snapshot, pc, pend, used>>

\* Bug: the event is stamped with the version the instance leaves.
LeavesUnder(v) == NewEvent("VersionMigrated", live.ver)

StopExists(v)      == live.current = None \/ has_step(v, live.current)
VersionMigrated(v) == NewEvent("VersionMigrated", v)

migrate_version(v) ==
    /\ Call /\ live # None
    /\ compile(v)
    /\ StopExists(v)
    /\ LET e == VersionMigrated(v)
       IN \/ Persists(e) /\ live' = [live EXCEPT !.ver = v] /\ UNCHANGED result
          \/ /\ PersistFails(e) /\ result' = "error"
             /\ live' = IF CallerRetries THEN live ELSE None
    /\ UNCHANGED <<snapshot, pc, pend, used, consent>>

-----------------------------------------------------------------------------
(* run: entry *)

\* Why a caller calls run: after Ok, after the human's "yes", or again after
\* an Err.  Only the second is a consent; run itself cannot tell them apart.
CallsRun ==
    /\ Call /\ live # None
    /\ result \in {"ok", "awaiting"} \cup (IF CallerRetries THEN {"error"} ELSE {})
    /\ consent' = (consent \/ result = "awaiting")

\* Bug: run does not look at the block.
BlockIgnored == FALSE

InstanceBlocked == live.blocked

run_blocked ==
    /\ CallsRun /\ InstanceBlocked
    /\ result' = "error" /\ live' = IF CallerRetries THEN live ELSE None
    /\ UNCHANGED <<journal, snapshot, pc, pend, used>>

run_enters ==
    /\ CallsRun /\ ~InstanceBlocked
    /\ LET closes == IsGate(live.ver, live.current) /\ last_gate_unresolved(journal)
           e == NewEvent("HumanGateResolved", live.ver)
           enters == pc' = "loop" /\ result' = "none" /\ UNCHANGED live
       IN \/ closes /\ Persists(e) /\ enters
          \/ ~closes /\ UNCHANGED journal /\ enters
          \/ /\ closes /\ PersistFails(e) /\ result' = "error" /\ UNCHANGED pc
             /\ live' = IF CallerRetries THEN live ELSE None
    /\ used' = 0
    /\ UNCHANGED <<snapshot, pend>>

-----------------------------------------------------------------------------
(* run: the loop, and execute_single_step *)

AtLoopHead == pc = "loop" /\ live # None
\* Bug: one iteration more than max_steps.
IteratesOnceMore == AtLoopHead /\ used <= MaxSteps

Iterates == AtLoopHead /\ used < MaxSteps

\* max_steps, or the run's own clock.
limit_exceeded ==
    /\ AtLoopHead
    /\ Errs(live)
    /\ UNCHANGED <<journal, snapshot>>

\* Bug: the step declared next is taken, whatever the kind of this one.
chosen_in_order ==
    IF live.current = None THEN next_step(live.ver, None, live.state)
    ELSE first_after(live.ver, position(live.ver, live.current), {})

chosen == next_step(live.ver, live.current, live.state)

run_graph_error ==
    /\ Iterates /\ chosen.go = "error"
    /\ Errs(live)
    /\ UNCHANGED <<journal, snapshot>>

run_finishes ==
    /\ Iterates /\ chosen.go = "finished"
    /\ Returns(live, "finished")
    /\ UNCHANGED <<journal, snapshot, consent>>

\* The step execute_single_step is called with, and by whom: the loop's
\* choice, or the target of an on_timeout branch.
targets ==
    CASE Iterates /\ chosen.go = "single" -> {<<chosen.id, "run">>}
      [] pc = "redirect" -> {<<step_of(live.ver, live.current).to, "timeout">>}
      [] OTHER -> {}

\* Bug: steps_this_run stays where it was.
SpendsNothing(from) == used' = used

Spends(from) == used' = IF from = "run" THEN used + 1 ELSE used

\* execute_single_step returned Ok(None) to its caller.
StepDone(from) ==
    /\ pc' = IF from = "run" THEN "loop" ELSE "out"
    /\ result' = IF from = "run" THEN result ELSE "ok"

control_step(id, from) ==
    /\ step_of(live.ver, id).kind \in {"sequential", "branch", "parallel"}
    /\ live' = [live EXCEPT !.current = id]
    /\ consent' = FALSE
    /\ StepDone(from) /\ Spends(from)
    /\ UNCHANGED <<journal, snapshot, pend, calls>>

checkpoint(id, from) ==
    /\ step_of(live.ver, id).kind = "checkpoint"
    /\ UNCHANGED journal
    /\ \/ /\ write_snapshot(live.state)
          /\ live' = [live EXCEPT !.current = id]
          /\ consent' = FALSE
          /\ StepDone(from) /\ Spends(from)
          /\ UNCHANGED <<pend, calls>>
       \/ StorageFaults /\ Errs(live) /\ UNCHANGED snapshot

\* Opened is written once per unanswered stop; the event carries the gate's
\* reason template, which the model identifies with the gate.
human_gate(id) ==
    /\ step_of(live.ver, id).kind = "human_gate"
    /\ LET inst == [live EXCEPT !.current = id]
           open == last_gate_unresolved(journal)
           e    == [NewEvent("HumanGateOpened", live.ver) EXCEPT !.step = id]
       IN \/ /\ IF open THEN UNCHANGED journal ELSE Persists(e)
             /\ Returns(inst, "awaiting") /\ consent' = FALSE
          \/ ~open /\ PersistFails(e) /\ Errs(inst)
    /\ UNCHANGED snapshot

loop_step(id, from) ==
    /\ step_of(live.ver, id).kind = "loop"
    /\ Errs(live)
    /\ UNCHANGED <<journal, snapshot>>

-----------------------------------------------------------------------------
(* Mutating steps: executor, append, patch, snapshot *)

Executing(fork, id, from) ==
    /\ pc' = "executing"
    /\ pend' = [fork |-> fork, step |-> id, val |-> None, from |-> from, audited |-> FALSE]
    /\ Spends(from)
    /\ UNCHANGED <<journal, snapshot, live, result, consent, calls>>

mutating_step(id, from) ==
    /\ is_mutating_leaf(step_of(live.ver, id).kind)
    /\ Executing(None, id, from)

\* One branch per iteration, the first of those that remain; current stays.
fork_branch ==
    /\ Iterates /\ chosen.go = "fork"
    /\ Executing(live.current, chosen.id, "run")

\* What runs inside the executor journals on its own: run.rs stamps the
\* instance's version, metering.rs stamps its own.  (Bound: once per call.)
executor_journals(ver) ==
    /\ pc = "executing" /\ ~pend.audited
    /\ ver \in MeterVersions \cup {live.ver}
    /\ Persists(NewEvent("Audit", ver))
    /\ pend' = [pend EXCEPT !.audited = TRUE]
    /\ UNCHANGED <<snapshot, live, pc, used, result, consent, calls>>

\* ExecutorError, or a patch for another step (PatchStepIdMismatch).
executor_fails ==
    /\ pc = "executing"
    /\ Errs(live)
    /\ UNCHANGED <<journal, snapshot>>

patch_appended(val) ==
    /\ pc = "executing"
    /\ LET e == [NewEvent(IF pend.fork = None THEN "StepApplied" ELSE "ParallelStepApplied",
                         live.ver) EXCEPT !.fork = pend.fork, !.step = pend.step, !.val = val]
       IN \/ /\ Persists(e) /\ pc' = "apply"
             /\ pend' = [pend EXCEPT !.val = val]
             /\ UNCHANGED <<live, used, result, consent, calls>>
          \/ PersistFails(e) /\ Errs(live)
    /\ UNCHANGED snapshot

\* Bug: a branch's patch goes where a step's patch goes.
patched_flat == apply_patch(live.state, pend.step, pend.val)

patched == IF pend.fork = None
           THEN apply_patch(live.state, pend.step, pend.val)
           ELSE apply_parallel_patch(live.state, pend.fork, pend.step, pend.val)

\* The snapshot is written before current_step moves: if it fails, the state
\* is patched and the step still counts as not taken.
patch_applied ==
    /\ pc = "apply"
    /\ LET inst == [live EXCEPT !.state = patched]
       IN \/ /\ write_snapshot(patched)
             /\ live' = IF pend.fork = None THEN [inst EXCEPT !.current = pend.step] ELSE inst
             /\ consent' = FALSE
             /\ StepDone(pend.from)
             /\ pend' = None
             /\ UNCHANGED <<used, calls>>
          \/ StorageFaults /\ Errs(inst) /\ UNCHANGED snapshot
    /\ UNCHANGED journal

-----------------------------------------------------------------------------
(* resume_after_human_gate_timeout, for the gate the caller is stopped at *)

human_gate_times_out ==
    /\ Call /\ live # None /\ result = "awaiting"
    /\ IsGate(live.ver, live.current)
    /\ LET gate == step_of(live.ver, live.current)
           e    == [NewEvent("HumanGateTimedOut", live.ver) EXCEPT !.policy = gate.policy]
           stop == [live EXCEPT !.blocked = TRUE]
       IN \/ /\ Persists(e)
             /\ \/ /\ gate.policy = "escalate"
                   /\ result' = "ok" /\ live' = stop /\ UNCHANGED pc
                \/ /\ gate.policy = "fail"
                   /\ result' = "error" /\ UNCHANGED pc
                   /\ live' = IF CallerRetries THEN stop ELSE None
                \/ /\ gate.policy = "branch"
                   /\ has_step(live.ver, gate.to) /\ ~IsGate(live.ver, gate.to)
                   /\ pc' = "redirect" /\ result' = "none" /\ UNCHANGED live
                \/ /\ gate.policy = "branch"
                   /\ ~has_step(live.ver, gate.to) \/ IsGate(live.ver, gate.to)
                   /\ result' = "error" /\ UNCHANGED pc
                   /\ live' = IF CallerRetries THEN live ELSE None
          \/ /\ PersistFails(e) /\ result' = "error" /\ UNCHANGED pc
             /\ live' = IF CallerRetries THEN live ELSE None
    /\ UNCHANGED <<snapshot, pend, used, consent>>

\* The OS process ends, in the middle of a call or between two (the human
\* declined, the run finished, or it was killed).
process_ends ==
    /\ live # None
    /\ live' = None /\ pc' = "out" /\ pend' = None /\ result' = "none" /\ consent' = FALSE
    /\ UNCHANGED <<journal, snapshot, used, calls>>

-----------------------------------------------------------------------------
Init ==
    /\ journal = <<>> /\ snapshot = None /\ live = None
    /\ pc = "out" /\ pend = None /\ used = 0
    /\ result = "none" /\ consent = FALSE /\ calls = 0

\* The steps of a call in progress.
EngineStep ==
    \/ limit_exceeded \/ run_graph_error \/ run_finishes
    \/ \E t \in targets :
          \/ control_step(t[1], t[2]) \/ checkpoint(t[1], t[2]) \/ human_gate(t[1])
          \/ loop_step(t[1], t[2]) \/ mutating_step(t[1], t[2])
    \/ fork_branch
    \/ \E ver \in Version : executor_journals(ver)
    \/ executor_fails
    \/ \E val \in Value : patch_appended(val)
    \/ patch_applied

CallerStep ==
    \/ \E v \in Version : \/ \E input \in Inputs : instantiate(v, input)
                          \/ recover(v)
    \/ \E v \in MigrateTo : migrate_version(v)
    \/ run_blocked \/ run_enters
    \/ human_gate_times_out

Next == EngineStep \/ CallerStep \/ process_ends

Spec == Init /\ [][Next]_vars
FairSpec == Spec /\ WF_vars(EngineStep)

-----------------------------------------------------------------------------
(* Properties *)

\* Every variable stays in its type (ProcessInstance of engine.rs, the events
\* of berimor-types).
TypeOK ==
    /\ journal \in Seq(Event)
    /\ snapshot \in Snap \cup {None}
    /\ live \in Instance \cup {None}
    /\ pc \in {"out", "loop", "redirect", "executing", "apply"}
    /\ pend \in Pending \cup {None}
    /\ used \in 0..MaxSteps /\ calls \in 0..MaxCalls
    /\ result \in {"none", "ok", "finished", "awaiting", "error"}
    /\ consent \in BOOLEAN

\* The engine's own property (process-engine.md section 7, invariant I7): but
\* for the moment between an append and its patch, the state in memory is what
\* the loop of state.rs computes out of the journal, event by event.
LiveIsFold == live # None /\ pc # "apply" => live.state = replayed(journal)

\* A snapshot is the fold of the journal up to the seq it is filed under,
\* although it is written after the append, and by checkpoint steps too.
SnapshotIsFold ==
    snapshot # None => snapshot.state = fold(SubSeq(journal, 1, snapshot.seq))

\* A block survives the process (TD1.4): the instance is blocked exactly when
\* a recovery from the journal would block it.
BlockIsDurable == live # None => (live.blocked <=> restored_block(journal))

\* A live instance can always be recovered under its own graph version, and
\* under no other (ADR-0012): the last event carries it.
VersionPinned == live # None => Last(journal).ver = live.ver

\* A live instance stands at a step of the graph it runs.  migrate_version
\* (engine.rs) checks the step it stands at in memory and says why: to go on
\* from a step that does not exist is no recovery but a corrupted state.  A
\* recovery restores another step, the last one the journal has a patch of.
CurrentStepExists ==
    live # None => live.current = None \/ has_step(live.ver, live.current)

\* An instance that waits for the human has that gate's Opened event, and no
\* other, as the open one of the journal: the audit trail names the stop.
AwaitedGateIsOpen ==
    live # None /\ result = "awaiting" =>
        \E i \in DOMAIN journal :
            /\ journal[i].kind = "HumanGateOpened" /\ journal[i].step = live.current
            /\ \A j \in DOMAIN journal :
                  j > i => journal[j].kind \notin {"HumanGateOpened", "HumanGateResolved"}

\* No instance leaves a human gate but by the human's "yes" or by the gate's
\* own on_timeout branch.
GatePassedByAnswer ==
    [][ live # None /\ live' # None /\ live'.current # live.current
            /\ IsGate(live.ver, live.current)
        => \/ consent
           \/ pc = "redirect"
           \/ pend # None /\ pend.from = "timeout" ]_vars

\* max_steps ends every run, also in a graph whose control flow is a cycle.
RunReturns == pc # "out" ~> pc = "out"

\* The step control stands at: where a recovery would put it, the step whose
\* patch is in the journal and not yet in memory, or current_step.
place_of_control ==
    IF live = None THEN restored_step(journal)
    ELSE IF pc = "apply" /\ pend.fork = None THEN pend.step
    ELSE live.current

\* The engine implements the interpreter: every appended patch is one the graph
\* allows where control stands, control passes as the graph says, and a crash,
\* an error or a recovery only puts it back behind the last applied step.
Semantics == INSTANCE ProcessSemantics WITH
    Documents <- Inputs,
    ver <- IF journal = <<>> THEN None ELSE journal[1].ver,
    doc <- fold(journal),
    at  <- restored_step(journal),
    place <- place_of_control
Implements == Semantics!Spec

\* Where control may go from step s, whatever the document holds.
StepsOf(v) == {Process[v][i].id : i \in DOMAIN Process[v]}
Forks(v)   == {f \in StepsOf(v) : step_of(v, f).kind = "parallel"}
leads_to(v, s) ==
    LET step  == step_of(v, s)
        after(ids) == {first_after(v, position(v, s), ids).id}
    IN  CASE step.kind = "branch"   -> {step.cases[c].to : c \in DOMAIN step.cases}
          [] step.kind = "parallel" -> after({step.branches[b] : b \in DOMAIN step.branches})
          [] step.kind = "loop"     -> {}
          [] step.kind = "human_gate" /\ step.policy = "branch" -> after({}) \cup {step.to}
          [] OTHER -> after({})

\* The steps no way from the first step reaches without passing fork f: some
\* set holds the first step, is left through f alone, and does not have them.
Behind ==
    [v \in Version |-> [f \in Forks(v) |->
        {s \in StepsOf(v) : \E S \in SUBSET StepsOf(v) :
            /\ Process[v][1].id \in S /\ s \notin S
            /\ \A a \in S \ {f} : leads_to(v, a) \cap StepsOf(v) \subseteq S}]]

\* The barrier of a parallel step: where control stands behind a fork, in memory
\* or after a recovery, the journal has the patch of every branch of it.
BarrierHolds ==
    journal # <<>> =>
        LET v == journal[1].ver
        IN  \A f \in Forks(v) : place_of_control \in Behind[v][f] =>
               \A b \in DOMAIN step_of(v, f).branches :
                  \E i \in DOMAIN journal :
                     /\ journal[i].kind = "ParallelStepApplied"
                     /\ journal[i].fork = f /\ journal[i].step = step_of(v, f).branches[b]

\* In a graph without cycles no stop, error or recovery makes the engine
\* append the patch of a step, or of a branch, twice.
AppliedOnce ==
    \A i, j \in DOMAIN journal :
        /\ journal[i].kind \in {"StepApplied", "ParallelStepApplied"}
        /\ journal[j].kind = journal[i].kind
        /\ journal[j].fork = journal[i].fork /\ journal[j].step = journal[i].step
        => i = j
=============================================================================
