------------------------ MODULE ProcessEngineProofs ------------------------
(***************************************************************************)
(* Proofs about ProcessEngine, for every graph, every set of values and     *)
(* every bound: its types, that memory and journal agree (LiveIsFold,       *)
(* SnapshotIsFold, VersionPinned, BlockIsDurable), that a human gate is     *)
(* passed by an answer only (GatePassedByAnswer), that the journal names    *)
(* the gate an instance waits at (AwaitedGateIsOpen), and that the engine   *)
(* implements ProcessSemantics.  Fold by last writer, in which the proofs   *)
(* reason, is the loop of state.rs (ReplayedIsFold).                        *)
(***************************************************************************)
EXTENDS ProcessEngine, WellFoundedInduction, SequenceTheorems, TLAPS

-----------------------------------------------------------------------------
(* Operators of the graph *)

LEMMA LeastExists ==
    ASSUME NEW S \in SUBSET Nat, S # {}
    PROVE  Least(S) \in S /\ \A j \in S : Least(S) <= j
<1>1. PICK x \in S : \A y \in S : ~(<<y, x>> \in OpToRel(<, Nat))
  BY WFMin, NatLessThanWellFounded
<1>2. OpToRel(<, Nat) = {ss \in Nat \X Nat : ss[1] < ss[2]}
  BY DEF OpToRel
<1>3. ASSUME NEW y \in S PROVE x <= y
  <2>1. x \in Nat /\ y \in Nat /\ <<y, x>> \in Nat \X Nat
    OBVIOUS
  <2>2. ~(y < x)
    BY <1>1, <1>2, <2>1
  <2>3. QED
    BY <2>1, <2>2
<1>4. QED
  BY <1>3 DEF Least

LEMMA StepTyped ==
    ASSUME NEW v \in Version, NEW id, has_step(v, id)
    PROVE  /\ position(v, id) \in DOMAIN Process[v]
           /\ step_of(v, id) \in Step
           /\ step_of(v, id).id = id
<1>1. Process[v] \in Seq(Step)
  BY GraphAssumption
<1>2. position(v, id) \in DOMAIN Process[v] /\ Process[v][position(v, id)].id = id
  BY DEF has_step, position
<1>3. QED
  BY <1>1, <1>2 DEF step_of

LEMMA FirstAfterTyped ==
    ASSUME NEW v \in Version, NEW i \in Nat, NEW ids
    PROVE  first_after(v, i, ids).go = "single" => first_after(v, i, ids).id \in StepId
<1> DEFINE later == {j \in DOMAIN Process[v] : j > i /\ Process[v][j].id \notin ids}
<1>1. Process[v] \in Seq(Step)
  BY GraphAssumption
<1>2. later \in SUBSET Nat
  BY <1>1
<1>3. CASE later = {}
  BY <1>3 DEF first_after, Finished
<1>4. CASE later # {}
  <2>1. Least(later) \in DOMAIN Process[v]
    BY <1>2, <1>4, LeastExists
  <2> HIDE DEF later
  <2>2. Process[v][Least(later)] \in Step
    BY <1>1, <2>1
  <2>3. Process[v][Least(later)].id \in StepId
    BY <2>2 DEF Step
  <2>4. QED
    BY <1>4, <2>3 DEF first_after, Single, later
<1>5. QED
  BY <1>3, <1>4

LEMMA BranchTyped ==
    ASSUME NEW step \in Step, NEW doc
    PROVE  evaluate_branch(step, doc).go = "single" => evaluate_branch(step, doc).id \in StepId
<1> DEFINE val == resolve(step.on, doc)
<1> DEFINE stops == {c \in DOMAIN step.cases :
                        case_fails(step.cases[c], val) \/ case_matches(step.cases[c], val)}
<1>1. step.cases \in Seq(Case)
  BY DEF Step
<1>2. stops \in SUBSET Nat
  BY <1>1
<1>3. CASE val = Absent \/ stops = {}
  BY <1>3 DEF evaluate_branch, GraphError
<1>4. CASE val # Absent /\ stops # {}
  <2>1. Least(stops) \in DOMAIN step.cases
    BY <1>2, <1>4, LeastExists
  <2> HIDE DEF stops
  <2>2. step.cases[Least(stops)] \in Case
    BY <1>1, <2>1
  <2>3. QED
    BY <1>4, <2>2 DEF evaluate_branch, GraphError, Single, Case, stops
<1>5. QED
  BY <1>3, <1>4

LEMMA NextStepTyped ==
    ASSUME NEW v \in Version, compile(v), NEW current \in StepId \cup {None}, NEW doc
    PROVE  next_step(v, current, doc).go \in {"single", "fork"}
              => next_step(v, current, doc).id \in StepId
<1>1. CASE current = None
  <2>1. Process[v][1] \in Step
    BY GraphAssumption DEF compile
  <2>2. QED
    BY <1>1, <2>1 DEF next_step, Single, Step
<1>2. CASE current # None /\ ~has_step(v, current)
  BY <1>2 DEF next_step, GraphError
<1>3. CASE current # None /\ has_step(v, current)
  <2> DEFINE step == step_of(v, current)
  <2> DEFINE here == position(v, current)
  <2> DEFINE left == remaining_branches(step, doc)
  <2>1. step \in Step /\ here \in Nat
    BY <1>3, StepTyped, GraphAssumption
  <2>2. next_step(v, current, doc) =
            CASE step.kind = "branch" -> evaluate_branch(step, doc)
              [] step.kind = "parallel" ->
                    IF left # {} THEN Fork(step.branches[Least(left)])
                    ELSE first_after(v, here, {step.branches[b] : b \in DOMAIN step.branches})
              [] step.kind = "loop" -> GraphError
              [] OTHER -> first_after(v, here, {})
    BY <1>3 DEF next_step
  <2>3. CASE step.kind = "branch"
    <3>1. next_step(v, current, doc) = evaluate_branch(step, doc)
      BY <2>2, <2>3
    <3>2. evaluate_branch(step, doc).go # "fork"
      BY DEF evaluate_branch, GraphError, Single
    <3>3. QED
      BY <2>1, <3>1, <3>2, BranchTyped
  <2>4. CASE step.kind = "parallel"
    <3>1. CASE left # {}
      <4>1. step.branches \in Seq(StepId)
        BY <2>1 DEF Step
      <4>2. left \in SUBSET Nat /\ left \subseteq DOMAIN step.branches
        BY <4>1 DEF remaining_branches
      <4>3. step.branches[Least(left)] \in StepId
        BY <3>1, <4>1, <4>2, LeastExists
      <4>4. QED
        BY <2>2, <2>4, <3>1, <4>3 DEF Fork
    <3>2. CASE left = {}
      <4> DEFINE ids == {step.branches[b] : b \in DOMAIN step.branches}
      <4>1. next_step(v, current, doc) = first_after(v, here, ids)
        BY <2>2, <2>4, <3>2
      <4>2. first_after(v, here, ids).go # "fork"
        BY DEF first_after, Finished, Single
      <4> HIDE DEF ids
      <4>3. QED
        BY <2>1, <4>1, <4>2, FirstAfterTyped
    <3>3. QED
      BY <3>1, <3>2
  <2>5. CASE step.kind = "loop"
    BY <2>2, <2>5 DEF GraphError
  <2>6. CASE step.kind \notin {"branch", "parallel", "loop"}
    <3>1. next_step(v, current, doc) = first_after(v, here, {})
      BY <2>2, <2>6
    <3>2. first_after(v, here, {}).go # "fork"
      BY DEF first_after, Finished, Single
    <3>3. QED
      BY <2>1, <3>1, <3>2, FirstAfterTyped
  <2>7. QED
    BY <2>3, <2>4, <2>5, <2>6
<1>4. QED
  BY <1>1, <1>2, <1>3

-----------------------------------------------------------------------------
(* fold *)

\* What an event of each kind carries.
EventOK(e) ==
    /\ e.kind \in {"StepApplied", "ParallelStepApplied"} => e.val \in Value
    /\ e.kind = "Instantiated" => e.input \in State

JournalOK(events) == \A i \in DOMAIN events : EventOK(events[i])

LEMMA JournalOKAppend ==
    ASSUME NEW events \in Seq(Event), JournalOK(events), NEW e \in Event, EventOK(e)
    PROVE  JournalOK(Append(events, e))
BY DEF JournalOK

LEMMA LastWrittenAppend ==
    ASSUME NEW events \in Seq(Event), NEW e \in Event, NEW p
    PROVE  last_written(Append(events, e), p) =
              IF writes(e, p) THEN {written(e, p)} ELSE last_written(events, p)
<1> DEFINE more == Append(events, e)
<1> DEFINE n == Len(events) + 1
<1> DEFINE lasts(s) == {i \in DOMAIN s : /\ writes(s[i], p)
                                         /\ \A j \in DOMAIN s : j > i => ~writes(s[j], p)}
<1>1. /\ DOMAIN more = 1..n /\ more[n] = e /\ n \in Nat /\ n > 0
      /\ DOMAIN events = 1..(n - 1)
      /\ \A i \in DOMAIN events : more[i] = events[i]
  OBVIOUS
<1> HIDE DEF more, n
<1>2. CASE writes(e, p)
  <2>1. lasts(more) = {n}
    <3>1. n \in lasts(more)
      BY <1>1, <1>2
    <3>2. ASSUME NEW i \in lasts(more) PROVE i = n
      <4>1. i \in 1..n /\ (n > i => ~writes(more[n], p))
        BY <1>1, <3>2
      <4>2. QED
        BY <1>1, <1>2, <4>1
    <3> HIDE DEF lasts
    <3>3. QED
      BY <3>1, <3>2
  <2>2. last_written(more, p) = {written(more[i], p) : i \in lasts(more)}
    BY DEF last_written
  <2>3. last_written(more, p) = {written(e, p)}
    BY <1>1, <2>1, <2>2
  <2>4. QED
    BY <1>2, <2>3 DEF more
<1>3. CASE ~writes(e, p)
  <2>1. lasts(more) = lasts(events)
    BY <1>1, <1>3
  <2>2. /\ last_written(more, p) = {written(more[i], p) : i \in lasts(more)}
        /\ last_written(events, p) = {written(events[i], p) : i \in lasts(events)}
    BY DEF last_written
  <2>3. lasts(events) \subseteq DOMAIN events
    OBVIOUS
  <2> HIDE DEF lasts
  <2>4. last_written(more, p) = last_written(events, p)
    BY <1>1, <2>1, <2>2, <2>3
  <2>5. QED
    BY <1>3, <2>4 DEF more
<1>4. QED
  BY <1>2, <1>3

LEMMA FoldTyped ==
    ASSUME NEW events \in Seq(Event), JournalOK(events)
    PROVE  fold(events) \in Document
<1>1. ASSUME NEW p \in Path, NEW val \in last_written(events, p)
      PROVE  val \in Value \cup {Absent}
  <2>1. PICK i \in DOMAIN events : writes(events[i], p) /\ val = written(events[i], p)
    BY <1>1 DEF last_written
  <2>2. EventOK(events[i])
    BY <2>1 DEF JournalOK
  <2>3. CASE events[i].kind = "Instantiated"
    BY <2>1, <2>2, <2>3 DEF EventOK, writes, written, State, Document
  <2>4. CASE events[i].kind # "Instantiated"
    BY <2>1, <2>2, <2>4 DEF EventOK, writes, written
  <2>5. QED
    BY <2>3, <2>4
<1>2. ASSUME NEW p \in Path
      PROVE  fold(events)[p] \in Value \cup {Absent}
  <2>1. CASE last_written(events, p) = {}
    BY <2>1 DEF fold
  <2>2. CASE last_written(events, p) # {}
    <3>1. (CHOOSE val \in last_written(events, p) : TRUE) \in last_written(events, p)
      BY <2>2
    <3>2. QED
      BY <1>1, <2>2, <3>1 DEF fold
  <2>3. QED
    BY <2>1, <2>2
<1>3. QED
  BY <1>2 DEF fold, Document

\* Appending an event changes exactly the path it writes.
LEMMA FoldAppend ==
    ASSUME NEW events \in Seq(Event), NEW e \in Event
    PROVE  fold(Append(events, e)) =
              [p \in Path |-> IF writes(e, p) THEN written(e, p) ELSE fold(events)[p]]
<1>1. ASSUME NEW p \in Path, writes(e, p)
      PROVE  fold(Append(events, e))[p] = written(e, p)
  <2>1. last_written(Append(events, e), p) = {written(e, p)}
    BY <1>1, LastWrittenAppend
  <2>2. QED
    BY <2>1 DEF fold
<1>2. ASSUME NEW p \in Path, ~writes(e, p)
      PROVE  fold(Append(events, e))[p] = fold(events)[p]
  <2>1. last_written(Append(events, e), p) = last_written(events, p)
    BY <1>2, LastWrittenAppend
  <2>2. QED
    BY <2>1 DEF fold
<1>3. QED
  BY <1>1, <1>2 DEF fold

LEMMA FoldPatch ==
    ASSUME NEW events \in Seq(Event), JournalOK(events), NEW e \in Event
    PROVE  /\ e.kind = "StepApplied" =>
                 fold(Append(events, e)) = apply_patch(fold(events), e.step, e.val)
           /\ e.kind = "ParallelStepApplied" =>
                 fold(Append(events, e)) = apply_parallel_patch(fold(events), e.fork, e.step, e.val)
           /\ e.kind \notin {"StepApplied", "ParallelStepApplied", "Instantiated"} =>
                 fold(Append(events, e)) = fold(events)
<1>1. fold(events) \in Document /\ fold(events) # Scalar
  BY FoldTyped, ScalarAssumption
<1>2. CASE e.kind = "StepApplied"
  <2>1. \A p \in Path : (writes(e, p) <=> p = Top(e.step)) /\ written(e, p) = e.val
    BY <1>2 DEF writes, written
  <2>2. QED
    BY <1>1, <1>2, <2>1, FoldAppend DEF apply_patch, write
<1>3. CASE e.kind = "ParallelStepApplied"
  <2>1. \A p \in Path : (writes(e, p) <=> p = Par(e.fork, e.step)) /\ written(e, p) = e.val
    BY <1>3 DEF writes, written
  <2>2. QED
    BY <1>1, <1>3, <2>1, FoldAppend DEF apply_parallel_patch, write
<1>4. CASE e.kind \notin {"StepApplied", "ParallelStepApplied", "Instantiated"}
  <2>1. \A p \in Path : ~writes(e, p)
    BY <1>4 DEF writes
  <2>2. fold(Append(events, e)) = [p \in Path |-> fold(events)[p]]
    BY <2>1, FoldAppend
  <2>3. QED
    BY <1>1, <1>4, <2>2 DEF Document
<1>5. QED
  BY <1>2, <1>3, <1>4

LEMMA FoldStart ==
    ASSUME NEW e \in Event, e.kind = "Instantiated", e.input \in Document
    PROVE  fold(Append(<<>>, e)) = e.input
<1>1. \A p \in Path : last_written(<<>>, p) = {}
  BY DEF last_written
<1>2. \A p \in Path : fold(<<>>)[p] = Absent
  BY <1>1 DEF fold
<1>3. <<>> \in Seq(Event)
  OBVIOUS
<1>4. fold(Append(<<>>, e)) =
         [p \in Path |-> IF writes(e, p) THEN written(e, p) ELSE fold(<<>>)[p]]
  BY <1>3, FoldAppend
<1>5. \A p \in Path : (IF writes(e, p) THEN written(e, p) ELSE fold(<<>>)[p]) = e.input[p]
  BY <1>2, ScalarAssumption DEF writes, written
<1>6. QED
  BY <1>4, <1>5 DEF Document

-----------------------------------------------------------------------------
(* Types *)

CallOK ==
    /\ JournalOK(journal)
    /\ pc # "out" => live \in Instance /\ compile(live.ver)
    /\ pc \in {"executing", "apply"} => pend \in Pending
    /\ pc = "apply" => pend.val \in Value
    /\ pc = "redirect" => IsGate(live.ver, live.current)
    /\ live # None => compile(live.ver)

TypeInv == TypeOK /\ CallOK

\* An appended event keeps the journal well typed, also when the append fails.
LEMMA AppendTyped ==
    ASSUME TypeInv, NEW e \in Event, EventOK(e), Persists(e) \/ PersistFails(e)
    PROVE  journal' \in Seq(Event) /\ JournalOK(journal')
<1>1. journal \in Seq(Event) /\ JournalOK(journal)
  BY DEF TypeInv, TypeOK, CallOK
<1>2. Append(journal, e) \in Seq(Event) /\ JournalOK(Append(journal, e))
  BY <1>1, JournalOKAppend
<1>3. journal' = journal \/ journal' = Append(journal, e)
  BY DEF Persists, PersistFails
<1>4. QED
  BY <1>1, <1>2, <1>3

LEMMA NewEventTyped ==
    ASSUME NEW kind \in Kind, NEW v \in Version
    PROVE  NewEvent(kind, v) \in Event
BY DEF NewEvent, Event

LEMMA ErrsTyped ==
    ASSUME TypeInv, NEW inst \in Instance, compile(inst.ver), Errs(inst),
           journal' \in Seq(Event), JournalOK(journal'), UNCHANGED snapshot
    PROVE  TypeInv'
BY DEF TypeInv, TypeOK, CallOK, Errs

LEMMA WriteTyped ==
    ASSUME NEW doc \in State, NEW path, NEW val \in Value
    PROVE  write(doc, path, val) \in Document
BY DEF write, State, Document

LEMMA PatchedTyped ==
    ASSUME TypeInv, pc = "apply"
    PROVE  patched \in State
<1>1. live.state \in State /\ pend.val \in Value
  BY DEF TypeInv, TypeOK, CallOK, Instance
<1>2. QED
  BY <1>1, WriteTyped DEF patched, apply_patch, apply_parallel_patch, State

\* The step a single step executes is a step identifier.
LEMMA TargetTyped ==
    ASSUME TypeInv, NEW t \in targets
    PROVE  /\ t[1] \in StepId /\ t[2] \in {"run", "timeout"}
           /\ live \in Instance /\ compile(live.ver)
           /\ pc \in {"loop", "redirect"}
           /\ t[2] = "run" => used < MaxSteps
<1>1. CASE Iterates /\ chosen.go = "single"
  <2>1. t = <<chosen.id, "run">>
    BY <1>1 DEF targets, Iterates, AtLoopHead
  <2>2. live \in Instance /\ compile(live.ver) /\ pc = "loop" /\ used < MaxSteps
    BY <1>1 DEF Iterates, AtLoopHead, TypeInv, TypeOK, CallOK
  <2>3. chosen.id \in StepId
    BY <1>1, <2>2, NextStepTyped DEF chosen, Instance
  <2>4. QED
    BY <2>1, <2>2, <2>3
<1>2. CASE ~(Iterates /\ chosen.go = "single") /\ pc = "redirect"
  <2>1. t = <<step_of(live.ver, live.current).to, "timeout">>
    BY <1>2 DEF targets
  <2>2. live \in Instance /\ compile(live.ver) /\ has_step(live.ver, live.current)
    BY <1>2 DEF TypeInv, TypeOK, CallOK, IsGate
  <2>3. step_of(live.ver, live.current) \in Step
    BY <2>2, StepTyped DEF Instance
  <2>4. QED
    BY <1>2, <2>1, <2>2, <2>3 DEF Step
<1>3. CASE ~(Iterates /\ chosen.go = "single") /\ pc # "redirect"
  BY <1>3 DEF targets
<1>4. QED
  BY <1>1, <1>2, <1>3

LEMMA InitTyped == Init => TypeInv
<1> SUFFICES ASSUME Init PROVE TypeInv
  OBVIOUS
<1>1. JournalOK(<<>>)
  BY DEF JournalOK
<1>2. CallOK
  BY <1>1 DEF Init, CallOK
<1>3. journal \in Seq(Event)
  BY DEF Init
<1>4. TypeOK
  <2>1. used \in 0..MaxSteps /\ calls \in 0..MaxCalls
    BY ConstantsAssumption DEF Init
  <2>2. QED
    BY <1>3, <2>1 DEF Init, TypeOK
<1>5. QED
  BY <1>2, <1>4 DEF TypeInv

\* The calls of the engine's public functions.
LEMMA CallerTyped == TypeInv /\ CallerStep => TypeInv'
<1> SUFFICES ASSUME TypeInv, CallerStep PROVE TypeInv'
  OBVIOUS
<1> USE ConstantsAssumption
<1>1. ASSUME NEW v \in Version, NEW input \in Inputs, instantiate(v, input)
      PROVE  TypeInv'
  <2> DEFINE e == [NewEvent("Instantiated", v) EXCEPT !.input = input]
  <2>1. e \in Event /\ EventOK(e) /\ input \in State
    BY DEF NewEvent, Event, Kind, EventOK
  <2>2. journal' \in Seq(Event) /\ JournalOK(journal')
    BY <1>1, <2>1, AppendTyped DEF instantiate
  <2> HIDE DEF e
  <2>3. live' \in Instance \cup {None}
    <3>1. [ver |-> v, state |-> input, current |-> None, blocked |-> FALSE] \in Instance
      BY <2>1 DEF Instance
    <3>2. QED
      BY <1>1, <3>1 DEF instantiate
  <2>4. TypeOK'
    BY <1>1, <2>2, <2>3 DEF instantiate, Call, TypeInv, TypeOK
  <2>5. CallOK'
    BY <1>1, <2>2 DEF instantiate, Call, TypeInv, CallOK
  <2>6. QED
    BY <2>4, <2>5 DEF TypeInv
<1>2. ASSUME NEW v \in Version, recover(v)
      PROVE  TypeInv'
  <2>1. fold(journal) \in State
    BY FoldTyped DEF TypeInv, TypeOK, CallOK, State
  <2>2. restored_step(journal) \in StepId \cup {None}
    <3> DEFINE back == {k \in 0..(Len(journal) - 1) : journal[Len(journal) - k].kind = "StepApplied"}
    <3>1. CASE back = {}
      BY <3>1 DEF restored_step
    <3>2. CASE back # {}
      <4>1. back \in SUBSET Nat
        OBVIOUS
      <4>2. Least(back) \in 0..(Len(journal) - 1)
        BY <3>2, <4>1, LeastExists
      <4> HIDE DEF back
      <4>3. Len(journal) - Least(back) \in DOMAIN journal
        BY <4>2 DEF TypeInv, TypeOK
      <4>4. journal[Len(journal) - Least(back)] \in Event
        BY <4>3 DEF TypeInv, TypeOK
      <4>5. QED
        BY <3>2, <4>4 DEF restored_step, back, Event
    <3>3. QED
      BY <3>1, <3>2
  <2>3. restored_block(journal) \in BOOLEAN
    BY DEF restored_block
  <2>4. live' \in Instance
    BY <1>2, <2>1, <2>2, <2>3 DEF recover, Instance
  <2>5. TypeOK'
    <3>1. calls' \in 0..MaxCalls
      BY <1>2 DEF recover, Call, TypeInv, TypeOK
    <3>2. QED
      BY <1>2, <2>4, <3>1 DEF recover, TypeInv, TypeOK
  <2>6. CallOK'
    BY <1>2 DEF recover, Call, TypeInv, CallOK
  <2>7. QED
    BY <2>5, <2>6 DEF TypeInv
<1>3. ASSUME NEW v \in MigrateTo, migrate_version(v)
      PROVE  TypeInv'
  <2> DEFINE e == NewEvent("VersionMigrated", v)
  <2>1. e \in Event /\ EventOK(e)
    BY NewEventTyped DEF NewEvent, Kind, EventOK
  <2>2. journal' \in Seq(Event) /\ JournalOK(journal')
    BY <1>3, <2>1, AppendTyped DEF migrate_version, VersionMigrated
  <2> HIDE DEF e
  <2>3. QED
    BY <1>3, <2>2 DEF migrate_version, VersionMigrated, Call, TypeInv, TypeOK, CallOK, Instance
<1>4. ASSUME run_blocked PROVE TypeInv'
  BY <1>4 DEF run_blocked, InstanceBlocked, CallsRun, Call, TypeInv, TypeOK, CallOK
<1>5. ASSUME run_enters PROVE TypeInv'
  <2> DEFINE e == NewEvent("HumanGateResolved", live.ver)
  <2>1. e \in Event /\ EventOK(e)
    BY <1>5, NewEventTyped DEF NewEvent, Kind, EventOK, run_enters, CallsRun, InstanceBlocked, TypeInv, TypeOK, Instance
  <2>2. journal' \in Seq(Event) /\ JournalOK(journal')
    BY <1>5, <2>1, AppendTyped DEF run_enters, TypeInv, TypeOK, CallOK
  <2> HIDE DEF e
  <2>3. QED
    BY <1>5, <2>2 DEF run_enters, CallsRun, InstanceBlocked, Call, TypeInv, TypeOK, CallOK
<1>6. ASSUME human_gate_times_out PROVE TypeInv'
  <2> DEFINE gate == step_of(live.ver, live.current)
  <2> DEFINE e == [NewEvent("HumanGateTimedOut", live.ver) EXCEPT !.policy = gate.policy]
  <2>1. live \in Instance /\ gate \in Step
    BY <1>6, StepTyped DEF human_gate_times_out, IsGate, TypeInv, TypeOK, Instance
  <2>2. e \in Event /\ EventOK(e)
    BY <2>1 DEF NewEvent, Event, Kind, EventOK, Step, Instance
  <2>3. journal' \in Seq(Event) /\ JournalOK(journal')
    BY <1>6, <2>2, AppendTyped DEF human_gate_times_out
  <2> HIDE DEF e
  <2>4. live' \in Instance \cup {None} /\ (live' # None => live'.ver = live.ver)
    BY <1>6, <2>1 DEF human_gate_times_out, Instance
  <2>5. TypeOK'
    BY <1>6, <2>3, <2>4 DEF human_gate_times_out, Call, TypeInv, TypeOK
  <2>6. CallOK'
    BY <1>6, <2>1, <2>3, <2>4 DEF human_gate_times_out, Call, TypeInv, CallOK
  <2>7. QED
    BY <2>5, <2>6 DEF TypeInv
<1>7. QED
  BY <1>1, <1>2, <1>3, <1>4, <1>5, <1>6 DEF CallerStep

\* The steps of a call in progress.
LEMMA EngineTyped == TypeInv /\ EngineStep => TypeInv'
<1> SUFFICES ASSUME TypeInv, EngineStep PROVE TypeInv'
  OBVIOUS
<1> USE ConstantsAssumption
<1>0. journal \in Seq(Event) /\ JournalOK(journal)
  BY DEF TypeInv, TypeOK, CallOK
<1>1. ASSUME limit_exceeded \/ run_graph_error \/ executor_fails
      PROVE  TypeInv'
  <2>1. live \in Instance /\ compile(live.ver) /\ Errs(live) /\ UNCHANGED <<journal, snapshot>>
    BY <1>1 DEF limit_exceeded, run_graph_error, executor_fails, AtLoopHead, Iterates,
                TypeInv, TypeOK, CallOK
  <2>2. QED
    BY <1>0, <2>1, ErrsTyped
<1>2. ASSUME run_finishes PROVE TypeInv'
  BY <1>2 DEF run_finishes, Returns, TypeInv, TypeOK, CallOK
<1>3. ASSUME NEW t \in targets,
             control_step(t[1], t[2]) \/ checkpoint(t[1], t[2]) \/ human_gate(t[1])
                \/ loop_step(t[1], t[2]) \/ mutating_step(t[1], t[2])
      PROVE  TypeInv'
  <2>1. /\ t[1] \in StepId /\ t[2] \in {"run", "timeout"}
        /\ live \in Instance /\ compile(live.ver)
        /\ t[2] = "run" => used < MaxSteps
    BY <1>3, TargetTyped
  <2>2. [live EXCEPT !.current = t[1]] \in Instance
        /\ [live EXCEPT !.current = t[1]].ver = live.ver
    BY <2>1 DEF Instance
  <2>3. ASSUME Spends(t[2]) PROVE used' \in 0..MaxSteps
    BY <2>1, <2>3 DEF Spends, TypeInv, TypeOK
  <2>4. CASE control_step(t[1], t[2])
    <3>1. pc' \in {"loop", "out"} /\ result' \in {result, "ok"}
      BY <2>4 DEF control_step, StepDone
    <3>2. live' \in Instance /\ live'.ver = live.ver /\ used' \in 0..MaxSteps
      BY <2>2, <2>3, <2>4 DEF control_step
    <3>3. QED
      BY <2>1, <2>4, <3>1, <3>2 DEF control_step, TypeInv, TypeOK, CallOK
  <2>5. CASE checkpoint(t[1], t[2])
    <3>1. CASE StorageFaults /\ Errs(live) /\ UNCHANGED snapshot
      BY <1>0, <2>1, <2>5, <3>1, ErrsTyped DEF checkpoint, write_snapshot
    <3>2. CASE ~(StorageFaults /\ Errs(live) /\ UNCHANGED snapshot)
      <4>1. pc' \in {"loop", "out"} /\ result' \in {result, "ok"}
        BY <2>5, <3>2 DEF checkpoint, write_snapshot, StepDone
      <4>2. live' \in Instance /\ live'.ver = live.ver /\ used' \in 0..MaxSteps
        BY <2>2, <2>3, <2>5, <3>2 DEF checkpoint, write_snapshot
      <4>3. snapshot' \in Snap
        BY <1>0, <2>1, <2>5, <3>2 DEF checkpoint, write_snapshot, Snap, Instance
      <4>4. QED
        BY <2>1, <2>5, <3>2, <4>1, <4>2, <4>3 DEF checkpoint, write_snapshot, TypeInv, TypeOK, CallOK
    <3>3. QED
      BY <3>1, <3>2
  <2>6. CASE human_gate(t[1])
    <3> DEFINE e == [NewEvent("HumanGateOpened", live.ver) EXCEPT !.step = t[1]]
    <3> DEFINE inst == [live EXCEPT !.current = t[1]]
    <3>1. e \in Event /\ EventOK(e)
      BY <2>1 DEF NewEvent, Event, Kind, EventOK, Instance
    <3>2. journal' \in Seq(Event) /\ JournalOK(journal')
      BY <1>0, <2>6, <3>1, AppendTyped DEF human_gate
    <3> HIDE DEF e, inst
    <3>3. inst \in Instance /\ inst.ver = live.ver
      BY <2>2 DEF inst
    <3>4. CASE Errs(inst)
      BY <2>1, <2>6, <3>2, <3>3, <3>4, ErrsTyped DEF human_gate
    <3>5. CASE Returns(inst, "awaiting") /\ consent' = FALSE
      BY <2>1, <2>6, <3>2, <3>3, <3>5 DEF human_gate, Returns, TypeInv, TypeOK, CallOK
    <3>6. QED
      BY <2>6, <3>4, <3>5 DEF human_gate, inst
  <2>7. CASE loop_step(t[1], t[2])
    BY <1>0, <2>1, <2>7, ErrsTyped DEF loop_step
  <2>8. CASE mutating_step(t[1], t[2])
    <3>1. pend' \in Pending
      BY <2>1, <2>8 DEF mutating_step, Executing, Pending
    <3>2. used' \in 0..MaxSteps
      BY <2>3, <2>8 DEF mutating_step, Executing
    <3>3. QED
      BY <2>1, <2>8, <3>1, <3>2, NoneAssumption
         DEF mutating_step, Executing, TypeInv, TypeOK, CallOK, Pending
  <2>9. QED
    BY <1>3, <2>4, <2>5, <2>6, <2>7, <2>8
<1>4. ASSUME fork_branch PROVE TypeInv'
  <2>1. live \in Instance /\ compile(live.ver) /\ used < MaxSteps
    BY <1>4 DEF fork_branch, Iterates, AtLoopHead, TypeInv, TypeOK, CallOK
  <2>2. chosen.id \in StepId
    BY <1>4, <2>1, NextStepTyped DEF fork_branch, chosen, Instance
  <2>3. pend' \in Pending
    BY <1>4, <2>1, <2>2 DEF fork_branch, Executing, Pending, Instance
  <2>4. used' \in 0..MaxSteps
    BY <1>4, <2>1 DEF fork_branch, Executing, Spends, TypeInv, TypeOK
  <2>5. QED
    BY <1>4, <2>1, <2>3, <2>4 DEF fork_branch, Executing, TypeInv, TypeOK, CallOK
<1>5. ASSUME NEW ver \in Version, executor_journals(ver)
      PROVE  TypeInv'
  <2>1. NewEvent("Audit", ver) \in Event /\ EventOK(NewEvent("Audit", ver))
    BY NewEventTyped DEF NewEvent, Kind, EventOK
  <2>2. journal' \in Seq(Event) /\ JournalOK(journal')
    BY <1>5, <2>1, AppendTyped DEF executor_journals
  <2>3. pend \in Pending
    BY <1>5 DEF executor_journals, TypeInv, TypeOK, CallOK
  <2>4. pend' \in Pending /\ pc' = "executing"
    BY <1>5, <2>3 DEF executor_journals, Pending
  <2>5. QED
    BY <1>5, <2>2, <2>4 DEF executor_journals, TypeInv, TypeOK, CallOK
<1>6. ASSUME NEW val \in Value, patch_appended(val)
      PROVE  TypeInv'
  <2> DEFINE kind == IF pend.fork = None THEN "StepApplied" ELSE "ParallelStepApplied"
  <2> DEFINE e == [NewEvent(kind, live.ver) EXCEPT !.fork = pend.fork, !.step = pend.step, !.val = val]
  <2>1. live \in Instance /\ compile(live.ver) /\ pend \in Pending
    BY <1>6 DEF patch_appended, TypeInv, TypeOK, CallOK
  <2>2. e \in Event /\ EventOK(e)
    BY <2>1 DEF NewEvent, Event, Kind, EventOK, Instance, Pending
  <2>3. journal' \in Seq(Event) /\ JournalOK(journal')
    BY <1>6, <2>2, AppendTyped DEF patch_appended
  <2>4. CASE Errs(live)
    BY <1>6, <2>1, <2>3, <2>4, ErrsTyped DEF patch_appended
  <2>5. CASE ~Errs(live)
    <3>1. /\ pc' = "apply" /\ pend' = [pend EXCEPT !.val = val]
          /\ UNCHANGED <<snapshot, live, used, result, consent, calls>>
      BY <1>6, <2>5 DEF patch_appended
    <3>2. pend' \in Pending /\ pend'.val = val
      BY <2>1, <3>1 DEF Pending
    <3> HIDE DEF e, kind
    <3>3. TypeOK'
      BY <2>3, <3>1, <3>2 DEF TypeInv, TypeOK
    <3>4. CallOK'
      BY <2>1, <2>3, <3>1, <3>2 DEF TypeInv, CallOK, Pending, TypeOK
    <3>5. QED
      BY <3>3, <3>4 DEF TypeInv
  <2>6. QED
    BY <2>4, <2>5
<1>7. ASSUME patch_applied PROVE TypeInv'
  <2> DEFINE inst == [live EXCEPT !.state = patched]
  <2>1. live \in Instance /\ compile(live.ver) /\ pend \in Pending /\ patched \in State
    BY <1>7, PatchedTyped DEF patch_applied, write_snapshot, TypeInv, TypeOK, CallOK
  <2>2. inst \in Instance /\ inst.ver = live.ver /\ [inst EXCEPT !.current = pend.step] \in Instance
        /\ [inst EXCEPT !.current = pend.step].ver = live.ver
    BY <2>1 DEF Instance, Pending
  <2>3. CASE Errs(inst) /\ UNCHANGED snapshot
    BY <1>0, <1>7, <2>1, <2>2, <2>3, ErrsTyped DEF patch_applied, write_snapshot
  <2>4. CASE ~(Errs(inst) /\ UNCHANGED snapshot)
    <3>1. /\ live' = IF pend.fork = None THEN [inst EXCEPT !.current = pend.step] ELSE inst
          /\ snapshot' = [seq |-> Len(journal), state |-> patched]
          /\ StepDone(pend.from) /\ pend' = None /\ consent' = FALSE
          /\ UNCHANGED <<journal, used, calls>>
      BY <1>7, <2>4 DEF patch_applied, write_snapshot
    <3> HIDE DEF inst
    <3>2. live' \in Instance /\ live'.ver = live.ver
      BY <2>2, <3>1
    <3>3. snapshot' \in Snap
      BY <1>0, <2>1, <3>1 DEF Snap
    <3>4. pc' \in {"loop", "out"} /\ result' \in {result, "ok"}
      BY <3>1 DEF StepDone
    <3>5. QED
      BY <2>1, <3>1, <3>2, <3>3, <3>4 DEF TypeInv, TypeOK, CallOK
  <2>5. QED
    BY <2>3, <2>4
<1>8. QED
  BY <1>1, <1>2, <1>3, <1>4, <1>5, <1>6, <1>7 DEF EngineStep

\* TypeInv is inductive.
LEMMA StepTypedInv == TypeInv /\ [Next]_vars => TypeInv'
<1> SUFFICES ASSUME TypeInv, [Next]_vars PROVE TypeInv'
  OBVIOUS
<1>1. CASE process_ends
  BY <1>1 DEF process_ends, TypeInv, TypeOK, CallOK
<1>2. CASE UNCHANGED vars
  BY <1>2 DEF vars, TypeInv, TypeOK, CallOK
<1>3. QED
  BY <1>1, <1>2, CallerTyped, EngineTyped DEF Next

\* The variables keep their types in every behaviour of the engine, whatever
\* the graph, the faults and the caller (ProcessInstance and Event).
THEOREM TypeCorrect == Spec => []TypeOK
<1>1. TypeInv => TypeOK
  BY DEF TypeInv
<1>2. QED
  BY <1>1, InitTyped, StepTypedInv, PTL DEF Spec

-----------------------------------------------------------------------------
(* Memory, journal and snapshot *)

\* What a recovery would restore, which the engine's patches keep step by step.
LiveFolds == live # None /\ pc # "apply" => live.state = fold(journal)

\* The in-memory patch that is still to come is the one just journalled.
FoldInv ==
    /\ LiveFolds
    /\ SnapshotIsFold /\ (snapshot # None => snapshot.seq <= Len(journal))
    /\ pc = "apply" => fold(journal) = patched

Silent == Kind \ {"Instantiated", "StepApplied", "ParallelStepApplied"}

\* An event that carries no patch leaves the fold alone.
LEMMA SilentAppend ==
    ASSUME TypeInv, NEW e \in Event, e.kind \in Silent, Persists(e)
    PROVE  fold(journal') = fold(journal)
<1>1. journal \in Seq(Event) /\ JournalOK(journal)
  BY DEF TypeInv, TypeOK, CallOK
<1>2. QED
  BY <1>1, FoldPatch DEF Persists, Silent

\* A growing journal keeps the prefix a snapshot was taken of.
LEMMA SnapshotKept ==
    ASSUME TypeInv, FoldInv, UNCHANGED snapshot, NEW e,
           journal' \in {journal, Append(journal, e)}
    PROVE  SnapshotIsFold' /\ (snapshot' # None => snapshot'.seq <= Len(journal'))
<1>1. journal \in Seq(Event)
  BY DEF TypeInv, TypeOK
<1>2. CASE snapshot = None
  BY <1>2 DEF SnapshotIsFold
<1>3. CASE snapshot # None /\ journal' = journal
  BY <1>3 DEF SnapshotIsFold, FoldInv
<1>4. CASE snapshot # None /\ journal' = Append(journal, e)
  <2>1. snapshot.seq \in Nat /\ snapshot.seq <= Len(journal)
    BY <1>4 DEF TypeInv, TypeOK, Snap, FoldInv
  <2>2. SubSeq(journal', 1, snapshot.seq) = SubSeq(journal, 1, snapshot.seq)
    BY <1>1, <1>4, <2>1
  <2>3. Len(journal') = Len(journal) + 1
    BY <1>1, <1>4
  <2>4. snapshot'.state = fold(SubSeq(journal', 1, snapshot'.seq))
    BY <1>4, <2>2 DEF SnapshotIsFold, FoldInv
  <2>5. snapshot'.seq <= Len(journal')
    BY <1>1, <2>1, <2>3
  <2>6. QED
    BY <2>4, <2>5 DEF SnapshotIsFold
<1>5. QED
  BY <1>2, <1>3, <1>4

\* A snapshot written at the end of the journal holds its fold.
LEMMA SnapshotTaken ==
    ASSUME TypeInv, UNCHANGED journal,
           snapshot' = [seq |-> Len(journal), state |-> fold(journal)]
    PROVE  SnapshotIsFold' /\ (snapshot' # None => snapshot'.seq <= Len(journal'))
<1>1. journal \in Seq(Event)
  BY DEF TypeInv, TypeOK
<1>2. SubSeq(journal, 1, Len(journal)) = journal
  BY <1>1
<1>3. snapshot'.state = fold(journal) /\ snapshot'.seq = Len(journal) /\ Len(journal) \in Nat
  BY <1>1
<1>4. snapshot'.state = fold(SubSeq(journal', 1, snapshot'.seq))
  BY <1>2, <1>3
<1>5. QED
  BY <1>3, <1>4 DEF SnapshotIsFold

LEMMA InitFold == Init => FoldInv
BY DEF Init, FoldInv, LiveFolds, SnapshotIsFold

LEMMA CallerFold ==
    ASSUME TypeInv, FoldInv, CallerStep, Inputs \subseteq Document,
           ~(StorageFaults /\ CallerRetries)
    PROVE  FoldInv'
<1>0. journal \in Seq(Event) /\ JournalOK(journal)
  BY DEF TypeInv, TypeOK, CallOK
<1>1. ASSUME NEW v \in Version, NEW input \in Inputs, instantiate(v, input)
      PROVE  FoldInv'
  <2> DEFINE e == [NewEvent("Instantiated", v) EXCEPT !.input = input]
  <2>1. e \in Event /\ e.kind = "Instantiated" /\ e.input = input /\ input \in Document
    BY DEF NewEvent, Event, Kind, State
  <2> HIDE DEF e
  <2>2. fold(Append(<<>>, e)) = input
    BY <2>1, FoldStart
  <2>3. SnapshotIsFold' /\ (snapshot' # None => snapshot'.seq <= Len(journal'))
    BY <1>1, SnapshotKept DEF instantiate, Persists, PersistFails, e
  <2>4. LiveFolds' /\ pc' = "out"
    BY <1>1, <2>2 DEF instantiate, Call, Persists, LiveFolds, e
  <2>5. QED
    BY <2>3, <2>4 DEF FoldInv
<1>2. ASSUME NEW v \in Version, recover(v)
      PROVE  FoldInv'
  BY <1>2 DEF recover, Call, FoldInv, LiveFolds, SnapshotIsFold
<1>3. ASSUME NEW v \in MigrateTo, migrate_version(v)
      PROVE  FoldInv'
  <2> DEFINE e == NewEvent("VersionMigrated", v)
  <2>1. e \in Event /\ e.kind \in Silent
    BY ConstantsAssumption, NewEventTyped DEF NewEvent, Kind, Silent
  <2> HIDE DEF e
  <2>2. SnapshotIsFold' /\ (snapshot' # None => snapshot'.seq <= Len(journal'))
    <3>1. journal' \in {journal, Append(journal, e)} /\ UNCHANGED snapshot
      BY <1>3 DEF migrate_version, VersionMigrated, Persists, PersistFails, e
    <3>2. QED
      BY <3>1, SnapshotKept
  <2>3. live' # None => fold(journal') = fold(journal) /\ live'.state = live.state
    BY <1>3, <2>1, SilentAppend DEF migrate_version, VersionMigrated, PersistFails, e, TypeInv, TypeOK, Instance
  <2>4. QED
    BY <1>3, <2>2, <2>3 DEF migrate_version, VersionMigrated, Call, FoldInv, LiveFolds
<1>4. ASSUME run_blocked PROVE FoldInv'
  BY <1>4 DEF run_blocked, InstanceBlocked, CallsRun, Call, FoldInv, LiveFolds, SnapshotIsFold
<1>5. ASSUME run_enters PROVE FoldInv'
  <2> DEFINE e == NewEvent("HumanGateResolved", live.ver)
  <2>1. e \in Event /\ e.kind \in Silent
    BY <1>5, NewEventTyped DEF NewEvent, Kind, Silent, run_enters, CallsRun, InstanceBlocked, TypeInv, TypeOK, Instance
  <2> HIDE DEF e
  <2>2. SnapshotIsFold' /\ (snapshot' # None => snapshot'.seq <= Len(journal'))
    <3>1. journal' \in {journal, Append(journal, e)} /\ UNCHANGED snapshot
      BY <1>5 DEF run_enters, Persists, PersistFails, e
    <3>2. QED
      BY <3>1, SnapshotKept
  <2>3. live' # None => fold(journal') = fold(journal) /\ live' = live
    BY <1>5, <2>1, SilentAppend DEF run_enters, CallsRun, InstanceBlocked, PersistFails, e
  <2>4. pc' \in {"out", "loop"} /\ pc = "out"
    BY <1>5 DEF run_enters, CallsRun, InstanceBlocked, Call
  <2>5. QED
    BY <2>2, <2>3, <2>4 DEF FoldInv, LiveFolds
<1>6. ASSUME human_gate_times_out PROVE FoldInv'
  <2> DEFINE gate == step_of(live.ver, live.current)
  <2> DEFINE e == [NewEvent("HumanGateTimedOut", live.ver) EXCEPT !.policy = gate.policy]
  <2>1. live \in Instance /\ gate \in Step
    BY <1>6, StepTyped DEF human_gate_times_out, IsGate, TypeInv, TypeOK, Instance
  <2>2. e \in Event /\ e.kind \in Silent
    BY <2>1 DEF NewEvent, Event, Kind, Step, Instance, Silent
  <2> HIDE DEF e
  <2>3. SnapshotIsFold' /\ (snapshot' # None => snapshot'.seq <= Len(journal'))
    BY <1>6, SnapshotKept DEF human_gate_times_out, Persists, PersistFails, e
  <2>4. live' # None => fold(journal') = fold(journal) /\ live'.state = live.state
    BY <1>6, <2>1, <2>2, SilentAppend DEF human_gate_times_out, PersistFails, e, Instance
  <2>5. pc' \in {"out", "redirect"} /\ pc = "out" /\ live # None
    BY <1>6 DEF human_gate_times_out, Call
  <2>6. QED
    BY <2>3, <2>4, <2>5 DEF FoldInv, LiveFolds
<1>7. QED
  BY <1>1, <1>2, <1>3, <1>4, <1>5, <1>6 DEF CallerStep

\* A call that ends with Err drops the instance, or left journal and state alone.
LEMMA ErrsFold ==
    ASSUME TypeInv, FoldInv, NEW inst, Errs(inst), pc # "apply", UNCHANGED snapshot,
           NEW e, journal' \in {journal, Append(journal, e)},
           \/ ~CallerRetries
           \/ journal' = journal /\ (live # None /\ inst.state = live.state)
    PROVE  FoldInv'
<1>1. SnapshotIsFold' /\ (snapshot' # None => snapshot'.seq <= Len(journal'))
  BY SnapshotKept
<1>2. LiveFolds' /\ pc' = "out"
  BY DEF Errs, FoldInv, LiveFolds
<1>3. QED
  BY <1>1, <1>2 DEF FoldInv

LEMMA EngineFold ==
    ASSUME TypeInv, FoldInv, EngineStep, ~(StorageFaults /\ CallerRetries)
    PROVE  FoldInv'
<1>0. journal \in Seq(Event) /\ JournalOK(journal)
  BY DEF TypeInv, TypeOK, CallOK
<1>1. ASSUME limit_exceeded \/ run_graph_error
      PROVE  FoldInv'
  <2>1. Errs(live) /\ pc = "loop" /\ live # None /\ UNCHANGED <<journal, snapshot>>
    BY <1>1 DEF limit_exceeded, run_graph_error, Iterates, AtLoopHead
  <2>2. QED
    BY <2>1, ErrsFold
<1>2. ASSUME run_finishes
      PROVE  FoldInv'
  BY <1>2 DEF run_finishes, Iterates, AtLoopHead, Returns, FoldInv, LiveFolds, SnapshotIsFold
<1>3. ASSUME NEW t \in targets,
             \/ control_step(t[1], t[2]) \/ checkpoint(t[1], t[2]) \/ human_gate(t[1])
             \/ loop_step(t[1], t[2]) \/ mutating_step(t[1], t[2])
      PROVE  FoldInv'
  <2>1. pc \in {"loop", "redirect"} /\ live \in Instance /\ live # None
    BY <1>3, TargetTyped, InstanceAssumption
  <2>2. live.state = fold(journal)
    BY <2>1 DEF FoldInv, LiveFolds
  <2>3. CASE control_step(t[1], t[2])
    BY <2>1, <2>2, <2>3 DEF control_step, StepDone, Instance, FoldInv, LiveFolds, SnapshotIsFold
  <2>4. CASE checkpoint(t[1], t[2])
    <3>1. CASE Errs(live) /\ UNCHANGED snapshot
      BY <2>1, <2>4, <3>1, ErrsFold DEF checkpoint, write_snapshot
    <3>2. CASE ~(Errs(live) /\ UNCHANGED snapshot)
      <4>1. /\ snapshot' = [seq |-> Len(journal), state |-> fold(journal)]
            /\ live' = [live EXCEPT !.current = t[1]] /\ UNCHANGED journal
            /\ StepDone(t[2])
        BY <2>2, <2>4, <3>2 DEF checkpoint, write_snapshot
      <4>2. SnapshotIsFold' /\ (snapshot' # None => snapshot'.seq <= Len(journal'))
        BY <4>1, SnapshotTaken
      <4>3. LiveFolds' /\ pc' # "apply"
        BY <2>1, <2>2, <4>1 DEF LiveFolds, StepDone, Instance
      <4>4. QED
        BY <4>2, <4>3 DEF FoldInv
    <3>3. QED
      BY <3>1, <3>2
  <2>5. CASE human_gate(t[1])
    <3> DEFINE e == [NewEvent("HumanGateOpened", live.ver) EXCEPT !.step = t[1]]
    <3> DEFINE inst == [live EXCEPT !.current = t[1]]
    <3>1. e \in Event /\ e.kind \in Silent
      BY <1>3, <2>1, TargetTyped DEF NewEvent, Event, Kind, Instance, Silent
    <3>2. /\ journal' \in {journal, Append(journal, e)} /\ UNCHANGED snapshot
          /\ \/ (journal' = journal \/ Persists(e)) /\ Returns(inst, "awaiting")
             \/ StorageFaults /\ Errs(inst)
      BY <2>5 DEF human_gate, Persists, PersistFails
    <3>3. inst.state = live.state
      BY <2>1 DEF Instance
    <3> HIDE DEF e, inst
    <3>4. CASE StorageFaults /\ Errs(inst)
      BY <2>1, <3>2, <3>4, ErrsFold
    <3>5. CASE (journal' = journal \/ Persists(e)) /\ Returns(inst, "awaiting")
      <4>1. SnapshotIsFold' /\ (snapshot' # None => snapshot'.seq <= Len(journal'))
        BY <3>2, SnapshotKept
      <4>2. fold(journal') = fold(journal)
        BY <3>1, <3>5, SilentAppend
      <4>3. QED
        BY <2>2, <3>3, <3>5, <4>1, <4>2 DEF Returns, FoldInv, LiveFolds
    <3>6. QED
      BY <3>2, <3>4, <3>5
  <2>6. CASE loop_step(t[1], t[2])
    BY <2>1, <2>6, ErrsFold DEF loop_step
  <2>7. CASE mutating_step(t[1], t[2])
    BY <2>1, <2>2, <2>7 DEF mutating_step, Executing, FoldInv, LiveFolds, SnapshotIsFold
  <2>8. QED
    BY <1>3, <2>3, <2>4, <2>5, <2>6, <2>7
<1>4. ASSUME fork_branch PROVE FoldInv'
  BY <1>4 DEF fork_branch, Iterates, AtLoopHead, Executing, FoldInv, LiveFolds, SnapshotIsFold
<1>5. ASSUME NEW ver \in Version, executor_journals(ver)
      PROVE  FoldInv'
  <2> DEFINE e == NewEvent("Audit", ver)
  <2>1. e \in Event /\ e.kind \in Silent
    BY NewEventTyped DEF NewEvent, Kind, Silent
  <2> HIDE DEF e
  <2>2. Persists(e) /\ UNCHANGED <<snapshot, live, pc>> /\ pc = "executing"
    BY <1>5 DEF executor_journals, e
  <2>3. SnapshotIsFold' /\ (snapshot' # None => snapshot'.seq <= Len(journal'))
    BY <2>2, SnapshotKept DEF Persists
  <2>4. fold(journal') = fold(journal)
    BY <2>1, <2>2, SilentAppend
  <2>5. QED
    BY <2>2, <2>3, <2>4 DEF FoldInv, LiveFolds
<1>6. ASSUME executor_fails
      PROVE  FoldInv'
  <2>1. pc = "executing" /\ live # None /\ Errs(live) /\ UNCHANGED <<journal, snapshot>>
    BY <1>6, InstanceAssumption DEF executor_fails, TypeInv, CallOK
  <2>2. QED
    BY <2>1, ErrsFold
<1>7. ASSUME NEW val \in Value, patch_appended(val)
      PROVE  FoldInv'
  <2> DEFINE kind == IF pend.fork = None THEN "StepApplied" ELSE "ParallelStepApplied"
  <2> DEFINE e == [NewEvent(kind, live.ver) EXCEPT !.fork = pend.fork, !.step = pend.step, !.val = val]
  <2>1. live \in Instance /\ pend \in Pending /\ pc = "executing"
    BY <1>7 DEF patch_appended, TypeInv, TypeOK, CallOK
  <2>2. e \in Event /\ e.kind = kind /\ e.fork = pend.fork /\ e.step = pend.step /\ e.val = val
    BY <2>1 DEF NewEvent, Event, Kind, Instance, Pending
  <2>3. fold(journal) = live.state
    BY <2>1, InstanceAssumption DEF FoldInv, LiveFolds
  <2>4. /\ journal' \in {journal, Append(journal, e)} /\ UNCHANGED snapshot
        /\ \/ Persists(e) /\ pc' = "apply" /\ pend' = [pend EXCEPT !.val = val] /\ UNCHANGED live
           \/ StorageFaults /\ Errs(live)
    BY <1>7 DEF patch_appended, Persists, PersistFails
  <2>5. SnapshotIsFold' /\ (snapshot' # None => snapshot'.seq <= Len(journal'))
    <3> HIDE DEF e
    <3>1. QED
      BY <2>4, SnapshotKept
  <2>6. CASE StorageFaults /\ Errs(live)
    BY <2>5, <2>6 DEF Errs, FoldInv, LiveFolds
  <2>7. CASE Persists(e) /\ pc' = "apply" /\ pend' = [pend EXCEPT !.val = val] /\ UNCHANGED live
    <3>1. patched' = IF pend.fork = None
                     THEN apply_patch(live.state, pend.step, val)
                     ELSE apply_parallel_patch(live.state, pend.fork, pend.step, val)
      BY <2>1, <2>7 DEF patched, Pending
    <3>2. fold(journal') = patched'
      BY <1>0, <2>2, <2>3, <2>7, <3>1, FoldPatch DEF Persists
    <3>3. QED
      BY <2>5, <2>7, <3>2 DEF FoldInv, LiveFolds
  <2>8. QED
    BY <2>4, <2>6, <2>7
<1>8. ASSUME patch_applied PROVE FoldInv'
  <2> DEFINE inst == [live EXCEPT !.state = patched]
  <2>1. live \in Instance /\ pend \in Pending /\ pc = "apply" /\ patched = fold(journal)
    BY <1>8 DEF patch_applied, write_snapshot, FoldInv, TypeInv, TypeOK, CallOK
  <2>2. inst.state = patched /\ [inst EXCEPT !.current = pend.step].state = patched
    BY <2>1 DEF Instance
  <2>3. UNCHANGED journal
    BY <1>8 DEF patch_applied, write_snapshot
  <2>4. CASE Errs(inst) /\ UNCHANGED snapshot
    BY <2>1, <2>2, <2>3, <2>4 DEF Errs, FoldInv, LiveFolds, SnapshotIsFold
  <2>5. CASE ~(Errs(inst) /\ UNCHANGED snapshot)
    <3>1. /\ snapshot' = [seq |-> Len(journal), state |-> fold(journal)]
          /\ live' \in {inst, [inst EXCEPT !.current = pend.step]}
          /\ StepDone(pend.from)
      BY <1>8, <2>1, <2>5 DEF patch_applied, write_snapshot
    <3>2. SnapshotIsFold' /\ (snapshot' # None => snapshot'.seq <= Len(journal'))
      BY <2>3, <3>1, SnapshotTaken
    <3> HIDE DEF inst
    <3>3. QED
      BY <2>1, <2>2, <2>3, <3>1, <3>2 DEF FoldInv, LiveFolds, StepDone
  <2>6. QED
    BY <2>4, <2>5
<1>9. QED
  BY <1>1, <1>2, <1>3, <1>4, <1>5, <1>6, <1>7, <1>8 DEF EngineStep

LEMMA StepFold ==
    ASSUME TypeInv, FoldInv, [Next]_vars, Inputs \subseteq Document,
           ~(StorageFaults /\ CallerRetries)
    PROVE  FoldInv'
<1>1. CASE process_ends
  BY <1>1 DEF process_ends, FoldInv, LiveFolds, SnapshotIsFold
<1>2. CASE UNCHANGED vars
  BY <1>2 DEF vars, FoldInv, LiveFolds, SnapshotIsFold, patched
<1>3. QED
  BY <1>1, <1>2, CallerFold, EngineFold DEF Next

\* A snapshot always holds the fold of the journal's prefix it is filed under,
\* under the same hypotheses (write_snapshot's callers in engine.rs).
THEOREM SnapshotIsPrefix ==
    ASSUME Inputs \subseteq Document, ~(StorageFaults /\ CallerRetries)
    PROVE  Spec => []SnapshotIsFold
<1>1. Init => TypeInv /\ FoldInv
  BY InitTyped, InitFold
<1>2. TypeInv /\ FoldInv /\ [Next]_vars => (TypeInv /\ FoldInv)'
  BY StepTypedInv, StepFold
<1>3. FoldInv => SnapshotIsFold
  BY DEF FoldInv
<1>4. QED
  BY <1>1, <1>2, <1>3, PTL DEF Spec

-----------------------------------------------------------------------------
(* The last event of the journal: its version, and the block *)

LEMMA LastAppended ==
    ASSUME NEW events \in Seq(Event), NEW e
    PROVE  Append(events, e) # <<>> /\ Last(Append(events, e)) = e
BY DEF Last

Stamped == live # None => journal # <<>> /\ Last(journal).ver = live.ver

\* An event stamped with the version the instance keeps.
LEMMA StampAppended ==
    ASSUME TypeInv, NEW e, Persists(e), e.ver = live'.ver
    PROVE  Stamped'
<1>1. journal \in Seq(Event)
  BY DEF TypeInv, TypeOK
<1>2. journal' # <<>> /\ Last(journal') = e
  BY <1>1, LastAppended DEF Persists
<1>3. QED
  BY <1>2 DEF Stamped

LEMMA CallerStamps ==
    ASSUME TypeInv, Stamped, CallerStep, ~(StorageFaults /\ CallerRetries)
    PROVE  Stamped'
<1>1. ASSUME NEW v \in Version, NEW input \in Inputs, instantiate(v, input)
      PROVE  Stamped'
  <2> DEFINE e == [NewEvent("Instantiated", v) EXCEPT !.input = input]
  <2>1. e.ver = v
    BY DEF NewEvent
  <2> HIDE DEF e
  <2>2. \/ Persists(e) /\ live'.ver = v
        \/ live' = None
    BY <1>1 DEF instantiate, e
  <2>3. QED
    BY <2>1, <2>2, StampAppended DEF Stamped
<1>2. ASSUME NEW v \in Version, recover(v)
      PROVE  Stamped'
  BY <1>2 DEF recover, Stamped
<1>3. ASSUME NEW v \in MigrateTo, migrate_version(v)
      PROVE  Stamped'
  <2>1. live \in Instance
    BY <1>3 DEF migrate_version, TypeInv, TypeOK
  <2>2. VersionMigrated(v).ver = v
    BY DEF VersionMigrated, NewEvent
  <2>3. \/ Persists(VersionMigrated(v)) /\ live'.ver = v
        \/ live' = None
    BY <1>3, <2>1 DEF migrate_version, PersistFails, Instance
  <2>4. QED
    BY <2>2, <2>3, StampAppended DEF Stamped
<1>4. CASE run_blocked
  BY <1>4 DEF run_blocked, InstanceBlocked, Stamped
<1>5. CASE run_enters
  <2> DEFINE e == NewEvent("HumanGateResolved", live.ver)
  <2>1. e.ver = live.ver
    BY DEF NewEvent
  <2> HIDE DEF e
  <2>2. \/ (journal' = journal \/ Persists(e)) /\ live' = live
        \/ live' = None
    BY <1>5 DEF run_enters, PersistFails, e
  <2>3. QED
    BY <2>1, <2>2, StampAppended DEF Stamped
<1>6. CASE human_gate_times_out
  <2> DEFINE gate == step_of(live.ver, live.current)
  <2> DEFINE e == [NewEvent("HumanGateTimedOut", live.ver) EXCEPT !.policy = gate.policy]
  <2>1. live \in Instance
    BY <1>6 DEF human_gate_times_out, TypeInv, TypeOK
  <2>2. e.ver = live.ver
    BY DEF NewEvent
  <2> HIDE DEF e
  <2>3. \/ Persists(e) /\ live'.ver = live.ver
        \/ live' = None
    BY <1>6, <2>1 DEF human_gate_times_out, PersistFails, e, Instance
  <2>4. QED
    BY <2>2, <2>3, StampAppended DEF Stamped
<1>7. QED
  BY <1>1, <1>2, <1>3, <1>4, <1>5, <1>6 DEF CallerStep

LEMMA EngineStamps ==
    ASSUME TypeInv, Stamped, EngineStep, ~(StorageFaults /\ CallerRetries),
           MeterVersions = {}
    PROVE  Stamped'
<1>1. CASE limit_exceeded \/ run_graph_error \/ run_finishes \/ executor_fails
  BY <1>1 DEF limit_exceeded, run_graph_error, run_finishes, executor_fails, Errs, Returns, Stamped
<1>2. ASSUME NEW t \in targets,
             \/ control_step(t[1], t[2]) \/ checkpoint(t[1], t[2]) \/ human_gate(t[1])
             \/ loop_step(t[1], t[2]) \/ mutating_step(t[1], t[2])
      PROVE  Stamped'
  <2>1. live \in Instance /\ live # None
    BY <1>2, TargetTyped, InstanceAssumption
  <2>2. CASE human_gate(t[1])
    <3> DEFINE e == [NewEvent("HumanGateOpened", live.ver) EXCEPT !.step = t[1]]
    <3>1. e.ver = live.ver
      BY DEF NewEvent
    <3> HIDE DEF e
    <3>2. \/ (journal' = journal \/ Persists(e)) /\ live'.ver = live.ver
          \/ live' = None
      BY <2>1, <2>2 DEF human_gate, PersistFails, Returns, Errs, e, Instance
    <3>3. QED
      BY <2>1, <3>1, <3>2, StampAppended DEF Stamped
  <2>3. CASE ~human_gate(t[1])
    <3>1. journal' = journal /\ (live' = None \/ live'.ver = live.ver)
      BY <1>2, <2>1, <2>3 DEF control_step, checkpoint, loop_step, mutating_step, Executing,
                              write_snapshot, Errs, Instance
    <3>2. QED
      BY <2>1, <3>1 DEF Stamped
  <2>4. QED
    BY <2>2, <2>3
<1>3. CASE fork_branch
  BY <1>3 DEF fork_branch, Executing, Stamped
<1>4. ASSUME NEW ver \in Version, executor_journals(ver)
      PROVE  Stamped'
  <2>1. NewEvent("Audit", ver).ver = live'.ver /\ Persists(NewEvent("Audit", ver))
    BY <1>4 DEF executor_journals, NewEvent
  <2>2. QED
    BY <2>1, StampAppended
<1>5. ASSUME NEW val \in Value, patch_appended(val)
      PROVE  Stamped'
  <2> DEFINE kind == IF pend.fork = None THEN "StepApplied" ELSE "ParallelStepApplied"
  <2> DEFINE e == [NewEvent(kind, live.ver) EXCEPT !.fork = pend.fork, !.step = pend.step, !.val = val]
  <2>1. e.ver = live.ver
    BY DEF NewEvent
  <2> HIDE DEF kind, e
  <2>2. \/ Persists(e) /\ live' = live
        \/ live' = None
    BY <1>5 DEF patch_appended, PersistFails, Errs, kind, e
  <2>3. QED
    BY <2>1, <2>2, StampAppended DEF Stamped
<1>6. CASE patch_applied
  <2>1. live \in Instance
    BY <1>6 DEF patch_applied, TypeInv, CallOK
  <2>2. journal' = journal /\ (live' = None \/ live'.ver = live.ver)
    BY <1>6, <2>1 DEF patch_applied, write_snapshot, Errs, Instance
  <2>3. QED
    BY <2>1, <2>2, InstanceAssumption DEF Stamped
<1>7. QED
  BY <1>1, <1>2, <1>3, <1>4, <1>5, <1>6 DEF EngineStep

\* A live instance can be recovered under its own version and under no other
\* (ADR-0012), unless metering.rs stamps its events with another version (the
\* divergence the run engine_meter shows) or a caller goes on after a storage
\* error.
THEOREM VersionIsPinned ==
    ASSUME MeterVersions = {}, ~(StorageFaults /\ CallerRetries)
    PROVE  Spec => []VersionPinned
<1>1. Init => TypeInv /\ Stamped
  BY InitTyped DEF Init, Stamped
<1>2. TypeInv /\ Stamped /\ [Next]_vars => (TypeInv /\ Stamped)'
  <2> SUFFICES ASSUME TypeInv, Stamped, [Next]_vars PROVE Stamped'
    BY StepTypedInv
  <2>1. CASE process_ends \/ UNCHANGED vars
    BY <2>1 DEF process_ends, vars, Stamped
  <2>2. QED
    BY <2>1, CallerStamps, EngineStamps DEF Next
<1>3. Stamped => VersionPinned
  BY DEF Stamped, VersionPinned
<1>4. QED
  BY <1>1, <1>2, <1>3, PTL DEF Spec

\* The block in memory is the one the last event stands for, and a call in
\* progress, or a wait for the human, is that of an instance that is not blocked.
BlockInv ==
    live # None => /\ live.blocked <=> restored_block(journal)
                   /\ live.blocked => pc = "out" /\ result # "awaiting"

\* That event may have been appended, and no other.
Added(e) == journal' = journal \/ journal' = Append(journal, e)

LEMMA OpenAppended ==
    ASSUME TypeInv, NEW e, Persists(e)
    PROVE  restored_block(journal') <=> e.kind = "HumanGateTimedOut" /\ e.policy # "branch"
<1>1. journal \in Seq(Event)
  BY DEF TypeInv, TypeOK
<1>2. Last(journal') = e
  BY <1>1, LastAppended DEF Persists
<1>3. QED
  BY <1>2 DEF restored_block

\* An instance that is not blocked, and is not by what is appended either.
LEMMA StaysOpen ==
    ASSUME TypeInv, BlockInv, live # None, ~live.blocked,
           NEW e, Added(e), e.kind # "HumanGateTimedOut", live' = None \/ ~live'.blocked
    PROVE  BlockInv'
<1>1. ~restored_block(journal)
  BY DEF BlockInv
<1>2. ~restored_block(journal')
  BY <1>1, OpenAppended DEF Added, Persists
<1>3. QED
  BY <1>2 DEF BlockInv

LEMMA CallerBlocks ==
    ASSUME TypeInv, BlockInv, CallerStep, ~(StorageFaults /\ CallerRetries), MigrateTo = {}
    PROVE  BlockInv'
<1>1. ASSUME NEW v \in Version, NEW input \in Inputs, instantiate(v, input)
      PROVE  BlockInv'
  <2> DEFINE e == [NewEvent("Instantiated", v) EXCEPT !.input = input]
  <2>1. e.kind = "Instantiated"
    BY DEF NewEvent
  <2> HIDE DEF e
  <2>2. \/ Persists(e) /\ live'.blocked = FALSE
        \/ live' = None
    BY <1>1 DEF instantiate, e
  <2>3. QED
    BY <2>1, <2>2, OpenAppended DEF BlockInv
<1>2. ASSUME NEW v \in Version, recover(v)
      PROVE  BlockInv'
  BY <1>2 DEF recover, Call, BlockInv
<1>3. CASE run_blocked
  BY <1>3 DEF run_blocked, CallsRun, Call, BlockInv
<1>4. CASE run_enters
  <2> DEFINE e == NewEvent("HumanGateResolved", live.ver)
  <2>1. e.kind = "HumanGateResolved"
    BY DEF NewEvent
  <2> HIDE DEF e
  <2>2. live # None /\ ~live.blocked /\ Added(e) /\ (live' = None \/ live' = live)
    BY <1>4 DEF run_enters, CallsRun, InstanceBlocked, PersistFails, Persists, Added, e
  <2>3. QED
    BY <2>1, <2>2, StaysOpen
<1>5. CASE human_gate_times_out
  <2> DEFINE gate == step_of(live.ver, live.current)
  <2> DEFINE e == [NewEvent("HumanGateTimedOut", live.ver) EXCEPT !.policy = gate.policy]
  <2>1. live \in Instance /\ live # None /\ ~live.blocked /\ pc = "out"
    BY <1>5 DEF human_gate_times_out, Call, BlockInv, TypeInv, TypeOK
  <2>2. e.kind = "HumanGateTimedOut" /\ e.policy = gate.policy
    BY DEF NewEvent
  <2> HIDE DEF e, gate
  <2>3. live' # None => Persists(e)
    BY <1>5 DEF human_gate_times_out, PersistFails, e, gate
  <2>4. \/ live' = None
        \/ live'.blocked = TRUE /\ gate.policy # "branch" /\ pc' = "out" /\ result' # "awaiting"
        \/ live'.blocked = FALSE /\ gate.policy = "branch"
    BY <1>5, <2>1 DEF human_gate_times_out, PersistFails, gate, Instance
  <2>5. QED
    BY <2>2, <2>3, <2>4, OpenAppended DEF BlockInv
<1>6. QED
  BY <1>1, <1>2, <1>3, <1>4, <1>5 DEF CallerStep

LEMMA EngineBlocks ==
    ASSUME TypeInv, BlockInv, EngineStep
    PROVE  BlockInv'
<1>1. ASSUME pc # "out" PROVE live \in Instance /\ live # None /\ live.blocked = FALSE
  BY <1>1, InstanceAssumption DEF TypeInv, CallOK, BlockInv, Instance
<1>2. ASSUME NEW e, e.kind # "HumanGateTimedOut", Added(e), pc # "out",
             live' = None \/ live'.blocked = FALSE
      PROVE  BlockInv'
  BY <1>1, <1>2, StaysOpen
<1>3. NewEvent("Audit", live.ver).kind # "HumanGateTimedOut"
  BY DEF NewEvent
<1>4. CASE limit_exceeded \/ run_graph_error \/ run_finishes \/ executor_fails
  <2>1. journal' = journal /\ pc # "out" /\ (live' = None \/ live' = live)
    BY <1>4 DEF limit_exceeded, run_graph_error, run_finishes, executor_fails, Iterates,
                AtLoopHead, Errs, Returns
  <2>2. QED
    BY <1>1, <1>2, <1>3, <2>1 DEF Added
<1>5. ASSUME NEW t \in targets,
             \/ control_step(t[1], t[2]) \/ checkpoint(t[1], t[2]) \/ human_gate(t[1])
             \/ loop_step(t[1], t[2]) \/ mutating_step(t[1], t[2])
      PROVE  BlockInv'
  <2>1. pc # "out"
    BY <1>5, TargetTyped
  <2>2. CASE human_gate(t[1])
    <3> DEFINE e == [NewEvent("HumanGateOpened", live.ver) EXCEPT !.step = t[1]]
    <3>1. e.kind = "HumanGateOpened"
      BY DEF NewEvent
    <3> HIDE DEF e
    <3>2. Added(e) /\ (live' = None \/ live' = [live EXCEPT !.current = t[1]])
      BY <2>2 DEF human_gate, PersistFails, Persists, Returns, Errs, Added, e
    <3>3. QED
      BY <1>1, <1>2, <2>1, <3>1, <3>2 DEF Instance
  <2>3. CASE ~human_gate(t[1])
    <3>1. journal' = journal
          /\ (live' = None \/ live' = live \/ live' = [live EXCEPT !.current = t[1]])
      BY <1>5, <2>3 DEF control_step, checkpoint, loop_step, mutating_step, Executing, Errs
    <3>2. QED
      BY <1>1, <1>2, <1>3, <2>1, <3>1 DEF Added, Instance
  <2>4. QED
    BY <2>2, <2>3
<1>6. CASE fork_branch
  <2>1. journal' = journal /\ pc # "out" /\ live' = live
    BY <1>6 DEF fork_branch, Iterates, AtLoopHead, Executing
  <2>2. QED
    BY <1>1, <1>2, <1>3, <2>1 DEF Added
<1>7. ASSUME NEW ver \in Version, executor_journals(ver)
      PROVE  BlockInv'
  <2>1. pc # "out" /\ live' = live /\ Added(NewEvent("Audit", ver))
    BY <1>7 DEF executor_journals, Persists, Added
  <2>2. NewEvent("Audit", ver).kind # "HumanGateTimedOut"
    BY DEF NewEvent
  <2>3. QED
    BY <1>1, <1>2, <2>1, <2>2
<1>8. ASSUME NEW val \in Value, patch_appended(val)
      PROVE  BlockInv'
  <2> DEFINE kind == IF pend.fork = None THEN "StepApplied" ELSE "ParallelStepApplied"
  <2> DEFINE e == [NewEvent(kind, live.ver) EXCEPT !.fork = pend.fork, !.step = pend.step, !.val = val]
  <2>1. e.kind # "HumanGateTimedOut"
    BY DEF NewEvent
  <2> HIDE DEF kind, e
  <2>2. pc # "out" /\ Added(e) /\ (live' = live \/ live' = None)
    BY <1>8 DEF patch_appended, Persists, PersistFails, Errs, Added, kind, e
  <2>3. QED
    BY <1>1, <1>2, <2>1, <2>2
<1>9. CASE patch_applied
  <2>1. pc # "out" /\ journal' = journal
    BY <1>9 DEF patch_applied
  <2>2. live' = None \/ live'.blocked = FALSE
    BY <1>1, <1>9, <2>1 DEF patch_applied, Errs, Instance
  <2>3. QED
    BY <1>2, <1>3, <2>1, <2>2 DEF Added
<1>10. QED
  BY <1>4, <1>5, <1>6, <1>7, <1>8, <1>9 DEF EngineStep

\* An instance is blocked exactly when a recovery from its journal would block
\* it (TD1.4), whatever the graph and wherever the process dies, while nobody
\* migrates a blocked instance or goes on after a storage error (README,
\* "Known divergences").
THEOREM BlockSurvives ==
    ASSUME MigrateTo = {}, ~(StorageFaults /\ CallerRetries)
    PROVE  Spec => []BlockIsDurable
<1>1. Init => TypeInv /\ BlockInv
  BY InitTyped DEF Init, BlockInv
<1>2. TypeInv /\ BlockInv /\ [Next]_vars => (TypeInv /\ BlockInv)'
  <2> SUFFICES ASSUME TypeInv, BlockInv, [Next]_vars PROVE BlockInv'
    BY StepTypedInv
  <2>1. CASE process_ends \/ UNCHANGED vars
    BY <2>1 DEF process_ends, vars, BlockInv
  <2>2. QED
    BY <2>1, CallerBlocks, EngineBlocks DEF Next
<1>3. BlockInv => BlockIsDurable
  BY DEF BlockInv, BlockIsDurable
<1>4. QED
  BY <1>1, <1>2, <1>3, PTL DEF Spec

-----------------------------------------------------------------------------
(* The human gate *)

NoGate(id) == \A v \in Version : ~IsGate(v, id)

\* A step that is a gate in one version is a gate in each that has it.
GatesStayGates ==
    \A v, w \in Version : \A id \in StepId : IsGate(v, id) /\ has_step(w, id) => IsGate(w, id)

LEMMA PlainStep ==
    ASSUME GatesStayGates, NEW v \in Version, NEW id \in StepId,
           has_step(v, id), step_of(v, id).kind # "human_gate"
    PROVE  NoGate(id)
BY DEF GatesStayGates, NoGate, IsGate

LEMMA NoneIsNoGate == NoGate(None)
<1>1. ASSUME NEW v \in Version, NEW i \in DOMAIN Process[v] PROVE Process[v][i].id # None
  <2>1. Process[v][i] \in Step
    BY GraphAssumption
  <2>2. QED
    BY <2>1, NoneAssumption DEF Step
<1>2. QED
  BY <1>1 DEF NoGate, IsGate, has_step

\* The step the graph names next is one of the graph.
LEMMA SingleExists ==
    ASSUME NEW v \in Version, compile(v), NEW current \in StepId \cup {None}, NEW doc,
           next_step(v, current, doc).go = "single"
    PROVE  has_step(v, next_step(v, current, doc).id)
<1> DEFINE next == next_step(v, current, doc)
<1>0. Process[v] \in Seq(Step)
  BY GraphAssumption
<1>1. ASSUME NEW i \in Nat, NEW ids, next = first_after(v, i, ids)
      PROVE  has_step(v, next.id)
  <2> DEFINE later == {j \in DOMAIN Process[v] : j > i /\ Process[v][j].id \notin ids}
  <2>1. later # {}
    BY <1>1 DEF first_after, Finished
  <2>2. later \in SUBSET Nat
    BY <1>0
  <2>3. Least(later) \in DOMAIN Process[v]
    BY <2>1, <2>2, LeastExists
  <2> HIDE DEF later, next
  <2>4. next = Single(Process[v][Least(later)].id)
    BY <1>1, <2>1 DEF first_after, later
  <2>5. QED
    BY <2>3, <2>4 DEF Single, has_step
<1>2. CASE current = None
  <2>1. 1 \in DOMAIN Process[v]
    BY <1>0 DEF compile
  <2>2. next = Single(Process[v][1].id)
    BY <1>2 DEF next_step
  <2>3. QED
    BY <2>1, <2>2 DEF Single, has_step
<1>3. CASE current # None /\ ~has_step(v, current)
  BY <1>3 DEF next_step, GraphError
<1>4. CASE current # None /\ has_step(v, current)
  <2> DEFINE step == step_of(v, current)
  <2> DEFINE here == position(v, current)
  <2> DEFINE left == remaining_branches(step, doc)
  <2>1. here \in DOMAIN Process[v] /\ step = Process[v][here] /\ step \in Step /\ here \in Nat
    BY <1>0, <1>4, StepTyped DEF step_of
  <2>2. next =
            CASE step.kind = "branch" -> evaluate_branch(step, doc)
              [] step.kind = "parallel" ->
                    IF left # {} THEN Fork(step.branches[Least(left)])
                    ELSE first_after(v, here, {step.branches[b] : b \in DOMAIN step.branches})
              [] step.kind = "loop" -> GraphError
              [] OTHER -> first_after(v, here, {})
    BY <1>4 DEF next_step
  <2>3. CASE step.kind = "branch"
    <3> DEFINE val == resolve(step.on, doc)
    <3> DEFINE stops == {c \in DOMAIN step.cases :
                            case_fails(step.cases[c], val) \/ case_matches(step.cases[c], val)}
    <3>1. next = evaluate_branch(step, doc)
      BY <2>2, <2>3
    <3>2. stops # {} /\ next = Single(step.cases[Least(stops)].to)
      BY <3>1 DEF evaluate_branch, GraphError
    <3>3. stops \in SUBSET Nat
      BY <2>1 DEF Step
    <3>4. Least(stops) \in DOMAIN step.cases
      BY <3>2, <3>3, LeastExists
    <3>5. \A c \in DOMAIN step.cases : has_step(v, step.cases[c].to)
      BY <2>1, <2>3 DEF compile
    <3> HIDE DEF stops, step
    <3>6. QED
      BY <3>2, <3>4, <3>5 DEF Single
  <2>4. CASE step.kind = "parallel"
    <3>1. left = {}
      BY <2>2, <2>4 DEF Fork
    <3>2. next = first_after(v, here, {step.branches[b] : b \in DOMAIN step.branches})
      BY <2>2, <2>4, <3>1
    <3>3. QED
      BY <1>1, <2>1, <3>2
  <2>5. CASE step.kind = "loop"
    BY <2>2, <2>5 DEF GraphError
  <2>6. CASE step.kind \notin {"branch", "parallel", "loop"}
    <3>1. next = first_after(v, here, {})
      BY <2>2, <2>6
    <3>2. QED
      BY <1>1, <2>1, <3>1
  <2>7. QED
    BY <2>3, <2>4, <2>5, <2>6
<1>5. QED
  BY <1>2, <1>3, <1>4

LEMMA TargetExists ==
    ASSUME TypeInv, NEW t \in targets,
           pc = "redirect" => has_step(live.ver, step_of(live.ver, live.current).to)
    PROVE  has_step(live.ver, t[1])
<1>1. CASE Iterates /\ chosen.go = "single"
  <2>1. t[1] = chosen.id
    BY <1>1 DEF targets, Iterates, AtLoopHead
  <2>2. live \in Instance /\ compile(live.ver)
    BY <1>1 DEF Iterates, AtLoopHead, TypeInv, CallOK
  <2>3. has_step(live.ver, chosen.id)
    BY <1>1, <2>2, SingleExists DEF chosen, Instance
  <2>4. QED
    BY <2>1, <2>3
<1>2. CASE ~(Iterates /\ chosen.go = "single") /\ pc = "redirect"
  BY <1>2 DEF targets
<1>3. CASE ~(Iterates /\ chosen.go = "single") /\ pc # "redirect"
  BY <1>3 DEF targets
<1>4. QED
  BY <1>1, <1>2, <1>3

StepsArePlain ==
    \A i \in DOMAIN journal : journal[i].kind = "StepApplied" => NoGate(journal[i].step)

\* A run that stands at a gate has the human's consent; what a recovery can
\* restore, and what a call in progress will make the current step, is no gate.
GateInv ==
    /\ StepsArePlain
    /\ live # None /\ pc = "out" /\ result = "ok" /\ ~live.blocked => NoGate(live.current)
    /\ pc = "loop" => NoGate(live.current) \/ consent
    /\ pc = "redirect" => has_step(live.ver, step_of(live.ver, live.current).to)
    /\ pc \in {"executing", "apply"} =>
          /\ pend.fork = None => NoGate(pend.step)
          /\ pend.fork # None => pend.from = "run" /\ NoGate(live.current)
          /\ pend.from = "run" => NoGate(live.current) \/ consent

LEMMA PlainAppended ==
    ASSUME TypeInv, StepsArePlain, NEW e, Added(e), e.kind = "StepApplied" => NoGate(e.step)
    PROVE  StepsArePlain'
<1>1. journal \in Seq(Event)
  BY DEF TypeInv, TypeOK
<1>2. CASE journal' = journal
  BY <1>2 DEF StepsArePlain, NoGate, IsGate
<1>3. CASE journal' = Append(journal, e)
  <2>1. ASSUME NEW i \in DOMAIN journal', journal'[i].kind = "StepApplied"
        PROVE  NoGate(journal'[i].step)
    <3>1. CASE i = Len(journal) + 1
      <4>1. journal'[i] = e
        BY <1>1, <1>3, <3>1
      <4>2. QED
        BY <2>1, <4>1
    <3>2. CASE i # Len(journal) + 1
      <4>1. i \in DOMAIN journal /\ journal'[i] = journal[i]
        BY <1>1, <1>3, <2>1, <3>2
      <4>2. QED
        BY <2>1, <4>1 DEF StepsArePlain
    <3>3. QED
      BY <3>1, <3>2
  <2>2. QED
    BY <2>1 DEF StepsArePlain
<1>4. QED
  BY <1>2, <1>3 DEF Added

LEMMA RestoredIsPlain ==
    ASSUME TypeInv, StepsArePlain
    PROVE  NoGate(restored_step(journal))
<1> DEFINE back == {k \in 0..(Len(journal) - 1) : journal[Len(journal) - k].kind = "StepApplied"}
<1>1. CASE back = {}
  BY <1>1, NoneIsNoGate DEF restored_step
<1>2. CASE back # {}
  <2>1. back \in SUBSET Nat
    OBVIOUS
  <2>2. Least(back) \in back
    BY <1>2, <2>1, LeastExists
  <2>3. Least(back) \in 0..(Len(journal) - 1)
        /\ journal[Len(journal) - Least(back)].kind = "StepApplied"
    BY <2>2
  <2>4. restored_step(journal) = journal[Len(journal) - Least(back)].step
    BY <1>2 DEF restored_step
  <2> HIDE DEF back
  <2>5. Len(journal) - Least(back) \in DOMAIN journal
    BY <2>3 DEF TypeInv, TypeOK
  <2>6. QED
    BY <2>3, <2>4, <2>5 DEF StepsArePlain
<1>3. QED
  BY <1>1, <1>2

\* A call that ends without an instance leaves only the journal to look at.
LEMMA Dropped ==
    ASSUME StepsArePlain', live' = None, pc' = "out"
    PROVE  GateInv'
BY DEF GateInv

LEMMA CallerGates ==
    ASSUME TypeInv, GateInv, CallerStep, ~CallerRetries
    PROVE  GateInv'
<1>1. ASSUME NEW v \in Version, NEW input \in Inputs, instantiate(v, input)
      PROVE  GateInv'
  <2> DEFINE e == [NewEvent("Instantiated", v) EXCEPT !.input = input]
  <2>1. e.kind = "Instantiated"
    BY DEF NewEvent
  <2> HIDE DEF e
  <2>2. Added(e) /\ pc' = "out" /\ (live' # None => live'.current = None)
    BY <1>1 DEF instantiate, Call, Persists, PersistFails, Added, e
  <2>3. StepsArePlain'
    BY <2>1, <2>2, PlainAppended DEF GateInv
  <2>4. QED
    BY <2>2, <2>3, NoneIsNoGate DEF GateInv
<1>2. ASSUME NEW v \in Version, recover(v)
      PROVE  GateInv'
  <2>1. /\ UNCHANGED <<journal, pc>> /\ pc = "out"
        /\ live'.current = restored_step(journal)
    BY <1>2 DEF recover, Call
  <2>2. StepsArePlain /\ StepsArePlain'
    BY <2>1 DEF GateInv, StepsArePlain
  <2>3. NoGate(live'.current)
    BY <2>1, <2>2, RestoredIsPlain
  <2>4. QED
    BY <2>1, <2>2, <2>3 DEF GateInv
<1>3. ASSUME NEW v \in MigrateTo, migrate_version(v)
      PROVE  GateInv'
  <2>1. VersionMigrated(v).kind = "VersionMigrated"
    BY DEF VersionMigrated, NewEvent
  <2>2. Added(VersionMigrated(v)) /\ pc = "out" /\ pc' = "out" /\ live \in Instance /\ live # None
    BY <1>3 DEF migrate_version, Call, Persists, PersistFails, Added, TypeInv, TypeOK
  <2>3. \/ live' = None
        \/ live'.current = live.current /\ live'.blocked = live.blocked /\ result' = result
    BY <1>3, <2>2 DEF migrate_version, Instance
  <2>4. StepsArePlain'
    BY <2>1, <2>2, PlainAppended DEF GateInv
  <2>5. QED
    BY <2>2, <2>3, <2>4 DEF GateInv
<1>4. CASE run_blocked
  <2>1. live' = None /\ pc' = "out" /\ UNCHANGED journal
    BY <1>4 DEF run_blocked, CallsRun, Call
  <2>2. QED
    BY <2>1 DEF GateInv, StepsArePlain
<1>5. CASE run_enters
  <2> DEFINE e == NewEvent("HumanGateResolved", live.ver)
  <2>1. e.kind = "HumanGateResolved"
    BY DEF NewEvent
  <2> HIDE DEF e
  <2>2. /\ Added(e) /\ pc = "out" /\ live # None /\ ~live.blocked /\ result \in {"ok", "awaiting"}
        /\ consent' = (consent \/ result = "awaiting")
        /\ \/ live' = live /\ pc' = "loop"
           \/ live' = None /\ pc' = "out"
    BY <1>5 DEF run_enters, CallsRun, Call, InstanceBlocked, Persists, PersistFails, Added, e
  <2>3. StepsArePlain'
    BY <2>1, <2>2, PlainAppended DEF GateInv
  <2>4. NoGate(live.current) \/ consent'
    BY <2>2 DEF GateInv
  <2>5. QED
    BY <2>2, <2>3, <2>4 DEF GateInv
<1>6. CASE human_gate_times_out
  <2> DEFINE gate == step_of(live.ver, live.current)
  <2> DEFINE e == [NewEvent("HumanGateTimedOut", live.ver) EXCEPT !.policy = gate.policy]
  <2>1. e.kind = "HumanGateTimedOut"
    BY DEF NewEvent
  <2>2. live \in Instance /\ pc = "out"
    BY <1>6 DEF human_gate_times_out, Call, TypeInv, TypeOK
  <2> HIDE DEF e, gate
  <2>3. Added(e)
    BY <1>6 DEF human_gate_times_out, Persists, PersistFails, Added, e, gate
  <2>4. \/ live' = None /\ pc' = "out"
        \/ live'.blocked = TRUE /\ pc' = "out"
        \/ live' = live /\ pc' = "redirect" /\ has_step(live.ver, gate.to)
    BY <1>6, <2>2 DEF human_gate_times_out, gate, Instance
  <2>5. StepsArePlain'
    BY <2>1, <2>3, PlainAppended DEF GateInv
  <2>6. QED
    BY <2>4, <2>5 DEF GateInv, gate
<1>7. QED
  BY <1>1, <1>2, <1>3, <1>4, <1>5, <1>6 DEF CallerStep

\* The loop's own choice is made in the loop.
LEMMA TargetFrom ==
    ASSUME NEW t \in targets
    PROVE  t[2] = "run" => pc = "loop"
BY DEF targets, Iterates, AtLoopHead

\* A fork stands at its parallel step.
LEMMA ForkIsPlain ==
    ASSUME TypeInv, GatesStayGates, fork_branch
    PROVE  live.current \in StepId /\ NoGate(live.current)
<1>1. live \in Instance /\ compile(live.ver) /\ chosen.go = "fork"
  BY DEF fork_branch, Iterates, AtLoopHead, TypeInv, CallOK
<1>2. live.current # None
  BY <1>1 DEF chosen, next_step, Single
<1>3. has_step(live.ver, live.current)
  BY <1>1, <1>2 DEF chosen, next_step, GraphError
<1> DEFINE step == step_of(live.ver, live.current)
<1>4. step.kind # "human_gate"
  <2>1. SUFFICES ASSUME step.kind = "human_gate" PROVE FALSE
    OBVIOUS
  <2>2. chosen = first_after(live.ver, position(live.ver, live.current), {})
    BY <1>2, <1>3, <2>1 DEF chosen, next_step
  <2>3. QED
    BY <1>1, <2>2 DEF first_after, Finished, Single
<1>5. QED
  BY <1>1, <1>2, <1>3, <1>4, PlainStep DEF Instance

LEMMA EngineGates ==
    ASSUME TypeInv, GateInv, EngineStep, ~CallerRetries, GatesStayGates
    PROVE  GateInv'
<1>0. StepsArePlain
  BY DEF GateInv
<1>1. CASE limit_exceeded \/ run_graph_error \/ run_finishes \/ executor_fails
  <2>1. /\ UNCHANGED journal /\ pc' = "out"
        /\ live' = None \/ result' = "finished"
    BY <1>1 DEF limit_exceeded, run_graph_error, run_finishes, executor_fails, Errs, Returns
  <2>2. QED
    BY <1>0, <2>1 DEF GateInv, StepsArePlain
<1>2. ASSUME NEW t \in targets,
             \/ control_step(t[1], t[2]) \/ checkpoint(t[1], t[2]) \/ human_gate(t[1])
             \/ loop_step(t[1], t[2]) \/ mutating_step(t[1], t[2])
      PROVE  GateInv'
  <2>1. /\ t[1] \in StepId /\ t[2] \in {"run", "timeout"}
        /\ live \in Instance /\ has_step(live.ver, t[1])
        /\ t[2] = "run" => NoGate(live.current) \/ consent
    BY <1>2, TargetTyped, TargetFrom, TargetExists DEF GateInv
  <2>2. step_of(live.ver, t[1]).kind # "human_gate" => NoGate(t[1])
    BY <2>1, PlainStep DEF Instance
  <2>3. CASE human_gate(t[1])
    <3> DEFINE e == [NewEvent("HumanGateOpened", live.ver) EXCEPT !.step = t[1]]
    <3>1. e.kind = "HumanGateOpened"
      BY DEF NewEvent
    <3> HIDE DEF e
    <3>2. Added(e) /\ pc' = "out" /\ (live' = None \/ result' = "awaiting")
      BY <2>3 DEF human_gate, Persists, PersistFails, Returns, Errs, Added, e
    <3>3. StepsArePlain'
      BY <1>0, <3>1, <3>2, PlainAppended
    <3>4. QED
      BY <3>2, <3>3 DEF GateInv
  <2>4. CASE control_step(t[1], t[2]) \/ checkpoint(t[1], t[2]) \/ loop_step(t[1], t[2])
    <3>1. UNCHANGED journal
      BY <2>4 DEF control_step, checkpoint, loop_step
    <3>2. StepsArePlain'
      BY <1>0, <3>1 DEF StepsArePlain
    <3>3. \/ live' = None /\ pc' = "out"
          \/ live'.current = t[1] /\ NoGate(t[1]) /\ pc' \in {"out", "loop"}
      BY <2>1, <2>2, <2>4 DEF control_step, checkpoint, loop_step, StepDone, Errs, Instance
    <3>4. QED
      BY <3>2, <3>3 DEF GateInv
  <2>5. CASE mutating_step(t[1], t[2])
    <3>1. /\ UNCHANGED <<journal, live, consent>> /\ pc' = "executing"
          /\ pend'.fork = None /\ pend'.step = t[1] /\ pend'.from = t[2]
      BY <2>5 DEF mutating_step, Executing
    <3>2. NoGate(t[1])
      BY <2>2, <2>5 DEF mutating_step, is_mutating_leaf, Mutating
    <3>3. StepsArePlain'
      BY <1>0, <3>1 DEF StepsArePlain
    <3>4. QED
      BY <2>1, <3>1, <3>2, <3>3 DEF GateInv
  <2>6. QED
    BY <1>2, <2>3, <2>4, <2>5
<1>3. CASE fork_branch
  <2>1. /\ UNCHANGED <<journal, live>> /\ pc' = "executing"
        /\ pend'.fork = live.current /\ pend'.from = "run"
    BY <1>3 DEF fork_branch, Executing
  <2>2. NoGate(live.current) /\ pend'.fork # None
    BY <1>3, <2>1, ForkIsPlain, NoneAssumption
  <2>3. StepsArePlain'
    BY <1>0, <2>1 DEF StepsArePlain
  <2>4. QED
    BY <2>1, <2>2, <2>3 DEF GateInv
<1>4. ASSUME NEW ver \in Version, executor_journals(ver)
      PROVE  GateInv'
  <2>1. /\ Added(NewEvent("Audit", ver)) /\ UNCHANGED <<live, pc, consent>> /\ pc = "executing"
        /\ pend' = [pend EXCEPT !.audited = TRUE] /\ pend \in Pending
    BY <1>4 DEF executor_journals, Persists, Added, TypeInv, CallOK
  <2>2. pend'.fork = pend.fork /\ pend'.step = pend.step /\ pend'.from = pend.from
    BY <2>1 DEF Pending
  <2>3. StepsArePlain'
    <3>1. NewEvent("Audit", ver).kind # "StepApplied"
      BY DEF NewEvent
    <3>2. QED
      BY <1>0, <2>1, <3>1, PlainAppended
  <2>4. QED
    BY <2>1, <2>2, <2>3 DEF GateInv
<1>5. ASSUME NEW val \in Value, patch_appended(val)
      PROVE  GateInv'
  <2> DEFINE kind == IF pend.fork = None THEN "StepApplied" ELSE "ParallelStepApplied"
  <2> DEFINE e == [NewEvent(kind, live.ver) EXCEPT !.fork = pend.fork, !.step = pend.step, !.val = val]
  <2>1. e.kind = kind /\ e.step = pend.step /\ pc = "executing" /\ pend \in Pending
    BY <1>5 DEF NewEvent, patch_appended, TypeInv, CallOK
  <2>2. e.kind = "StepApplied" => NoGate(e.step)
    BY <2>1 DEF GateInv
  <2> HIDE DEF kind, e
  <2>3. /\ Added(e)
        /\ \/ live' = None /\ pc' = "out"
           \/ UNCHANGED <<live, consent>> /\ pc' = "apply" /\ pend' = [pend EXCEPT !.val = val]
    BY <1>5 DEF patch_appended, Persists, PersistFails, Errs, Added, kind, e
  <2>4. StepsArePlain'
    BY <1>0, <2>2, <2>3, PlainAppended
  <2>5. pend' = [pend EXCEPT !.val = val]
            => pend'.fork = pend.fork /\ pend'.step = pend.step /\ pend'.from = pend.from
    BY <2>1 DEF Pending
  <2>6. QED
    BY <2>1, <2>3, <2>4, <2>5 DEF GateInv
<1>6. CASE patch_applied
  <2>1. /\ UNCHANGED journal /\ pc = "apply" /\ live \in Instance
    BY <1>6 DEF patch_applied, TypeInv, CallOK
  <2>2. StepsArePlain'
    BY <1>0, <2>1 DEF StepsArePlain
  <2>3. \/ live' = None /\ pc' = "out"
        \/ /\ pc' \in {"out", "loop"}
           /\ live'.current = IF pend.fork = None THEN pend.step ELSE live.current
    BY <1>6, <2>1 DEF patch_applied, StepDone, Errs, Instance
  <2>4. NoGate(IF pend.fork = None THEN pend.step ELSE live.current)
    BY <2>1 DEF GateInv
  <2>5. QED
    BY <2>2, <2>3, <2>4 DEF GateInv
<1>7. QED
  BY <1>1, <1>2, <1>3, <1>4, <1>5, <1>6 DEF EngineStep

Passed == \/ consent
          \/ pc = "redirect"
          \/ pend # None /\ pend.from = "timeout"

Leaves == live # None /\ live' # None /\ live'.current # live.current /\ IsGate(live.ver, live.current)

LEMMA LeavesByAnswer ==
    ASSUME TypeInv, GateInv, EngineStep \/ CallerStep \/ process_ends, Leaves
    PROVE  Passed
<1>1. live \in Instance /\ ~NoGate(live.current)
  BY DEF Leaves, TypeInv, TypeOK, NoGate, Instance
<1>2. ASSUME NEW t \in targets PROVE Passed
  BY <1>1, <1>2, TargetTyped DEF GateInv, Passed
<1>3. CASE patch_applied
  <2>1. pc = "apply" /\ pend \in Pending /\ pend # None
    BY <1>3, InstanceAssumption DEF patch_applied, TypeInv, CallOK
  <2>2. pend.from \in {"run", "timeout"}
    BY <2>1 DEF Pending
  <2>3. QED
    BY <1>1, <2>1, <2>2 DEF GateInv, Passed
<1>4. CASE ~patch_applied /\ (\A t \in targets : ~control_step(t[1], t[2]) /\ ~checkpoint(t[1], t[2])
                                    /\ ~human_gate(t[1]) /\ ~loop_step(t[1], t[2])
                                    /\ ~mutating_step(t[1], t[2]))
  <2>1. live # None => live' = None \/ live'.current = live.current
    BY <1>1, <1>4 DEF EngineStep, CallerStep, process_ends, limit_exceeded, run_graph_error,
       run_finishes, executor_fails, Errs, Returns, fork_branch, Executing, executor_journals,
       patch_appended, instantiate, recover, migrate_version, run_blocked, run_enters,
       human_gate_times_out, Instance
  <2>2. QED
    BY <2>1 DEF Leaves
<1>5. QED
  BY <1>2, <1>3, <1>4

\* No instance leaves a human gate but by the human's answer or the gate's own
\* on_timeout branch, in any graph, across recoveries, crashes and migrations
\* between versions that agree on which steps are gates, if the caller drops the
\* instance after an error.
THEOREM GateNeedsAnswer ==
    ASSUME ~CallerRetries, GatesStayGates
    PROVE  Spec => GatePassedByAnswer
<1>1. Init => TypeInv /\ GateInv
  BY InitTyped DEF Init, GateInv, StepsArePlain
<1>2. TypeInv /\ GateInv /\ [Next]_vars => (TypeInv /\ GateInv)'
  <2> SUFFICES ASSUME TypeInv, GateInv, [Next]_vars PROVE GateInv'
    BY StepTypedInv
  <2>1. CASE process_ends
    <3>1. UNCHANGED journal /\ live' = None /\ pc' = "out"
      BY <2>1 DEF process_ends
    <3>2. QED
      BY <3>1, Dropped DEF GateInv, StepsArePlain
  <2>2. CASE UNCHANGED vars
    BY <2>2 DEF vars, GateInv, StepsArePlain
  <2>3. QED
    BY <2>1, <2>2, CallerGates, EngineGates DEF Next
<1>3. TypeInv /\ GateInv /\ [Next]_vars => [Leaves => Passed]_vars
  BY LeavesByAnswer DEF Next
<1>4. QED
  BY <1>1, <1>2, <1>3, PTL DEF Spec, GatePassedByAnswer, Leaves, Passed

-----------------------------------------------------------------------------
(* The gate an instance waits at *)

SomeGate(id) == \E v \in Version : IsGate(v, id)

\* All versions of the process have the same gate, and no other.
OneGate == \A a, b \in StepId : SomeGate(a) /\ SomeGate(b) => a = b

OpensGates(events) ==
    \A i \in DOMAIN events : events[i].kind = "HumanGateOpened" => SomeGate(events[i].step)

Waits == live # None /\ result = "awaiting"

\* Only gates are opened; a call in progress waits for nobody; an instance that
\* waits stands at a gate, and a gate is open.
AwaitInv ==
    /\ OpensGates(journal)
    /\ pc # "out" => result = "none"
    /\ pc = "redirect" => has_step(live.ver, step_of(live.ver, live.current).to)
    /\ Waits => SomeGate(live.current) /\ last_gate_unresolved(journal)

LEMMA OpensAppended ==
    ASSUME TypeInv, OpensGates(journal), NEW e, Added(e),
           e.kind = "HumanGateOpened" => SomeGate(e.step)
    PROVE  OpensGates(journal')
<1>1. journal \in Seq(Event)
  BY DEF TypeInv, TypeOK
<1>2. CASE journal' = journal
  BY <1>2
<1>3. CASE journal' = Append(journal, e)
  <2>1. ASSUME NEW i \in DOMAIN journal', journal'[i].kind = "HumanGateOpened"
        PROVE  SomeGate(journal'[i].step)
    <3>1. CASE i = Len(journal) + 1
      <4>1. journal'[i] = e
        BY <1>1, <1>3, <3>1
      <4>2. QED
        BY <2>1, <4>1
    <3>2. CASE i # Len(journal) + 1
      <4>1. i \in DOMAIN journal /\ journal'[i] = journal[i]
        BY <1>1, <1>3, <2>1, <3>2
      <4>2. QED
        BY <2>1, <4>1 DEF OpensGates
    <3>3. QED
      BY <3>1, <3>2
  <2>2. QED
    BY <2>1 DEF OpensGates
<1>4. QED
  BY <1>2, <1>3 DEF Added

\* An open gate is closed by HumanGateResolved only.
LEMMA OpenStays ==
    ASSUME TypeInv, last_gate_unresolved(journal), NEW e, Added(e), e.kind # "HumanGateResolved"
    PROVE  last_gate_unresolved(journal')
<1>1. journal \in Seq(Event)
  BY DEF TypeInv, TypeOK
<1>2. CASE journal' = journal
  BY <1>2
<1>3. CASE journal' = Append(journal, e)
  <2>1. PICK i \in DOMAIN journal :
            /\ journal[i].kind = "HumanGateOpened"
            /\ \A j \in DOMAIN journal : j > i => journal[j].kind # "HumanGateResolved"
    BY DEF last_gate_unresolved
  <2>2. i \in DOMAIN journal' /\ journal'[i] = journal[i]
    BY <1>1, <1>3, <2>1
  <2>3. ASSUME NEW j \in DOMAIN journal', j > i PROVE journal'[j].kind # "HumanGateResolved"
    <3>1. CASE j = Len(journal) + 1
      <4>1. journal'[j] = e
        BY <1>1, <1>3, <3>1
      <4>2. QED
        BY <4>1
    <3>2. CASE j # Len(journal) + 1
      <4>1. j \in DOMAIN journal /\ journal'[j] = journal[j]
        BY <1>1, <1>3, <2>3, <3>2
      <4>2. QED
        BY <2>1, <2>3, <4>1
    <3>3. QED
      BY <3>1, <3>2
  <2>4. QED
    BY <2>1, <2>2, <2>3 DEF last_gate_unresolved
<1>4. QED
  BY <1>2, <1>3 DEF Added

LEMMA OpenedNow ==
    ASSUME TypeInv, NEW e, Persists(e), e.kind = "HumanGateOpened"
    PROVE  last_gate_unresolved(journal')
<1>1. journal \in Seq(Event)
  BY DEF TypeInv, TypeOK
<1>2. journal' = Append(journal, e)
  BY DEF Persists
<1>3. Len(journal) + 1 \in DOMAIN journal' /\ journal'[Len(journal) + 1] = e
  BY <1>1, <1>2
<1>4. \A j \in DOMAIN journal' : ~(j > Len(journal) + 1)
  BY <1>1, <1>2
<1>5. QED
  BY <1>3, <1>4 DEF last_gate_unresolved

LEMMA CallerAwaits ==
    ASSUME TypeInv, AwaitInv, CallerStep
    PROVE  AwaitInv'
<1>0. OpensGates(journal)
  BY DEF AwaitInv
<1>1. ASSUME NEW v \in Version, NEW input \in Inputs, instantiate(v, input)
      PROVE  AwaitInv'
  <2> DEFINE e == [NewEvent("Instantiated", v) EXCEPT !.input = input]
  <2>1. e.kind = "Instantiated"
    BY DEF NewEvent
  <2> HIDE DEF e
  <2>2. Added(e) /\ pc' = "out" /\ result' # "awaiting"
    BY <1>1 DEF instantiate, Call, Persists, PersistFails, Added, e
  <2>3. QED
    BY <1>0, <2>1, <2>2, OpensAppended DEF AwaitInv, Waits
<1>2. ASSUME NEW v \in Version, recover(v)
      PROVE  AwaitInv'
  BY <1>0, <1>2 DEF recover, Call, AwaitInv, Waits
<1>3. ASSUME NEW v \in MigrateTo, migrate_version(v)
      PROVE  AwaitInv'
  <2> DEFINE e == VersionMigrated(v)
  <2>1. e.kind = "VersionMigrated"
    BY DEF VersionMigrated, NewEvent
  <2> HIDE DEF e
  <2>2. live \in Instance /\ live # None
    BY <1>3 DEF migrate_version, TypeInv, TypeOK
  <2>3. /\ Added(e) /\ pc' = "out"
        /\ \/ result' = "error"
           \/ result' = result /\ live'.current = live.current
    BY <1>3, <2>2 DEF migrate_version, Call, Persists, PersistFails, Added, e, Instance
  <2>4. OpensGates(journal')
    BY <1>0, <2>1, <2>3, OpensAppended
  <2>5. Waits' => SomeGate(live'.current) /\ last_gate_unresolved(journal')
    BY <2>1, <2>2, <2>3, OpenStays DEF AwaitInv, Waits
  <2>6. QED
    BY <2>3, <2>4, <2>5 DEF AwaitInv
<1>4. CASE run_blocked
  BY <1>0, <1>4 DEF run_blocked, CallsRun, Call, AwaitInv, Waits
<1>5. CASE run_enters
  <2> DEFINE e == NewEvent("HumanGateResolved", live.ver)
  <2>1. e.kind = "HumanGateResolved"
    BY DEF NewEvent
  <2> HIDE DEF e
  <2>2. /\ Added(e)
        /\ \/ pc' = "out" /\ result' = "error"
           \/ pc' = "loop" /\ result' = "none"
    BY <1>5 DEF run_enters, CallsRun, Call, Persists, PersistFails, Added, e
  <2>3. QED
    BY <1>0, <2>1, <2>2, OpensAppended DEF AwaitInv, Waits
<1>6. CASE human_gate_times_out
  <2> DEFINE gate == step_of(live.ver, live.current)
  <2> DEFINE e == [NewEvent("HumanGateTimedOut", live.ver) EXCEPT !.policy = gate.policy]
  <2>1. e.kind = "HumanGateTimedOut"
    BY DEF NewEvent
  <2> HIDE DEF e
  <2>2. /\ Added(e)
        /\ \/ pc' = "out" /\ result' \in {"ok", "error"}
           \/ /\ pc' = "redirect" /\ result' = "none" /\ live' = live
              /\ has_step(live.ver, gate.to)
    BY <1>6 DEF human_gate_times_out, Call, Persists, PersistFails, Added, e
  <2>3. QED
    BY <1>0, <2>1, <2>2, OpensAppended DEF AwaitInv, Waits
<1>7. QED
  BY <1>1, <1>2, <1>3, <1>4, <1>5, <1>6 DEF CallerStep

LEMMA EngineAwaits ==
    ASSUME TypeInv, AwaitInv, EngineStep
    PROVE  AwaitInv'
<1>0. OpensGates(journal)
  BY DEF AwaitInv
<1>1. CASE limit_exceeded \/ run_graph_error \/ run_finishes \/ executor_fails
  <2>1. journal' = journal /\ pc' = "out" /\ result' \in {"error", "finished"}
    BY <1>1 DEF limit_exceeded, run_graph_error, run_finishes, executor_fails, Errs, Returns
  <2>2. QED
    BY <1>0, <2>1 DEF AwaitInv, Waits
<1>2. ASSUME NEW t \in targets, human_gate(t[1])
      PROVE  AwaitInv'
  <2> DEFINE e == [NewEvent("HumanGateOpened", live.ver) EXCEPT !.step = t[1]]
  <2>1. /\ t[1] \in StepId /\ live \in Instance /\ has_step(live.ver, t[1])
    BY <1>2, TargetTyped, TargetExists DEF AwaitInv
  <2>2. SomeGate(t[1])
    BY <1>2, <2>1 DEF human_gate, SomeGate, IsGate, Instance
  <2>3. e.kind = "HumanGateOpened" /\ e.step = t[1]
    BY DEF NewEvent
  <2> HIDE DEF e
  <2>4. /\ Added(e) /\ pc' = "out"
        /\ \/ result' = "error"
           \/ /\ result' = "awaiting" /\ live'.current = t[1]
              /\ Persists(e) \/ (last_gate_unresolved(journal) /\ journal' = journal)
    BY <1>2, <2>1 DEF human_gate, Persists, PersistFails, Returns, Errs, Added, e, Instance
  <2>5. OpensGates(journal')
    BY <1>0, <2>2, <2>3, <2>4, OpensAppended
  <2>6. Waits' => SomeGate(live'.current) /\ last_gate_unresolved(journal')
    BY <2>2, <2>3, <2>4, OpenedNow DEF Waits
  <2>7. QED
    BY <2>4, <2>5, <2>6 DEF AwaitInv
<1>3. ASSUME NEW t \in targets,
             \/ control_step(t[1], t[2]) \/ checkpoint(t[1], t[2])
             \/ loop_step(t[1], t[2]) \/ mutating_step(t[1], t[2])
      PROVE  AwaitInv'
  <2>1. pc \in {"loop", "redirect"} /\ result = "none"
    BY <1>3, TargetTyped DEF AwaitInv
  <2>2. /\ journal' = journal
        /\ \/ pc' \in {"loop", "executing"} /\ result' = "none"
           \/ pc' = "out" /\ result' \in {"ok", "error"}
    BY <1>3, <2>1, TargetTyped DEF control_step, checkpoint, loop_step, mutating_step, Executing, StepDone, Errs
  <2>3. QED
    BY <1>0, <2>2 DEF AwaitInv, Waits
<1>4. CASE fork_branch
  <2>1. journal' = journal /\ pc' = "executing" /\ result' = result /\ pc # "out"
    BY <1>4 DEF fork_branch, Executing, Iterates, AtLoopHead
  <2>2. QED
    BY <1>0, <2>1 DEF AwaitInv, Waits
<1>5. ASSUME NEW ver \in Version, executor_journals(ver)
      PROVE  AwaitInv'
  <2>1. NewEvent("Audit", ver).kind = "Audit"
    BY DEF NewEvent
  <2>2. Added(NewEvent("Audit", ver)) /\ pc = "executing" /\ pc' = "executing" /\ result' = result
    BY <1>5 DEF executor_journals, Persists, Added
  <2>3. QED
    BY <1>0, <2>1, <2>2, OpensAppended DEF AwaitInv, Waits
<1>6. ASSUME NEW val \in Value, patch_appended(val)
      PROVE  AwaitInv'
  <2> DEFINE kind == IF pend.fork = None THEN "StepApplied" ELSE "ParallelStepApplied"
  <2> DEFINE e == [NewEvent(kind, live.ver) EXCEPT !.fork = pend.fork, !.step = pend.step, !.val = val]
  <2>1. e.kind # "HumanGateOpened"
    BY DEF NewEvent
  <2> HIDE DEF kind, e
  <2>2. /\ Added(e) /\ pc = "executing"
        /\ \/ pc' = "apply" /\ result' = result
           \/ pc' = "out" /\ result' = "error"
    BY <1>6 DEF patch_appended, Persists, PersistFails, Errs, Added, kind, e
  <2>3. QED
    BY <1>0, <2>1, <2>2, OpensAppended DEF AwaitInv, Waits
<1>7. CASE patch_applied
  <2>1. /\ journal' = journal /\ pc = "apply"
        /\ \/ pc' = "loop" /\ result' = result
           \/ pc' = "out" /\ result' \in {"ok", "error"}
    BY <1>7 DEF patch_applied, StepDone, Errs, TypeInv, CallOK, Pending
  <2>2. QED
    BY <1>0, <2>1 DEF AwaitInv, Waits
<1>8. QED
  BY <1>1, <1>2, <1>3, <1>4, <1>5, <1>6, <1>7 DEF EngineStep

\* The last gate that was opened and not answered is the one the instance stands at.
LEMMA OpenIsAwaited ==
    ASSUME TypeInv, AwaitInv, OneGate
    PROVE  AwaitedGateIsOpen
<1> SUFFICES ASSUME live # None, result = "awaiting"
             PROVE  \E i \in DOMAIN journal :
                       /\ journal[i].kind = "HumanGateOpened" /\ journal[i].step = live.current
                       /\ \A j \in DOMAIN journal :
                             j > i => journal[j].kind \notin {"HumanGateOpened", "HumanGateResolved"}
  BY DEF AwaitedGateIsOpen
<1>1. journal \in Seq(Event) /\ live \in Instance
  BY DEF TypeInv, TypeOK
<1>2. SomeGate(live.current) /\ last_gate_unresolved(journal)
  BY DEF AwaitInv, Waits
<1>3. PICK i \in DOMAIN journal :
          /\ journal[i].kind = "HumanGateOpened"
          /\ \A j \in DOMAIN journal : j > i => journal[j].kind # "HumanGateResolved"
  BY <1>2 DEF last_gate_unresolved
<1> DEFINE back == {k \in 0..(Len(journal) - 1) : journal[Len(journal) - k].kind = "HumanGateOpened"}
<1>4. Len(journal) - i \in back
  BY <1>1, <1>3
<1>5. Least(back) \in back /\ \A k \in back : Least(back) <= k
  <2>1. back \in SUBSET Nat
    OBVIOUS
  <2>2. QED
    BY <1>4, <2>1, LeastExists
<1> DEFINE last == Len(journal) - Least(back)
<1>6. last \in DOMAIN journal /\ journal[last].kind = "HumanGateOpened" /\ i <= last
  <2>1. Least(back) \in 0..(Len(journal) - 1) /\ journal[last].kind = "HumanGateOpened"
    BY <1>5
  <2>2. Least(back) <= Len(journal) - i
    BY <1>4, <1>5
  <2>3. Len(journal) \in Nat /\ i \in Nat /\ DOMAIN journal = 1..Len(journal)
    BY <1>1, <1>3
  <2> HIDE DEF back
  <2>4. QED
    BY <2>1, <2>2, <2>3
<1>7. ASSUME NEW j \in DOMAIN journal, j > last
      PROVE  journal[j].kind \notin {"HumanGateOpened", "HumanGateResolved"}
  <2>1. journal[j].kind # "HumanGateResolved"
    BY <1>1, <1>3, <1>6, <1>7
  <2>2. Len(journal) - j \in 0..(Len(journal) - 1) /\ Len(journal) - (Len(journal) - j) = j
    BY <1>1
  <2>3. Len(journal) - j \notin back
    <3>1. Least(back) \in Int /\ Len(journal) \in Int /\ j \in Int
      BY <1>1, <1>5
    <3>2. Len(journal) - j < Least(back)
      BY <1>7, <3>1
    <3>3. QED
      BY <1>5, <3>1, <3>2
  <2>4. journal[j].kind # "HumanGateOpened"
    BY <2>2, <2>3
  <2>5. QED
    BY <2>1, <2>4
<1>8. journal[last].step = live.current
  <2>1. SomeGate(journal[last].step)
    BY <1>6 DEF AwaitInv, OpensGates
  <2>2. \A id : SomeGate(id) => id \in StepId
    <3>1. ASSUME NEW v \in Version, NEW j \in DOMAIN Process[v] PROVE Process[v][j].id \in StepId
      <4>1. Process[v][j] \in Step
        BY GraphAssumption
      <4>2. QED
        BY <4>1 DEF Step
    <3>2. QED
      BY <3>1 DEF SomeGate, IsGate, has_step
  <2>3. QED
    BY <1>2, <2>1, <2>2 DEF OneGate
<1> HIDE DEF last
<1>9. QED
  BY <1>6, <1>7, <1>8

\* Whatever fails, migrates, is retried or dies, the event of the gate an
\* instance waits at is the open one of its journal, if the process has one
\* gate.  With two it is not: last_gate_unresolved asks for any gate's event, so
\* a second gate is not announced when the first was left by its timeout.
THEOREM AwaitedIsOpen ==
    ASSUME OneGate
    PROVE  Spec => []AwaitedGateIsOpen
<1>1. Init => TypeInv /\ AwaitInv
  BY InitTyped DEF Init, AwaitInv, OpensGates, Waits
<1>2. TypeInv /\ AwaitInv /\ [Next]_vars => (TypeInv /\ AwaitInv)'
  <2> SUFFICES ASSUME TypeInv, AwaitInv, [Next]_vars PROVE AwaitInv'
    BY StepTypedInv
  <2>1. CASE process_ends
    BY <2>1 DEF process_ends, AwaitInv, Waits
  <2>2. CASE UNCHANGED vars
    BY <2>2 DEF vars, AwaitInv, Waits
  <2>3. QED
    BY <2>1, <2>2, CallerAwaits, EngineAwaits DEF Next
<1>3. QED
  BY <1>1, <1>2, OpenIsAwaited, PTL DEF Spec
-----------------------------------------------------------------------------
(* The loop of state.rs *)

LEMMA FoldOnce ==
    ASSUME NEW events \in Seq(Event), JournalOK(events), NEW e \in Event, EventOK(e)
    PROVE  fold(Append(events, e)) = folded_once(e, fold(events))
<1>1. fold(events) \in Document
  BY FoldTyped
<1>2. CASE e.kind = "Instantiated"
  <2>1. fold(Append(events, e)) =
            [p \in Path |-> IF writes(e, p) THEN written(e, p) ELSE fold(events)[p]]
    BY FoldAppend
  <2>2. CASE e.input = Scalar
    BY <1>1, <1>2, <2>1, <2>2 DEF writes, folded_once, Document
  <2>3. CASE e.input # Scalar
    <3>1. \A p \in Path : /\ writes(e, p) <=> e.input[p] # Absent
                          /\ written(e, p) = e.input[p]
      BY <1>2, <2>3 DEF writes, written
    <3>2. QED
      BY <1>2, <2>1, <2>3, <3>1 DEF folded_once, merged
  <2>4. QED
    BY <2>2, <2>3
<1>3. CASE e.kind # "Instantiated"
  BY <1>3, FoldPatch DEF folded_once
<1>4. QED
  BY <1>2, <1>3

\* f is the loop over the first n events.
Loop(events, n, f) ==
    f = [k \in 0..n |-> IF k = 0 THEN EmptyDocument ELSE folded_once(events[k], f[k - 1])]

LEMMA LoopExists ==
    ASSUME NEW events \in Seq(Event), NEW n \in 0..Len(events)
    PROVE  \E f : Loop(events, n, f)
<1> DEFINE S == {k \in 0..Len(events) : ~\E f : Loop(events, k, f)}
<1> SUFFICES ASSUME S # {} PROVE FALSE
  OBVIOUS
<1>1. Len(events) \in Nat /\ S \in SUBSET Nat
  OBVIOUS
<1>2. Least(S) \in S /\ \A k \in S : Least(S) <= k
  BY <1>1, LeastExists
<1> DEFINE m == Least(S)
<1>3. m \in 0..Len(events) /\ m \in Nat /\ ~\E f : Loop(events, m, f)
  BY <1>1, <1>2
<1>4. CASE m = 0
  <2>1. Loop(events, 0, [k \in 0..0 |-> EmptyDocument])
    BY DEF Loop
  <2>2. QED
    BY <1>3, <1>4, <2>1
<1>5. CASE m # 0
  <2>1. m - 1 \in 0..Len(events) /\ m - 1 \notin S
    <3>1. \A k \in S : m <= k
      BY <1>2
    <3> HIDE DEF m, S
    <3>2. QED
      BY <1>1, <1>3, <1>5, <3>1
  <2>2. PICK f : Loop(events, m - 1, f)
    BY <2>1
  <2> HIDE DEF m
  <2> DEFINE g == [k \in 0..m |-> IF k = m THEN folded_once(events[m], f[m - 1]) ELSE f[k]]
  <2>3. ASSUME NEW k \in 0..m
        PROVE  g[k] = IF k = 0 THEN EmptyDocument ELSE folded_once(events[k], g[k - 1])
    <3>1. CASE k = m
      BY <1>3, <1>5, <3>1
    <3>2. CASE k # m
      <4>1. k \in 0..(m - 1) /\ (k # 0 => k - 1 \in 0..(m - 1))
        BY <1>3, <3>2
      <4>2. f[k] = IF k = 0 THEN EmptyDocument ELSE folded_once(events[k], f[k - 1])
        BY <2>2, <4>1 DEF Loop
      <4>3. g[k] = f[k] /\ (k # 0 => g[k - 1] = f[k - 1])
        BY <1>3, <3>2, <4>1
      <4> HIDE DEF g
      <4>4. QED
        BY <4>2, <4>3
    <3>3. QED
      BY <3>1, <3>2
  <2>4. g = [k \in 0..m |-> g[k]]
    OBVIOUS
  <2> HIDE DEF g
  <2>5. Loop(events, m, g)
    BY <2>3, <2>4 DEF Loop
  <2>6. QED
    BY <1>3, <2>5
<1>6. QED
  BY <1>4, <1>5

LEMMA LoopIsFold ==
    ASSUME NEW events \in Seq(Event), JournalOK(events),
           NEW f, Loop(events, Len(events), f), NEW n \in 0..Len(events)
    PROVE  f[n] = fold(SubSeq(events, 1, n))
<1> DEFINE S == {k \in 0..Len(events) : f[k] # fold(SubSeq(events, 1, k))}
<1> SUFFICES ASSUME S # {} PROVE FALSE
  OBVIOUS
<1>1. Len(events) \in Nat /\ S \in SUBSET Nat
  OBVIOUS
<1>2. Least(S) \in S /\ \A k \in S : Least(S) <= k
  BY <1>1, LeastExists
<1> DEFINE m == Least(S)
<1>3. m \in 0..Len(events) /\ m \in Nat /\ f[m] # fold(SubSeq(events, 1, m))
  BY <1>1, <1>2
<1>4. f[m] = IF m = 0 THEN EmptyDocument ELSE folded_once(events[m], f[m - 1])
  <2> HIDE DEF m
  <2>1. QED
    BY <1>3 DEF Loop
<1>5. CASE m = 0
  <2>1. SubSeq(events, 1, 0) = <<>>
    OBVIOUS
  <2>2. \A p \in Path : last_written(<<>>, p) = {}
    BY DEF last_written
  <2>3. fold(<<>>) = EmptyDocument
    BY <2>2 DEF fold, EmptyDocument
  <2> HIDE DEF m
  <2>4. QED
    BY <1>3, <1>4, <1>5, <2>1, <2>3
<1>6. CASE m # 0
  <2>1. m - 1 \in 0..Len(events) /\ m - 1 \notin S /\ m \in 1..Len(events)
    BY <1>1, <1>2, <1>3, <1>6
  <2>2. f[m - 1] = fold(SubSeq(events, 1, m - 1))
    BY <2>1
  <2> HIDE DEF m, S
  <2> DEFINE before == SubSeq(events, 1, m - 1)
  <2>3. SubSeq(events, 1, m) = Append(before, events[m])
    BY <2>1
  <2>4. /\ before \in Seq(Event) /\ Len(before) = m - 1
        /\ \A i \in DOMAIN before : before[i] = events[i] /\ i \in DOMAIN events
    BY <2>1
  <2>5. JournalOK(before) /\ events[m] \in Event /\ EventOK(events[m])
    BY <2>1, <2>4 DEF JournalOK
  <2> HIDE DEF before
  <2>6. fold(Append(before, events[m])) = folded_once(events[m], fold(before))
    BY <2>4, <2>5, FoldOnce
  <2>7. QED
    BY <1>3, <1>4, <1>6, <2>2, <2>3, <2>6 DEF before
<1>7. QED
  BY <1>5, <1>6

LEMMA ReplayedIsFold ==
    ASSUME NEW events \in Seq(Event), JournalOK(events)
    PROVE  replayed(events) = fold(events)
<1> DEFINE f == CHOOSE g : Loop(events, Len(events), g)
<1>1. Len(events) \in 0..Len(events) /\ SubSeq(events, 1, Len(events)) = events
  OBVIOUS
<1>2. Loop(events, Len(events), f)
  BY <1>1, LoopExists
<1>3. replayed(events) = f[Len(events)]
  BY DEF replayed, Loop
<1> HIDE DEF f
<1>4. QED
  BY <1>1, <1>2, <1>3, LoopIsFold

\* Invariant I7 of docs/arch/process-engine.md, "the fold of the journal equals
\* the live state", with the fold taken as the loop of state.rs, for every graph
\* that compiles and under every crash.  Both hypotheses are needed (README,
\* "Known divergences"): the input is a JSON object, and a caller does not go on with the instance after a storage error.
THEOREM MemoryIsJournal ==
    ASSUME Inputs \subseteq Document, ~(StorageFaults /\ CallerRetries)
    PROVE  Spec => []LiveIsFold
<1>1. Init => TypeInv /\ FoldInv
  BY InitTyped, InitFold
<1>2. TypeInv /\ FoldInv /\ [Next]_vars => (TypeInv /\ FoldInv)'
  BY StepTypedInv, StepFold
<1>3. TypeInv /\ FoldInv => LiveIsFold
  BY ReplayedIsFold DEF TypeInv, TypeOK, CallOK, FoldInv, LiveFolds, LiveIsFold
<1>4. QED
  BY <1>1, <1>2, <1>3, PTL DEF Spec

(***************************************************************************)
(* ProcessEngine implements ProcessSemantics, step by step, for every graph,  *)
(* every graph, and what follows for the journal: the barrier of a parallel  *)
(* step (BarrierHolds), and that nothing is applied twice (AppliedOnce).     *)
(*                                                                         *)
(* The abstract place of control is where a recovery would put it, the step  *)
(* whose patch is appended and not yet in memory, or current_step.  Appends  *)
(* and patches of memory are the abstract applications, a crash or an error  *)
(* is Stop.  Three uses of the engine are outside: a caller that keeps an    *)
(* instance whose call failed at storage (a patch may be applied twice), a   *)
(* migration (the interpreter has one version), and a meter that stamps      *)
(* another version.                                                         *)
(***************************************************************************)
-----------------------------------------------------------------------------
(* restored_step *)

LEMMA LeastIs ==
    ASSUME NEW S \in SUBSET Nat, NEW x \in S, \A y \in S : x <= y
    PROVE  Least(S) = x
<1>1. Least(S) \in S /\ \A j \in S : Least(S) <= j
  BY LeastExists
<1>2. Least(S) <= x /\ x <= Least(S) /\ Least(S) \in Nat /\ x \in Nat
  BY <1>1
<1>3. QED
  BY <1>2

\* An appended event is what a recovery restores if it applies a step, and
\* changes nothing else about it.
LEMMA RestoredAppend ==
    ASSUME NEW events \in Seq(Event), NEW e \in Event
    PROVE  restored_step(Append(events, e)) =
              IF e.kind = "StepApplied" THEN e.step ELSE restored_step(events)
<1> DEFINE more == Append(events, e)
<1> DEFINE n == Len(events)
<1> DEFINE back == {k \in 0..(n - 1) : events[n - k].kind = "StepApplied"}
<1> DEFINE m == Len(more)
<1> DEFINE after == {k \in 0..(m - 1) : more[m - k].kind = "StepApplied"}
<1>1. /\ n \in Nat /\ m = n + 1 /\ more[m] = e
      /\ \A k \in 0..(n - 1) : more[n - k] = events[n - k]
  OBVIOUS
<1>2. restored_step(more) = IF after = {} THEN None ELSE more[m - Least(after)].step
  BY DEF restored_step
<1>3. restored_step(events) = IF back = {} THEN None ELSE events[n - Least(back)].step
  BY DEF restored_step
<1>4. back \in SUBSET Nat /\ after \in SUBSET Nat
  BY <1>1
<1>5. CASE e.kind = "StepApplied"
  <2>1. 0 \in after /\ \A y \in after : 0 <= y
    BY <1>1, <1>5
  <2>2. Least(after) = 0
    BY <1>4, <2>1, LeastIs
  <2> HIDE DEF after, more
  <2>3. QED
    BY <1>1, <1>2, <1>5, <2>1, <2>2 DEF more
<1>6. CASE e.kind # "StepApplied"
  <2>1. \A k \in Nat : (k \in back <=> k + 1 \in after) /\ 0 \notin after
    <3>1. ASSUME NEW k \in 0..(n - 1) PROVE more[m - (k + 1)] = events[n - k]
      BY <1>1
    <3>2. 0 \notin after
      BY <1>1, <1>6
    <3>3. \A k \in Nat : k \in back <=> k + 1 \in after
      <4> TAKE k \in Nat
      <4>1. CASE k \in 0..(n - 1)
        BY <1>1, <3>1, <4>1
      <4>2. CASE k \notin 0..(n - 1)
        BY <1>1, <4>2
      <4>3. QED
        BY <4>1, <4>2
    <3>4. QED
      BY <3>2, <3>3
  <2>2. CASE back = {}
    <3>1. after = {}
      <4>1. SUFFICES ASSUME NEW k \in after PROVE FALSE
        OBVIOUS
      <4>2. k \in Nat /\ k # 0
        BY <1>4, <2>1, <4>1
      <4>3. k - 1 \in Nat /\ (k - 1) + 1 = k
        BY <4>2
      <4> HIDE DEF back, after
      <4>4. QED
        BY <2>1, <2>2, <4>1, <4>3
    <3>2. QED
      BY <1>2, <1>3, <1>6, <2>2, <3>1
  <2>3. CASE back # {}
    <3>1. Least(back) \in back /\ \A y \in back : Least(back) <= y
      BY <1>4, <2>3, LeastExists
    <3>2. Least(back) \in 0..(n - 1)
      BY <3>1
    <3> DEFINE b == Least(back)
    <3> HIDE DEF back, after, more, b
    <3>3. b + 1 \in after
      BY <2>1, <3>1, <3>2 DEF b
    <3>4. ASSUME NEW y \in after PROVE b + 1 <= y
      <4>1. y \in Nat /\ y # 0
        BY <1>4, <2>1, <3>4
      <4>2. y - 1 \in back
        BY <2>1, <3>4, <4>1
      <4>3. b \in Nat /\ b <= y - 1
        BY <3>1, <3>2, <4>2 DEF b
      <4>4. QED
        BY <4>1, <4>3
    <3>5. Least(after) = b + 1
      BY <1>4, <3>3, <3>4, LeastIs
    <3>6. m - (b + 1) = n - b /\ more[n - b] = events[n - b]
      BY <1>1, <3>2 DEF b
    <3>7. QED
      BY <1>2, <1>3, <1>6, <2>3, <3>3, <3>5, <3>6 DEF b, more
  <2>4. QED
    BY <2>2, <2>3
<1>7. QED
  BY <1>5, <1>6

-----------------------------------------------------------------------------
(* The operators of ProcessGraph as ProcessSemantics sees them *)

LEMMA SameNext ==
    ASSUME NEW v, NEW current, NEW doc
    PROVE  Semantics!next_step(v, current, doc) = next_step(v, current, doc)
BY DEF next_step, first_after, remaining_branches, parallel_branch_done, evaluate_branch,
       case_fails, case_matches, resolve, has_step, position, step_of, Least, Top, Par,
       Single, Fork, Finished, GraphError,
       Semantics!next_step, Semantics!first_after, Semantics!remaining_branches,
       Semantics!parallel_branch_done, Semantics!evaluate_branch, Semantics!case_fails,
       Semantics!case_matches, Semantics!resolve, Semantics!has_step, Semantics!position,
       Semantics!step_of, Semantics!Least, Semantics!Top, Semantics!Par, Semantics!Single,
       Semantics!Fork, Semantics!Finished, Semantics!GraphError

LEMMA SameStep ==
    ASSUME NEW v, NEW id
    PROVE  /\ Semantics!step_of(v, id) = step_of(v, id)
           /\ Semantics!has_step(v, id) <=> has_step(v, id)
           /\ Semantics!IsLeaf(v, id) <=> id # None /\ is_mutating_leaf(step_of(v, id).kind)
BY DEF step_of, has_step, position, is_mutating_leaf, Mutating, Semantics!step_of,
       Semantics!has_step, Semantics!position, Semantics!IsLeaf, Semantics!is_mutating_leaf,
       Semantics!Mutating

LEMMA SamePatch ==
    ASSUME NEW doc, NEW f, NEW id, NEW val
    PROVE  /\ Semantics!apply_patch(doc, id, val) = apply_patch(doc, id, val)
           /\ Semantics!apply_parallel_patch(doc, f, id, val) = apply_parallel_patch(doc, f, id, val)
           /\ Semantics!EmptyDocument = EmptyDocument
BY DEF apply_patch, apply_parallel_patch, write, Top, Par, EmptyDocument,
       Semantics!apply_patch, Semantics!apply_parallel_patch, Semantics!write, Semantics!Top,
       Semantics!Par, Semantics!EmptyDocument

\* What control may pass to.
LEMMA PassesTo ==
    ASSUME NEW v, NEW doc, NEW p
    PROVE  /\ next_step(v, p, doc).go = "single"
                 => next_step(v, p, doc).id \in Semantics!Passes(v, doc, p)
           /\ IsGate(v, p) /\ step_of(v, p).policy = "branch"
                 => step_of(v, p).to \in Semantics!Passes(v, doc, p)
BY SameNext, SameStep DEF IsGate, Semantics!Passes

-----------------------------------------------------------------------------
(* The engine's control *)

Ver == IF journal = <<>> THEN None ELSE journal[1].ver

\* The variables of ProcessSemantics, as the engine's journal and memory show them.
Shown == <<Ver, fold(journal), restored_step(journal), place_of_control>>

Passing == Semantics!Passes(live.ver, live.state, live.current)

\* One version of the graph from the first event to the memory, and a call in
\* progress that executes a step the graph allows where control stands.
ControlInv ==
    /\ \A i \in DOMAIN journal : journal[i].ver = Ver
    /\ live # None => journal # <<>> /\ live.ver = Ver
    /\ pc = "redirect" => step_of(live.ver, live.current).policy = "branch"
    /\ pc = "executing" =>
          IF pend.fork = None
          THEN /\ pend.step \in Passing
               /\ is_mutating_leaf(step_of(live.ver, pend.step).kind)
          ELSE pend.fork = live.current /\ chosen = Fork(pend.step)

\* What may be appended keeps the version.
LEMMA VersionKept ==
    ASSUME TypeInv, ControlInv, NEW e, Added(e), journal # <<>> => e.ver = Ver
    PROVE  /\ \A i \in DOMAIN journal' : journal'[i].ver = Ver'
           /\ journal # <<>> => journal' # <<>> /\ Ver' = Ver
           /\ journal = <<>> /\ journal' # <<>> => Ver' = e.ver
<1>1. journal \in Seq(Event) /\ \A i \in DOMAIN journal : journal[i].ver = Ver
  BY DEF TypeInv, TypeOK, ControlInv
<1>2. CASE journal' = journal
  BY <1>1, <1>2 DEF Ver
<1>3. CASE journal' = Append(journal, e)
  <2>1. journal' # <<>> /\ Len(journal') = Len(journal) + 1 /\ journal'[Len(journal) + 1] = e
    BY <1>1, <1>3
  <2>2. ASSUME NEW i \in DOMAIN journal', i # Len(journal) + 1
        PROVE  i \in DOMAIN journal /\ journal'[i] = journal[i]
    BY <1>1, <1>3, <2>2
  <2>3. CASE journal = <<>>
    <3>1. journal'[1] = e /\ DOMAIN journal' = {1}
      BY <1>3, <2>3
    <3>2. QED
      BY <2>1, <2>3, <3>1 DEF Ver
  <2>4. CASE journal # <<>>
    <3>1. journal'[1] = journal[1]
      BY <1>1, <1>3, <2>4
    <3>2. Ver' = Ver /\ e.ver = Ver
      BY <2>1, <2>4, <3>1 DEF Ver
    <3>3. QED
      BY <1>1, <2>1, <2>2, <2>4, <3>2
  <2>5. QED
    BY <2>3, <2>4
<1>4. QED
  BY <1>2, <1>3 DEF Added

LEMMA InitControl == Init => ControlInv
BY DEF Init, ControlInv

\* A step after which no call is in progress, or one that has passed on.
LEMMA AtRest ==
    ASSUME TypeInv, ControlInv, NEW e, Added(e), journal # <<>> => e.ver = Ver,
           pc' \in {"out", "loop", "apply"},
           live' # None => journal' # <<>> /\ live'.ver = IF journal = <<>> THEN e.ver ELSE Ver
    PROVE  ControlInv'
BY VersionKept DEF ControlInv

\* A target is a step control may pass to.
LEMMA TargetPasses ==
    ASSUME TypeInv, ControlInv, NEW t \in targets
    PROVE  t[1] \in Passing /\ place_of_control = live.current
<1>1. live # None /\ pc \in {"loop", "redirect"}
  BY TargetTyped, InstanceAssumption
<1>2. CASE Iterates /\ chosen.go = "single"
  <2>1. t[1] = chosen.id
    BY <1>2 DEF targets, Iterates, AtLoopHead
  <2>2. QED
    BY <1>1, <1>2, <2>1, PassesTo DEF chosen, Passing, place_of_control
<1>3. CASE ~(Iterates /\ chosen.go = "single") /\ pc = "redirect"
  <2>1. t[1] = step_of(live.ver, live.current).to
    BY <1>3 DEF targets
  <2>2. IsGate(live.ver, live.current)
    BY <1>3 DEF TypeInv, CallOK
  <2>3. QED
    BY <1>1, <1>3, <2>1, <2>2, PassesTo DEF ControlInv, Passing, place_of_control
<1>4. CASE ~(Iterates /\ chosen.go = "single") /\ pc # "redirect"
  BY <1>4 DEF targets
<1>5. QED
  BY <1>2, <1>3, <1>4

LEMMA CallerControl ==
    ASSUME TypeInv, ControlInv, CallerStep, MigrateTo = {}
    PROVE  ControlInv'
<1>0. journal \in Seq(Event)
  BY DEF TypeInv, TypeOK
<1>1. ASSUME NEW v \in Version, NEW input \in Inputs, instantiate(v, input)
      PROVE  ControlInv'
  <2> DEFINE e == [NewEvent("Instantiated", v) EXCEPT !.input = input]
  <2>1. e.ver = v
    BY DEF NewEvent
  <2> HIDE DEF e
  <2>2. /\ Added(e) /\ journal = <<>> /\ pc' = "out"
        /\ live' # None => journal' = Append(journal, e) /\ live'.ver = v
    BY <1>1 DEF instantiate, Call, Persists, PersistFails, Added, e
  <2>3. Append(journal, e) # <<>>
    BY <1>0, LastAppended
  <2>4. QED
    BY <2>1, <2>2, <2>3, AtRest
<1>2. ASSUME NEW v \in Version, recover(v)
      PROVE  ControlInv'
  <2>1. /\ journal' = journal /\ journal # <<>> /\ pc' = "out"
        /\ Last(journal).ver = v /\ live'.ver = v
    BY <1>2 DEF recover, Call
  <2>2. Len(journal) \in DOMAIN journal
    BY <1>0, <2>1
  <2>3. live'.ver = Ver
    BY <2>1, <2>2 DEF Last, ControlInv
  <2>4. QED
    BY <2>1, <2>3, AtRest DEF Added
<1>3. CASE run_blocked
  <2>1. journal' = journal /\ pc' = "out" /\ (live' = None \/ live' = live) /\ live # None
    BY <1>3 DEF run_blocked, CallsRun, Call
  <2>2. QED
    BY <2>1, AtRest DEF Added, ControlInv
<1>4. CASE run_enters
  <2> DEFINE e == NewEvent("HumanGateResolved", live.ver)
  <2>1. e.ver = live.ver
    BY DEF NewEvent
  <2> HIDE DEF e
  <2>2. /\ Added(e) /\ pc' \in {"out", "loop"}
        /\ live # None /\ (live' = None \/ live' = live)
    BY <1>4 DEF run_enters, CallsRun, Call, Persists, PersistFails, Added, e
  <2>3. journal' # <<>> /\ journal # <<>> /\ live.ver = Ver
    BY <1>0, <2>2, VersionKept, <2>1 DEF ControlInv
  <2>4. QED
    BY <2>1, <2>2, <2>3, AtRest
<1>5. CASE human_gate_times_out
  <2> DEFINE gate == step_of(live.ver, live.current)
  <2> DEFINE e == [NewEvent("HumanGateTimedOut", live.ver) EXCEPT !.policy = gate.policy]
  <2>1. live \in Instance /\ live # None
    BY <1>5 DEF human_gate_times_out, TypeInv, TypeOK
  <2>2. e.ver = live.ver
    BY DEF NewEvent
  <2> HIDE DEF e
  <2>3. /\ Added(e)
        /\ live' # None => live'.ver = live.ver
        /\ \/ pc' = "out"
           \/ pc' = "redirect" /\ live' = live /\ gate.policy = "branch"
    BY <1>5, <2>1 DEF human_gate_times_out, Call, Persists, PersistFails, Added, e, Instance
  <2>4. journal # <<>> /\ live.ver = Ver
    BY <2>1 DEF ControlInv
  <2>5. CASE pc' = "out"
    BY <2>2, <2>3, <2>4, <2>5, AtRest, VersionKept
  <2>6. CASE pc' = "redirect" /\ live' = live /\ gate.policy = "branch"
    BY <2>2, <2>3, <2>4, <2>6, VersionKept DEF ControlInv
  <2>7. QED
    BY <2>3, <2>5, <2>6
<1>6. QED
  BY <1>1, <1>2, <1>3, <1>4, <1>5 DEF CallerStep

LEMMA EngineControl ==
    ASSUME TypeInv, ControlInv, EngineStep, MeterVersions = {}
    PROVE  ControlInv'
<1>0. ASSUME pc # "out" PROVE live \in Instance /\ live # None /\ journal # <<>> /\ live.ver = Ver
  BY <1>0, InstanceAssumption DEF TypeInv, CallOK, ControlInv
<1>1. ASSUME NEW e, Added(e), e.ver = live.ver, pc # "out", pc' \in {"out", "loop", "apply"},
             live' # None => live'.ver = live.ver
      PROVE  ControlInv'
  BY <1>0, <1>1, AtRest, VersionKept
<1>2. NewEvent("Audit", live.ver).ver = live.ver
  BY DEF NewEvent
<1>3. CASE limit_exceeded \/ run_graph_error \/ run_finishes \/ executor_fails
  <2>1. journal' = journal /\ pc # "out" /\ pc' = "out" /\ (live' = None \/ live' = live)
    BY <1>3 DEF limit_exceeded, run_graph_error, run_finishes, executor_fails, Iterates,
                AtLoopHead, Errs, Returns
  <2>2. QED
    BY <1>1, <1>2, <2>1 DEF Added
<1>4. ASSUME NEW t \in targets,
             \/ control_step(t[1], t[2]) \/ checkpoint(t[1], t[2]) \/ human_gate(t[1])
             \/ loop_step(t[1], t[2]) \/ mutating_step(t[1], t[2])
      PROVE  ControlInv'
  <2>1. live \in Instance /\ pc # "out"
    BY <1>4, TargetTyped
  <2>2. CASE human_gate(t[1])
    <3> DEFINE e == [NewEvent("HumanGateOpened", live.ver) EXCEPT !.step = t[1]]
    <3>1. e.ver = live.ver
      BY DEF NewEvent
    <3> HIDE DEF e
    <3>2. Added(e) /\ pc' = "out" /\ (live' = None \/ live'.ver = live.ver)
      BY <2>1, <2>2 DEF human_gate, PersistFails, Persists, Returns, Errs, Added, e, Instance
    <3>3. QED
      BY <1>1, <2>1, <3>1, <3>2
  <2>3. CASE control_step(t[1], t[2]) \/ checkpoint(t[1], t[2]) \/ loop_step(t[1], t[2])
    <3>1. journal' = journal /\ pc' \in {"out", "loop"} /\ (live' = None \/ live'.ver = live.ver)
      BY <2>1, <2>3 DEF control_step, checkpoint, loop_step, Errs, StepDone, Instance
    <3>2. QED
      BY <1>1, <1>2, <2>1, <3>1 DEF Added
  <2>4. CASE mutating_step(t[1], t[2])
    <3>1. /\ UNCHANGED <<journal, live>> /\ pc' = "executing"
          /\ pend'.fork = None /\ pend'.step = t[1]
          /\ is_mutating_leaf(step_of(live.ver, t[1]).kind)
      BY <2>4 DEF mutating_step, Executing
    <3>2. t[1] \in Passing
      BY <1>4, TargetPasses
    <3>3. Passing' = Passing
      BY <3>1 DEF Passing, Semantics!Passes
    <3>4. QED
      BY <3>1, <3>2, <3>3 DEF ControlInv, Ver
  <2>5. QED
    BY <1>4, <2>2, <2>3, <2>4
<1>5. CASE fork_branch
  <2>1. /\ UNCHANGED <<journal, live>> /\ pc' = "executing" /\ chosen.go = "fork"
        /\ pend'.fork = live.current /\ pend'.step = chosen.id
    BY <1>5 DEF fork_branch, Executing
  <2>2. pend'.fork # None
    BY <2>1 DEF chosen, next_step, Single
  <2>3. chosen' = chosen
    BY <2>1 DEF chosen
  <2>4. chosen = Fork(chosen.id)
    BY <2>1 DEF chosen, next_step, Single, GraphError, evaluate_branch, first_after, Finished, Fork
  <2>5. QED
    BY <2>1, <2>2, <2>3, <2>4 DEF ControlInv, Ver
<1>6. ASSUME NEW ver \in Version, executor_journals(ver)
      PROVE  ControlInv'
  <2>1. /\ pc = "executing" /\ pc' = "executing" /\ live' = live /\ ver = live.ver
        /\ Added(NewEvent("Audit", ver)) /\ pend' = [pend EXCEPT !.audited = TRUE] /\ pend \in Pending
    BY <1>6 DEF executor_journals, Persists, Added, TypeInv, CallOK
  <2>2. pend'.fork = pend.fork /\ pend'.step = pend.step
    BY <2>1 DEF Pending
  <2>3. Passing' = Passing /\ chosen' = chosen
    BY <2>1 DEF Passing, chosen, Semantics!Passes
  <2>4. live # None /\ journal # <<>> /\ live.ver = Ver
    BY <1>0, <2>1
  <2>5. /\ \A i \in DOMAIN journal' : journal'[i].ver = Ver'
        /\ journal' # <<>> /\ Ver' = Ver
    BY <1>2, <2>1, <2>4, VersionKept
  <2>6. QED
    BY <2>1, <2>2, <2>3, <2>4, <2>5 DEF ControlInv
<1>7. ASSUME NEW val \in Value, patch_appended(val)
      PROVE  ControlInv'
  <2> DEFINE kind == IF pend.fork = None THEN "StepApplied" ELSE "ParallelStepApplied"
  <2> DEFINE e == [NewEvent(kind, live.ver) EXCEPT !.fork = pend.fork, !.step = pend.step, !.val = val]
  <2>1. e.ver = live.ver
    BY DEF NewEvent
  <2> HIDE DEF kind, e
  <2>2. /\ Added(e) /\ pc # "out" /\ pc' \in {"out", "apply"}
        /\ live' = None \/ live' = live
    BY <1>7 DEF patch_appended, Persists, PersistFails, Errs, Added, kind, e
  <2>3. QED
    BY <1>1, <2>1, <2>2
<1>8. CASE patch_applied
  <2>1. pc = "apply" /\ live \in Instance
    BY <1>8 DEF patch_applied, TypeInv, CallOK
  <2>2. journal' = journal /\ pc' \in {"out", "loop"} /\ (live' = None \/ live'.ver = live.ver)
    BY <1>8, <2>1 DEF patch_applied, StepDone, Errs, Instance
  <2>3. QED
    BY <1>1, <1>2, <2>1, <2>2 DEF Added
<1>9. QED
  BY <1>3, <1>4, <1>5, <1>6, <1>7, <1>8 DEF EngineStep

-----------------------------------------------------------------------------
(* Every step of the engine is one of the interpreter *)

LEMMA InitShown == Init => Semantics!Init
<1> SUFFICES ASSUME Init PROVE Semantics!Init
  OBVIOUS
<1>1. \A p \in Path : last_written(<<>>, p) = {}
  BY DEF last_written
<1>2. fold(<<>>) = EmptyDocument
  BY <1>1 DEF fold, EmptyDocument
<1>3. restored_step(<<>>) = None
  BY DEF restored_step
<1>4. QED
  BY <1>2, <1>3, SamePatch DEF Init, Semantics!Init, place_of_control

\* A step that appends no patch: control stays, or goes back to the last patch.
LEMMA QuietShown ==
    ASSUME TypeInv, ControlInv, NEW e \in Event, e.kind \in Silent,
           Added(e), journal # <<>>, e.ver = Ver,
           place_of_control' \in {place_of_control, restored_step(journal')}
    PROVE  [Semantics!Next]_Shown
<1>1. Ver' = Ver
  BY VersionKept
<1>2. fold(journal') = fold(journal) /\ restored_step(journal') = restored_step(journal)
  <2>1. CASE journal' = journal
    BY <2>1
  <2>2. CASE Persists(e)
    BY <2>2, SilentAppend, RestoredAppend DEF Persists, Silent, TypeInv, TypeOK
  <2>3. QED
    BY <2>1, <2>2 DEF Added, Persists
<1>3. CASE place_of_control' = place_of_control
  BY <1>1, <1>2, <1>3 DEF Shown
<1>4. CASE place_of_control' = restored_step(journal')
  <2>1. Semantics!Stop
    BY <1>1, <1>2, <1>4 DEF Semantics!Stop, Ver
  <2>2. QED
    BY <2>1 DEF Semantics!Next
<1>5. QED
  BY <1>3, <1>4

\* The same for a step that leaves the journal alone.
LEMMA SilentShown ==
    ASSUME journal' = journal,
           place_of_control' \in {place_of_control, restored_step(journal)}
    PROVE  [Semantics!Next]_Shown
<1>1. CASE place_of_control' = place_of_control
  BY <1>1 DEF Shown, Ver
<1>2. CASE place_of_control' = restored_step(journal)
  BY <1>2 DEF Semantics!Stop, Semantics!Next
<1>3. QED
  BY <1>1, <1>2

\* Control passes to a step that is no leaf.
LEMMA PassShown ==
    ASSUME TypeInv, FoldInv, ControlInv, pc \in {"loop", "redirect"},
           NEW t \in targets, ~is_mutating_leaf(step_of(live.ver, t[1]).kind),
           NEW e \in Event, e.kind \in Silent, Added(e), e.ver = Ver,
           place_of_control' = t[1]
    PROVE  [Semantics!Next]_Shown
<1>1. live \in Instance /\ live # None /\ journal # <<>> /\ live.ver = Ver
      /\ live.state = fold(journal)
  BY InstanceAssumption DEF TypeInv, CallOK, ControlInv, FoldInv, LiveFolds
<1>2. fold(journal') = fold(journal) /\ restored_step(journal') = restored_step(journal)
  <2>1. CASE journal' = journal
    BY <2>1
  <2>2. CASE Persists(e)
    BY <2>2, SilentAppend, RestoredAppend DEF Persists, Silent, TypeInv, TypeOK
  <2>3. QED
    BY <2>1, <2>2 DEF Added, Persists
<1>3. Ver' = Ver /\ Ver # None
  BY <1>1, VersionKept, NoneAssumption DEF Instance
<1>4. t[1] \in Semantics!Passes(Ver, fold(journal), place_of_control)
  BY <1>1, TargetPasses DEF Passing
<1>5. ~Semantics!IsLeaf(Ver, t[1])
  BY <1>1, SameStep
<1>6. Semantics!Pass
  BY <1>2, <1>3, <1>4, <1>5 DEF Semantics!Pass, Ver
<1>7. QED
  BY <1>6 DEF Semantics!Next

\* The append of a patch, whether or not the call lives to see it.
LEMMA PatchShown ==
    ASSUME TypeInv, FoldInv, ControlInv, ~(StorageFaults /\ CallerRetries),
           NEW val \in Value, patch_appended(val), journal' # journal
    PROVE  Semantics!Apply \/ Semantics!ApplyBranch
<1> DEFINE kind == IF pend.fork = None THEN "StepApplied" ELSE "ParallelStepApplied"
<1> DEFINE e == [NewEvent(kind, live.ver) EXCEPT !.fork = pend.fork, !.step = pend.step, !.val = val]
<1>1. /\ live \in Instance /\ live # None /\ pend \in Pending /\ pc = "executing"
      /\ journal # <<>> /\ live.ver = Ver /\ live.state = fold(journal)
  BY InstanceAssumption DEF patch_appended, TypeInv, CallOK, ControlInv, FoldInv, LiveFolds
<1>2. /\ e \in Event /\ e.kind = kind /\ e.ver = live.ver
      /\ e.fork = pend.fork /\ e.step = pend.step /\ e.val = val
  BY <1>1 DEF NewEvent, Event, Kind, Instance, Pending
<1>3. journal \in Seq(Event) /\ JournalOK(journal)
  BY DEF TypeInv, TypeOK, CallOK
<1> HIDE DEF e
<1>4. /\ journal' = Append(journal, e)
      /\ \/ live' = None
         \/ pc' = "apply" /\ pend' = [pend EXCEPT !.val = val] /\ live' = live
  BY DEF patch_appended, Persists, PersistFails, Errs, e
<1>5. Ver' = Ver /\ Ver # None
  BY <1>1, <1>2, <1>4, VersionKept, NoneAssumption DEF Added, Instance
<1>6. pend' = [pend EXCEPT !.val = val] => pend'.fork = pend.fork /\ pend'.step = pend.step
  BY <1>1 DEF Pending
<1>7. place_of_control = live.current
  BY <1>1 DEF place_of_control
<1>8. CASE pend.fork = None
  <2>1. kind = "StepApplied" /\ pend.step \in StepId
    BY <1>1, <1>8 DEF Pending
  <2>2. restored_step(journal') = pend.step
    BY <1>2, <1>3, <1>4, <2>1, RestoredAppend
  <2>3. fold(journal') = apply_patch(fold(journal), pend.step, val)
    BY <1>2, <1>3, <1>4, <2>1, FoldPatch
  <2>4. place_of_control' = pend.step
    BY <1>1, <1>4, <1>6, <1>8, <2>2 DEF place_of_control
  <2>5. /\ pend.step \in Semantics!Passes(Ver, fold(journal), place_of_control)
        /\ is_mutating_leaf(step_of(Ver, pend.step).kind)
    BY <1>1, <1>7, <1>8 DEF ControlInv, Passing
  <2>6. Semantics!IsLeaf(Ver, pend.step)
    BY <2>1, <2>5, SameStep, NoneAssumption
  <2>7. fold(journal') = Semantics!apply_patch(fold(journal), pend.step, val)
    BY <2>3, SamePatch
  <2>8. Semantics!Apply
    BY <1>5, <2>2, <2>4, <2>5, <2>6, <2>7 DEF Semantics!Apply, Ver
  <2>9. QED
    BY <2>8
<1>9. CASE pend.fork # None
  <2>1. kind = "ParallelStepApplied"
    BY <1>9
  <2>2. restored_step(journal') = restored_step(journal)
    BY <1>2, <1>3, <1>4, <2>1, RestoredAppend
  <2>3. pend.fork = live.current /\ next_step(Ver, live.current, fold(journal)) = Fork(pend.step)
    BY <1>1, <1>9 DEF ControlInv, chosen
  <2>4. fold(journal') = apply_parallel_patch(fold(journal), live.current, pend.step, val)
    BY <1>2, <1>3, <1>4, <2>1, <2>3, FoldPatch
  <2>5. place_of_control' \in {place_of_control, restored_step(journal)}
    BY <1>1, <1>4, <1>6, <1>7, <1>9, <2>2 DEF place_of_control
  <2>6. /\ Semantics!next_step(Ver, place_of_control, fold(journal)).go = "fork"
        /\ Semantics!next_step(Ver, place_of_control, fold(journal)).id = pend.step
    BY <1>7, <2>3, SameNext DEF Fork
  <2>7. fold(journal') = Semantics!apply_parallel_patch(fold(journal), place_of_control, pend.step, val)
    BY <1>7, <2>4, SamePatch
  <2>8. Semantics!ApplyBranch
    BY <1>5, <2>2, <2>5, <2>6, <2>7 DEF Semantics!ApplyBranch, Ver
  <2>9. QED
    BY <2>8
<1>10. QED
  BY <1>8, <1>9

LEMMA CallerShown ==
    ASSUME TypeInv, FoldInv, ControlInv, CallerStep, Inputs \subseteq Document,
           ~(StorageFaults /\ CallerRetries), MigrateTo = {}
    PROVE  [Semantics!Next]_Shown
<1>0. journal \in Seq(Event)
  BY DEF TypeInv, TypeOK
<1>1. ASSUME NEW v \in Version, NEW input \in Inputs, instantiate(v, input)
      PROVE  [Semantics!Next]_Shown
  <2> DEFINE e == [NewEvent("Instantiated", v) EXCEPT !.input = input]
  <2>1. e \in Event /\ e.kind = "Instantiated" /\ e.ver = v /\ e.input = input /\ input \in Document
    BY DEF NewEvent, Event, Kind, State
  <2> HIDE DEF e
  <2>2. /\ Added(e) /\ journal = <<>> /\ live = None /\ pc' = "out"
        /\ live' # None => journal' = Append(journal, e) /\ live'.current = None
    BY <1>1 DEF instantiate, Call, Persists, PersistFails, Added, e
  <2>3. CASE journal' = journal
    <3>1. live' = None
      BY <1>0, <2>2, <2>3, LastAppended
    <3>2. place_of_control' = restored_step(journal)
      BY <2>3, <3>1 DEF place_of_control
    <3>3. QED
      BY <2>3, <3>2, SilentShown
  <2>4. CASE journal' = Append(journal, e)
    <3>1. Ver' = v /\ Ver = None
      BY <1>0, <2>1, <2>2, <2>4, VersionKept, LastAppended DEF Ver
    <3>2. fold(journal') = input
      BY <2>1, <2>2, <2>4, FoldStart
    <3>3. restored_step(journal') = None
      <4>1. restored_step(<<>>) = None
        BY DEF restored_step
      <4>2. QED
        BY <1>0, <2>1, <2>2, <2>4, <4>1, RestoredAppend
    <3>4. place_of_control' = None
      BY <2>2, <3>3 DEF place_of_control
    <3>5. Semantics!Start
      BY <3>1, <3>2, <3>3, <3>4 DEF Semantics!Start, Ver
    <3>6. QED
      BY <3>5 DEF Semantics!Next
  <2>5. QED
    BY <2>2, <2>3, <2>4 DEF Added
<1>2. ASSUME NEW v \in Version, recover(v)
      PROVE  [Semantics!Next]_Shown
  <2>1. journal' = journal /\ pc' = "out" /\ live'.current = restored_step(journal)
    BY <1>2 DEF recover, Call
  <2>2. QED
    BY <2>1, SilentShown DEF place_of_control
<1>3. CASE run_blocked
  <2>1. journal' = journal /\ pc' = "out" /\ pc = "out" /\ (live' = None \/ live' = live) /\ live # None
    BY <1>3 DEF run_blocked, CallsRun, Call
  <2>2. QED
    BY <2>1, SilentShown DEF place_of_control
<1>4. CASE run_enters
  <2> DEFINE e == NewEvent("HumanGateResolved", live.ver)
  <2>1. /\ Added(e) /\ pc' \in {"out", "loop"} /\ pc = "out"
        /\ live # None /\ (live' = None \/ live' = live)
    BY <1>4 DEF run_enters, CallsRun, Call, Persists, PersistFails, Added
  <2>2. live \in Instance /\ journal # <<>> /\ live.ver = Ver
    BY <2>1 DEF TypeInv, TypeOK, ControlInv
  <2>3. e \in Event /\ e.kind \in Silent /\ e.ver = Ver
    BY <2>2, NewEventTyped DEF NewEvent, Kind, Silent, Instance
  <2> HIDE DEF e
  <2>4. QED
    BY <2>1, <2>2, <2>3, QuietShown DEF place_of_control
<1>5. CASE human_gate_times_out
  <2> DEFINE gate == step_of(live.ver, live.current)
  <2> DEFINE e == [NewEvent("HumanGateTimedOut", live.ver) EXCEPT !.policy = gate.policy]
  <2>1. live \in Instance /\ live # None /\ journal # <<>> /\ live.ver = Ver /\ gate \in Step
    BY <1>5, StepTyped DEF human_gate_times_out, IsGate, TypeInv, TypeOK, Instance, ControlInv
  <2>2. e \in Event /\ e.kind \in Silent /\ e.ver = Ver
    BY <2>1 DEF NewEvent, Event, Kind, Step, Instance, Silent
  <2> HIDE DEF e
  <2>3. /\ Added(e) /\ pc = "out" /\ pc' \in {"out", "redirect"}
        /\ live' = None \/ live'.current = live.current
    BY <1>5, <2>1 DEF human_gate_times_out, Call, Persists, PersistFails, Added, e, Instance
  <2>4. QED
    BY <2>1, <2>2, <2>3, QuietShown DEF place_of_control
<1>6. QED
  BY <1>1, <1>2, <1>3, <1>4, <1>5 DEF CallerStep

LEMMA EngineShown ==
    ASSUME TypeInv, FoldInv, ControlInv, EngineStep, ~(StorageFaults /\ CallerRetries),
           MeterVersions = {}
    PROVE  [Semantics!Next]_Shown
<1>0. ASSUME pc # "out" PROVE live \in Instance /\ live # None /\ journal # <<>> /\ live.ver = Ver
  BY <1>0, InstanceAssumption DEF TypeInv, CallOK, ControlInv
<1>1. CASE limit_exceeded \/ run_graph_error \/ run_finishes \/ executor_fails
  <2>1. /\ journal' = journal /\ pc \in {"loop", "executing"} /\ pc' = "out"
        /\ live' = None \/ live' = live
    BY <1>1 DEF limit_exceeded, run_graph_error, run_finishes, executor_fails, Iterates,
                AtLoopHead, Errs, Returns
  <2>2. QED
    BY <1>0, <2>1, SilentShown DEF place_of_control
<1>2. ASSUME NEW t \in targets,
             \/ control_step(t[1], t[2]) \/ checkpoint(t[1], t[2]) \/ human_gate(t[1])
             \/ loop_step(t[1], t[2]) \/ mutating_step(t[1], t[2])
      PROVE  [Semantics!Next]_Shown
  <2>1. /\ live \in Instance /\ live # None /\ pc \in {"loop", "redirect"} /\ t[1] \in StepId
        /\ live.ver = Ver
    BY <1>0, <1>2, TargetTyped
  <2> DEFINE none == NewEvent("Audit", live.ver)
  <2>2. none \in Event /\ none.kind \in Silent /\ none.ver = Ver
    BY <2>1, NewEventTyped DEF NewEvent, Kind, Silent, Instance
  <2> HIDE DEF none
  <2>3. CASE live' = None /\ journal' = journal
    BY <2>3, SilentShown DEF place_of_control
  <2>4. CASE control_step(t[1], t[2]) \/ (checkpoint(t[1], t[2]) /\ live' # None /\ ~Errs(live))
    <3>1. /\ journal' = journal /\ live'.current = t[1] /\ live' # None /\ pc' \in {"out", "loop"}
          /\ ~is_mutating_leaf(step_of(live.ver, t[1]).kind)
      BY <2>1, <2>4, InstanceAssumption
         DEF control_step, checkpoint, StepDone, is_mutating_leaf, Mutating, Instance
    <3>2. place_of_control' = t[1]
      BY <3>1 DEF place_of_control
    <3>3. QED
      BY <1>2, <2>1, <2>2, <3>1, <3>2, PassShown DEF Added
  <2>5. CASE loop_step(t[1], t[2]) \/ (checkpoint(t[1], t[2]) /\ Errs(live))
    <3>1. journal' = journal /\ (live' = None \/ live' = live) /\ pc' = "out"
      BY <2>5 DEF loop_step, checkpoint, Errs
    <3>2. QED
      BY <2>1, <3>1, SilentShown DEF place_of_control
  <2>6. CASE human_gate(t[1])
    <3> DEFINE e == [NewEvent("HumanGateOpened", live.ver) EXCEPT !.step = t[1]]
    <3> DEFINE inst == [live EXCEPT !.current = t[1]]
    <3>1. e \in Event /\ e.kind \in Silent /\ e.ver = Ver
      BY <2>1 DEF NewEvent, Event, Kind, Silent, Instance
    <3>2. inst \in Instance /\ inst.current = t[1]
      BY <2>1 DEF Instance
    <3>3. ~is_mutating_leaf(step_of(live.ver, t[1]).kind)
      BY <2>6 DEF human_gate, is_mutating_leaf, Mutating
    <3>4. /\ Added(e) /\ pc' = "out"
          /\ \/ live' = inst
             \/ StorageFaults /\ live' = (IF CallerRetries THEN inst ELSE None)
      BY <2>6 DEF human_gate, Persists, PersistFails, Added, Returns, Errs
    <3> HIDE DEF e, inst
    <3>5. CASE live' = inst
      <4>1. place_of_control' = t[1]
        BY <3>2, <3>4, <3>5, InstanceAssumption DEF place_of_control
      <4>2. QED
        BY <1>2, <2>1, <3>1, <3>3, <3>4, <4>1, PassShown
    <3>6. CASE live' = None
      <4>1. place_of_control' = restored_step(journal')
        BY <3>6 DEF place_of_control
      <4>2. QED
        BY <1>0, <2>1, <3>1, <3>4, <4>1, QuietShown
    <3>7. QED
      BY <3>4, <3>5, <3>6
  <2>7. CASE mutating_step(t[1], t[2])
    <3>1. UNCHANGED <<journal, live>> /\ pc' = "executing"
      BY <2>7 DEF mutating_step, Executing
    <3>2. QED
      BY <2>1, <3>1, SilentShown DEF place_of_control
  <2>8. checkpoint(t[1], t[2]) => journal' = journal
    BY DEF checkpoint
  <2>9. QED
    BY <1>2, <2>3, <2>4, <2>5, <2>6, <2>7, <2>8
<1>3. CASE fork_branch
  <2>1. UNCHANGED <<journal, live>> /\ pc' = "executing" /\ pc = "loop"
    BY <1>3 DEF fork_branch, Iterates, AtLoopHead, Executing
  <2>2. QED
    BY <2>1, SilentShown DEF place_of_control
<1>4. ASSUME NEW ver \in Version, executor_journals(ver)
      PROVE  [Semantics!Next]_Shown
  <2>1. /\ Added(NewEvent("Audit", ver)) /\ ver = live.ver
        /\ UNCHANGED <<live, pc>> /\ pc = "executing"
    BY <1>4 DEF executor_journals, Persists, Added
  <2>2. /\ NewEvent("Audit", ver) \in Event /\ NewEvent("Audit", ver).kind \in Silent
        /\ NewEvent("Audit", ver).ver = ver
    BY NewEventTyped DEF NewEvent, Kind, Silent
  <2>3. QED
    BY <1>0, <2>1, <2>2, QuietShown DEF place_of_control
<1>5. ASSUME NEW val \in Value, patch_appended(val)
      PROVE  [Semantics!Next]_Shown
  <2>1. CASE journal' = journal
    <3>1. pc = "executing" /\ pc' \in {"out", "apply"} /\ (live' = None \/ live' = live)
      BY <1>5 DEF patch_appended, Errs
    <3>2. journal \in Seq(Event)
      BY DEF TypeInv, TypeOK
    <3>3. \A e : journal # Append(journal, e)
      <4> TAKE e
      <4>1. Len(Append(journal, e)) = Len(journal) + 1 /\ Len(journal) \in Nat
        BY <3>2
      <4>2. QED
        BY <4>1
    <3>4. pc' = "out" /\ live' = IF CallerRetries THEN live ELSE None
      BY <1>5, <2>1, <3>3 DEF patch_appended, Persists, Errs
    <3>5. QED
      BY <1>0, <2>1, <3>1, <3>4, SilentShown DEF place_of_control
  <2>2. CASE journal' # journal
    BY <1>5, <2>2, PatchShown DEF Semantics!Next
  <2>3. QED
    BY <2>1, <2>2
<1>6. CASE patch_applied
  <2>1. live \in Instance /\ live # None /\ pend \in Pending /\ pc = "apply" /\ journal' = journal
    BY <1>6, <1>0 DEF patch_applied, TypeInv, CallOK
  <2>2. /\ pc' \in {"out", "loop"}
        /\ \/ live' = None
           \/ live'.current = IF pend.fork = None THEN pend.step ELSE live.current
    <3>1. CASE StorageFaults /\ Errs([live EXCEPT !.state = patched])
      BY <3>1 DEF Errs
    <3>2. CASE ~(StorageFaults /\ Errs([live EXCEPT !.state = patched]))
      BY <1>6, <2>1, <3>2 DEF patch_applied, StepDone, Instance
    <3>3. QED
      BY <3>1, <3>2
  <2>3. QED
    BY <2>1, <2>2, SilentShown DEF place_of_control
<1>7. QED
  BY <1>1, <1>2, <1>3, <1>4, <1>5, <1>6 DEF EngineStep

LEMMA StepControl ==
    ASSUME TypeInv, FoldInv, ControlInv, [Next]_vars, Inputs \subseteq Document,
           ~(StorageFaults /\ CallerRetries), MigrateTo = {}, MeterVersions = {}
    PROVE  (TypeInv /\ FoldInv /\ ControlInv)'
<1>1. TypeInv' /\ FoldInv'
  BY StepTypedInv, StepFold
<1>2. CASE process_ends
  <2>1. journal' = journal /\ live' = None /\ pc' = "out"
    BY <1>2 DEF process_ends
  <2>2. QED
    BY <1>1, <2>1 DEF ControlInv, Ver
<1>3. CASE UNCHANGED vars
  BY <1>1, <1>3 DEF vars, ControlInv, Ver, chosen, Passing, Semantics!Passes
<1>4. QED
  BY <1>1, <1>2, <1>3, CallerControl, EngineControl DEF Next

LEMMA StepShown ==
    ASSUME TypeInv, FoldInv, ControlInv, [Next]_vars, Inputs \subseteq Document,
           ~(StorageFaults /\ CallerRetries), MigrateTo = {}, MeterVersions = {}
    PROVE  [Semantics!Next]_Shown
<1>1. CASE process_ends
  <2>1. journal' = journal /\ live' = None
    BY <1>1 DEF process_ends
  <2>2. QED
    BY <2>1, SilentShown DEF place_of_control
<1>2. CASE UNCHANGED vars
  BY <1>2, SilentShown DEF vars, place_of_control
<1>3. QED
  BY <1>1, <1>2, CallerShown, EngineShown DEF Next

\* The engine implements the interpreter of docs/arch/process-engine.md: whatever
\* the graph, and wherever a call, a write or the OS process ends, each appended
\* patch is one the graph allows where control stands, and all that is ever lost
\* is the way control went since the last patch.  The instance keeps its version,
\* and the caller drops it after a storage error.
THEOREM EngineImplements ==
    ASSUME Inputs \subseteq Document, ~(StorageFaults /\ CallerRetries),
           MigrateTo = {}, MeterVersions = {}
    PROVE  Spec => Implements
<1>1. Init => TypeInv /\ FoldInv /\ ControlInv /\ Semantics!Init
  BY InitTyped, InitFold, InitControl, InitShown
<1>2. TypeInv /\ FoldInv /\ ControlInv /\ [Next]_vars => (TypeInv /\ FoldInv /\ ControlInv)'
  BY StepControl
<1>3. TypeInv /\ FoldInv /\ ControlInv /\ [Next]_vars => [Semantics!Next]_Shown
  BY StepShown
<1>4. QED
  BY <1>1, <1>2, <1>3, PTL DEF Spec, Implements, Semantics!Spec, Shown, Ver

-----------------------------------------------------------------------------
(* What a journal shows *)

Applied == {"StepApplied", "ParallelStepApplied"}

\* A caller's input that has nothing under the forks of the process.
NoBranches(input) ==
    input # Scalar => \A p \in Path : p[1] = "parallel" => input[p] = Absent

CleanInv ==
    \A i \in DOMAIN journal : journal[i].kind = "Instantiated" => NoBranches(journal[i].input)

\* What the engine appends: the caller's input, the patch of the step in
\* execution, or an event without a patch.
Appendable(e) ==
    /\ e.kind = "Instantiated" => NoBranches(e.input)
    /\ e.kind \in Applied =>
          /\ pc = "executing"
          /\ e.kind = IF pend.fork = None THEN "StepApplied" ELSE "ParallelStepApplied"
          /\ e.fork = pend.fork /\ e.step = pend.step

LEMMA CallerGrows ==
    ASSUME TypeInv, CallerStep
    PROVE  journal' = journal \/ \E e \in Event : journal' = Append(journal, e) /\ Appendable(e)
<1>1. ASSUME NEW v \in Version, NEW input \in Inputs, instantiate(v, input), journal' # journal
      PROVE  \E e \in Event : journal' = Append(journal, e) /\ Appendable(e)
  <2> DEFINE e == [NewEvent("Instantiated", v) EXCEPT !.input = input]
  <2>1. e \in Event /\ e.kind = "Instantiated" /\ e.input = input
    BY ConstantsAssumption DEF NewEvent, Event, Kind
  <2> HIDE DEF e
  <2>2. journal' = Append(journal, e) /\ NoBranches(input)
    BY <1>1 DEF instantiate, Persists, PersistFails, NoBranches, e
  <2>3. QED
    BY <2>1, <2>2 DEF Appendable, Applied
<1>2. ASSUME NEW e \in Event, Added(e), e.kind \in Silent
      PROVE  journal' = journal \/ \E x \in Event : journal' = Append(journal, x) /\ Appendable(x)
  BY <1>2 DEF Added, Appendable, Silent, Applied
<1>3. ASSUME NEW v \in MigrateTo, migrate_version(v)
      PROVE  journal' = journal \/ \E x \in Event : journal' = Append(journal, x) /\ Appendable(x)
  <2>1. Added(VersionMigrated(v))
    BY <1>3 DEF migrate_version, Persists, PersistFails, Added
  <2>2. VersionMigrated(v) \in Event /\ VersionMigrated(v).kind \in Silent
    BY ConstantsAssumption, NewEventTyped DEF VersionMigrated, NewEvent, Kind, Silent
  <2>3. QED
    BY <1>2, <2>1, <2>2
<1>4. CASE run_enters
  <2>1. Added(NewEvent("HumanGateResolved", live.ver)) /\ live \in Instance
    BY <1>4 DEF run_enters, CallsRun, Persists, PersistFails, Added, TypeInv, TypeOK
  <2>2. /\ NewEvent("HumanGateResolved", live.ver) \in Event
        /\ NewEvent("HumanGateResolved", live.ver).kind \in Silent
    BY <2>1, NewEventTyped DEF NewEvent, Kind, Silent, Instance
  <2>3. QED
    BY <1>2, <2>1, <2>2
<1>5. CASE human_gate_times_out
  <2> DEFINE gate == step_of(live.ver, live.current)
  <2> DEFINE e == [NewEvent("HumanGateTimedOut", live.ver) EXCEPT !.policy = gate.policy]
  <2>1. live \in Instance /\ gate \in Step
    BY <1>5, StepTyped DEF human_gate_times_out, IsGate, TypeInv, TypeOK, Instance
  <2>2. e \in Event /\ e.kind \in Silent
    BY <2>1 DEF NewEvent, Event, Kind, Step, Instance, Silent
  <2> HIDE DEF e
  <2>3. Added(e)
    BY <1>5 DEF human_gate_times_out, Persists, PersistFails, Added, e
  <2>4. QED
    BY <1>2, <2>2, <2>3
<1>6. (\E v \in Version : recover(v)) \/ run_blocked => journal' = journal
  BY DEF recover, run_blocked
<1>7. QED
  BY <1>1, <1>3, <1>4, <1>5, <1>6 DEF CallerStep

LEMMA EngineGrows ==
    ASSUME TypeInv, EngineStep
    PROVE  journal' = journal \/ \E e \in Event : journal' = Append(journal, e) /\ Appendable(e)
<1>1. ASSUME NEW e \in Event, Added(e), e.kind \in Silent
      PROVE  journal' = journal \/ \E x \in Event : journal' = Append(journal, x) /\ Appendable(x)
  BY <1>1 DEF Added, Appendable, Silent, Applied
<1>2. CASE limit_exceeded \/ run_graph_error \/ run_finishes \/ executor_fails \/ fork_branch \/ patch_applied
  BY <1>2 DEF limit_exceeded, run_graph_error, run_finishes, executor_fails, fork_branch,
              patch_applied, Executing
<1>3. ASSUME NEW t \in targets,
             \/ control_step(t[1], t[2]) \/ checkpoint(t[1], t[2])
             \/ loop_step(t[1], t[2]) \/ mutating_step(t[1], t[2])
      PROVE  journal' = journal
  BY <1>3 DEF control_step, checkpoint, loop_step, mutating_step, Executing
<1>4. ASSUME NEW t \in targets, human_gate(t[1])
      PROVE  journal' = journal \/ \E x \in Event : journal' = Append(journal, x) /\ Appendable(x)
  <2> DEFINE e == [NewEvent("HumanGateOpened", live.ver) EXCEPT !.step = t[1]]
  <2>1. live \in Instance /\ t[1] \in StepId
    BY TargetTyped
  <2>2. e \in Event /\ e.kind \in Silent
    BY <2>1 DEF NewEvent, Event, Kind, Silent, Instance
  <2> HIDE DEF e
  <2>3. Added(e)
    BY <1>4 DEF human_gate, Persists, PersistFails, Added, e
  <2>4. QED
    BY <1>1, <2>2, <2>3
<1>5. ASSUME NEW ver \in Version, executor_journals(ver)
      PROVE  journal' = journal \/ \E x \in Event : journal' = Append(journal, x) /\ Appendable(x)
  <2>1. Added(NewEvent("Audit", ver))
    BY <1>5 DEF executor_journals, Persists, Added
  <2>2. NewEvent("Audit", ver) \in Event /\ NewEvent("Audit", ver).kind \in Silent
    BY NewEventTyped DEF NewEvent, Kind, Silent
  <2>3. QED
    BY <1>1, <2>1, <2>2
<1>6. ASSUME NEW val \in Value, patch_appended(val)
      PROVE  journal' = journal \/ \E x \in Event : journal' = Append(journal, x) /\ Appendable(x)
  <2> DEFINE kind == IF pend.fork = None THEN "StepApplied" ELSE "ParallelStepApplied"
  <2> DEFINE e == [NewEvent(kind, live.ver) EXCEPT !.fork = pend.fork, !.step = pend.step, !.val = val]
  <2>1. live \in Instance /\ pend \in Pending /\ pc = "executing"
    BY <1>6 DEF patch_appended, TypeInv, CallOK
  <2>2. e \in Event /\ e.kind = kind /\ e.fork = pend.fork /\ e.step = pend.step
    BY <2>1 DEF NewEvent, Event, Kind, Instance, Pending
  <2> HIDE DEF e
  <2>3. Added(e)
    BY <1>6 DEF patch_appended, Persists, PersistFails, Added, e
  <2>4. Appendable(e)
    BY <2>1, <2>2 DEF Appendable
  <2>5. QED
    BY <2>2, <2>3, <2>4 DEF Added
<1>7. QED
  BY <1>2, <1>3, <1>4, <1>5, <1>6 DEF EngineStep

LEMMA Grows ==
    ASSUME TypeInv, [Next]_vars
    PROVE  journal' = journal \/ \E e \in Event : journal' = Append(journal, e) /\ Appendable(e)
<1>1. process_ends \/ UNCHANGED vars => journal' = journal
  BY DEF process_ends, vars
<1>2. QED
  BY <1>1, CallerGrows, EngineGrows DEF Next

LEMMA StepClean ==
    ASSUME TypeInv, CleanInv, [Next]_vars
    PROVE  CleanInv'
<1>1. CASE journal' = journal
  BY <1>1 DEF CleanInv
<1>2. ASSUME NEW e \in Event, journal' = Append(journal, e), Appendable(e)
      PROVE  CleanInv'
  <2>1. journal \in Seq(Event)
    BY DEF TypeInv, TypeOK
  <2>2. ASSUME NEW i \in DOMAIN journal', journal'[i].kind = "Instantiated"
        PROVE  NoBranches(journal'[i].input)
    <3>1. CASE i \in DOMAIN journal
      <4>1. journal'[i] = journal[i]
        BY <1>2, <2>1, <3>1
      <4>2. QED
        BY <2>2, <3>1, <4>1 DEF CleanInv
    <3>2. CASE i \notin DOMAIN journal
      <4>1. journal'[i] = e
        BY <1>2, <2>1, <3>2
      <4>2. QED
        BY <1>2, <2>2, <4>1 DEF Appendable
    <3>3. QED
      BY <3>1, <3>2
  <2>3. QED
    BY <2>2 DEF CleanInv, NoBranches
<1>3. QED
  BY <1>1, <1>2, Grows

\* A path an event has written is never Absent again.
LEMMA WrittenIsThere ==
    ASSUME NEW events \in Seq(Event), JournalOK(events),
           NEW p \in Path, NEW i \in DOMAIN events, writes(events[i], p)
    PROVE  fold(events)[p] # Absent
<1> DEFINE n == Len(events)
<1> DEFINE S == {k \in Nat : n - k \in DOMAIN events /\ writes(events[n - k], p)}
<1>1. n - i \in S
  BY DEF S
<1>2. Least(S) \in S /\ \A k \in S : Least(S) <= k
  BY <1>1, LeastExists
<1> DEFINE m == n - Least(S)
<1>3. m \in DOMAIN events /\ writes(events[m], p)
  BY <1>2
<1>4. ASSUME NEW j \in DOMAIN events, j > m, writes(events[j], p)
      PROVE  FALSE
  <2>1. n \in Nat /\ Least(S) \in Nat /\ j \in 1..n
    BY <1>2
  <2>2. n - j \in Nat /\ n - (n - j) = j
    BY <2>1
  <2>3. n - j \in S
    BY <1>4, <2>2
  <2>4. Least(S) <= n - j
    BY <1>2, <2>3
  <2> HIDE DEF S
  <2>5. QED
    BY <1>4, <2>1, <2>4
<1> HIDE DEF m, S
<1>5. written(events[m], p) \in last_written(events, p)
  BY <1>3, <1>4 DEF last_written
<1>6. ASSUME NEW val \in last_written(events, p) PROVE val # Absent
  <2>1. PICK j \in DOMAIN events : writes(events[j], p) /\ val = written(events[j], p)
    BY <1>6 DEF last_written
  <2>2. EventOK(events[j])
    BY <2>1 DEF JournalOK
  <2>3. QED
    BY <2>1, <2>2, AbsentAssumption DEF EventOK, writes, written
<1>7. fold(events)[p] = CHOOSE val \in last_written(events, p) : TRUE
  BY <1>5 DEF fold
<1>8. QED
  BY <1>5, <1>6, <1>7

\* What a finished branch shows.
LEMMA DoneIsInJournal ==
    ASSUME TypeInv, CleanInv, NEW f \in StepId, NEW b \in StepId,
           parallel_branch_done(fold(journal), f, b)
    PROVE  \E i \in DOMAIN journal :
              /\ journal[i].kind = "ParallelStepApplied"
              /\ journal[i].fork = f /\ journal[i].step = b
<1> DEFINE p == Par(f, b)
<1>1. p \in Path /\ fold(journal)[p] # Absent
  BY DEF parallel_branch_done, resolve
<1>2. last_written(journal, p) # {}
  BY <1>1 DEF fold
<1>3. PICK i \in DOMAIN journal : writes(journal[i], p)
  BY <1>2 DEF last_written
<1>4. journal[i] \in Event
  BY DEF TypeInv, TypeOK
<1>5. p[1] = "parallel" /\ Len(p) = 3 /\ p[2] = f /\ p[3] = b
  BY DEF Par
<1>6. CASE journal[i].kind = "StepApplied"
  <2>1. Len(p) = 1
    BY <1>3, <1>6 DEF writes, Top
  <2>2. QED
    BY <1>5, <2>1
<1>7. CASE journal[i].kind = "Instantiated"
  <2>1. journal[i].input # Scalar /\ journal[i].input[p] # Absent
    BY <1>3, <1>7 DEF writes
  <2>2. QED
    BY <1>1, <1>5, <1>7, <2>1 DEF CleanInv, NoBranches
<1>8. CASE journal[i].kind = "ParallelStepApplied"
  <2>1. p = <<"parallel", journal[i].fork, journal[i].step>>
    BY <1>3, <1>8 DEF writes, Par
  <2> HIDE DEF p
  <2>2. journal[i].fork = f /\ journal[i].step = b
    BY <1>5, <2>1
  <2>3. QED
    BY <1>8, <2>2
<1>9. QED
  BY <1>3, <1>6, <1>7, <1>8 DEF writes

-----------------------------------------------------------------------------
(* The ways of control *)

\* Control enters at the first step, or follows a way of the graph; from a fork
\* it does so when its branches are done.
LEMMA PassesLead ==
    ASSUME NEW v \in Version, NEW d, NEW p, NEW id \in Semantics!Passes(v, d, p)
    PROVE  \/ p = None /\ id = Process[v][1].id
           \/ /\ p \in StepsOf(v) /\ id \in leads_to(v, p) \cap StepId
              /\ p \in Forks(v) =>
                    \A b \in DOMAIN step_of(v, p).branches :
                       parallel_branch_done(d, p, step_of(v, p).branches[b])
<1> DEFINE next == next_step(v, p, d)
<1> DEFINE step == step_of(v, p)
<1> DEFINE here == position(v, p)
<1> DEFINE left == remaining_branches(step, d)
<1> DEFINE ids == {step.branches[b] : b \in DOMAIN step.branches}
<1>1. \/ next.go = "single" /\ id = next.id
      \/ IsGate(v, p) /\ step.policy = "branch" /\ id = step.to
  BY SameNext, SameStep DEF Semantics!Passes, IsGate
<1>2. has_step(v, p) => p \in StepsOf(v) /\ step \in Step /\ step.id = p
  BY StepTyped DEF has_step, StepsOf
<1>3. CASE IsGate(v, p) /\ step.policy = "branch" /\ id = step.to
  <2>1. p \notin Forks(v)
    BY <1>3 DEF Forks, IsGate
  <2>2. id \in leads_to(v, p) /\ id \in StepId
    BY <1>2, <1>3 DEF leads_to, IsGate, Step
  <2>3. QED
    BY <1>2, <1>3, <2>1, <2>2 DEF IsGate
<1>4. CASE next.go = "single" /\ id = next.id /\ p = None
  BY <1>4 DEF next_step, Single
<1>5. CASE next.go = "single" /\ id = next.id /\ p # None
  <2>1. has_step(v, p)
    BY <1>5 DEF next_step, GraphError
  <2>0. here \in Nat
    BY <2>1, StepTyped, GraphAssumption
  <2>2. next = CASE step.kind = "branch" -> evaluate_branch(step, d)
                 [] step.kind = "parallel" ->
                       IF left # {} THEN Fork(step.branches[Least(left)])
                       ELSE first_after(v, here, ids)
                 [] step.kind = "loop" -> GraphError
                 [] OTHER -> first_after(v, here, {})
    BY <1>5, <2>1 DEF next_step
  <2>3. CASE step.kind = "branch"
    <3> DEFINE val == resolve(step.on, d)
    <3> DEFINE stops == {c \in DOMAIN step.cases :
                            case_fails(step.cases[c], val) \/ case_matches(step.cases[c], val)}
    <3>1. stops # {} /\ id = step.cases[Least(stops)].to
      BY <1>5, <2>2, <2>3 DEF evaluate_branch, GraphError, Single
    <3>2. stops \in SUBSET Nat
      BY <1>2, <2>1 DEF Step
    <3>3. Least(stops) \in DOMAIN step.cases
      BY <3>1, <3>2, LeastExists
    <3> HIDE DEF stops, step
    <3>4. id \in {step.cases[c].to : c \in DOMAIN step.cases} /\ id \in StepId
      <4>1. step.cases[Least(stops)] \in Case
        BY <1>2, <2>1, <3>3 DEF Step
      <4>2. QED
        BY <3>1, <3>3, <4>1 DEF Case
    <3>5. id \in leads_to(v, p) /\ p \notin Forks(v)
      BY <2>3, <3>4 DEF leads_to, Forks, step
    <3>6. p \in StepsOf(v)
      BY <1>2, <2>1
    <3>7. QED
      BY <3>4, <3>5, <3>6
  <2>4. CASE step.kind = "parallel"
    <3>1. left = {} /\ next = first_after(v, here, ids)
      BY <1>5, <2>2, <2>4 DEF Fork
    <3>2. \A b \in DOMAIN step.branches : parallel_branch_done(d, p, step.branches[b])
      BY <1>2, <2>1, <3>1 DEF remaining_branches
    <3>3. id \in leads_to(v, p) /\ id \in StepId
      BY <1>5, <2>4, <2>0, <3>1, FirstAfterTyped DEF leads_to
    <3>4. QED
      BY <1>2, <2>1, <3>2, <3>3
  <2>5. CASE step.kind = "loop"
    BY <1>5, <2>2, <2>5 DEF GraphError
  <2>6. CASE step.kind \notin {"branch", "parallel", "loop"}
    <3>1. next = first_after(v, here, {})
      BY <2>2, <2>6
    <3>2. id \in leads_to(v, p) /\ id \in StepId /\ p \notin Forks(v)
      BY <1>5, <2>0, <2>6, <3>1, FirstAfterTyped DEF leads_to, Forks
    <3>3. QED
      BY <1>2, <2>1, <3>2
  <2>7. QED
    BY <2>3, <2>4, <2>5, <2>6
<1>6. QED
  BY <1>1, <1>3, <1>4, <1>5

LEMMA StepsAreIds ==
    ASSUME NEW v \in Version
    PROVE  StepsOf(v) \subseteq StepId /\ None \notin StepsOf(v)
<1>1. \A i \in DOMAIN Process[v] : Process[v][i] \in Step
  BY GraphAssumption
<1>2. QED
  BY <1>1, NoneAssumption DEF StepsOf, Step

LEMMA RestoredTyped ==
    ASSUME NEW events \in Seq(Event)
    PROVE  restored_step(events) \in StepId \cup {None}
<1> DEFINE back == {k \in 0..(Len(events) - 1) : events[Len(events) - k].kind = "StepApplied"}
<1>2. CASE back = {}
  BY <1>2 DEF restored_step
<1>3. CASE back # {}
  <2>1. Least(back) \in 0..(Len(events) - 1)
    <3>1. back \in SUBSET Nat
      OBVIOUS
    <3>2. Least(back) \in back
      BY <1>3, <3>1, LeastExists
    <3>3. QED
      BY <3>2
  <2> HIDE DEF back
  <2>2. events[Len(events) - Least(back)] \in Event
    BY <2>1
  <2>3. QED
    BY <1>3, <2>2 DEF restored_step, Event, back
<1>4. QED
  BY <1>2, <1>3

LEMMA PlaceTyped ==
    ASSUME TypeInv
    PROVE  place_of_control \in StepId \cup {None}
BY RestoredTyped DEF place_of_control, TypeInv, TypeOK, CallOK, Instance, Pending

LEMMA VerTyped ==
    ASSUME TypeInv
    PROVE  /\ Ver \in Version \cup {None} /\ None \notin Version
           /\ Ver # None <=> journal # <<>>
<1>1. journal # <<>> => journal[1] \in Event
  BY DEF TypeInv, TypeOK
<1>2. QED
  BY <1>1, NoneAssumption DEF Ver, Event

-----------------------------------------------------------------------------
(* The barrier *)

AllDone(v, d, f) ==
    \A b \in DOMAIN step_of(v, f).branches :
        parallel_branch_done(d, f, step_of(v, f).branches[b])

\* Where s stands behind a fork, document d has every branch of the fork.
Joined(v, d, s) == \A f \in Forks(v) : s \in Behind[v][f] => AllDone(v, d, f)

BarrierInv ==
    /\ CleanInv
    /\ Ver # None => /\ Joined(Ver, fold(journal), place_of_control)
                     /\ Joined(Ver, fold(journal), restored_step(journal))

LEMMA NothingBehind ==
    ASSUME NEW v \in Version, NEW d
    PROVE  Joined(v, d, None)
BY StepsAreIds DEF Joined, Behind

\* No step leads past a fork whose branches are not done.
LEMMA PassJoined ==
    ASSUME NEW v \in Version, NEW d, NEW p, Joined(v, d, p),
           NEW id \in Semantics!Passes(v, d, p)
    PROVE  Joined(v, d, id)
<1> SUFFICES ASSUME NEW f \in Forks(v), id \in Behind[v][f]
             PROVE  AllDone(v, d, f)
  BY DEF Joined
<1>1. PICK S \in SUBSET StepsOf(v) :
          /\ Process[v][1].id \in S /\ id \notin S
          /\ \A a \in S \ {f} : leads_to(v, a) \cap StepsOf(v) \subseteq S
  BY DEF Behind
<1>2. id \in StepsOf(v)
  BY DEF Behind
<1>3. /\ p \in StepsOf(v) /\ id \in leads_to(v, p)
      /\ p \in Forks(v) => AllDone(v, d, p)
  BY <1>1, PassesLead DEF AllDone
<1>4. CASE p = f
  BY <1>3, <1>4
<1>5. CASE p \in S /\ p # f
  BY <1>1, <1>2, <1>3, <1>5
<1>6. CASE p \notin S
  <2>1. p \in Behind[v][f]
    BY <1>1, <1>3, <1>6 DEF Behind
  <2>2. QED
    BY <2>1 DEF Joined
<1>7. QED
  BY <1>4, <1>5, <1>6

\* A patch takes no branch back.
LEMMA PatchJoined ==
    ASSUME NEW v, NEW d \in Document, NEW path, NEW val \in Value, NEW s, Joined(v, d, s)
    PROVE  Joined(v, write(d, path, val), s)
<1>1. d # Scalar /\ write(d, path, val) \in Document /\ write(d, path, val) # Scalar
  BY WriteTyped, ScalarAssumption DEF State
<1>2. ASSUME NEW f, NEW b, parallel_branch_done(d, f, b)
      PROVE  parallel_branch_done(write(d, path, val), f, b)
  BY <1>1, <1>2, AbsentAssumption DEF parallel_branch_done, resolve, write
<1>3. QED
  BY <1>2 DEF Joined, AllDone

LEMMA StepBarrier ==
    ASSUME TypeInv, TypeInv', BarrierInv, [Next]_vars, [Semantics!Next]_Shown
    PROVE  BarrierInv'
<1> DEFINE d == fold(journal)
<1> DEFINE at == restored_step(journal)
<1>1. CleanInv'
  BY StepClean DEF BarrierInv
<1>2. d \in Document /\ (Ver # None => Ver \in Version) /\ (Ver' # None => Ver' \in Version)
  <2>1. Ver' \in Version \cup {None}
    <3>1. journal' # <<>> => journal'[1] \in Event
      BY DEF TypeInv, TypeOK
    <3>2. QED
      BY <3>1 DEF Ver, Event
  <2>2. QED
    BY <2>1, VerTyped, FoldTyped DEF TypeInv, TypeOK, CallOK
<1>3. Ver # None => Joined(Ver, d, place_of_control) /\ Joined(Ver, d, at)
  BY DEF BarrierInv
<1> HIDE DEF d, at
<1>4. CASE Semantics!Start
  <2>1. place_of_control' = None /\ restored_step(journal)' = None
    BY <1>4 DEF Semantics!Start
  <2>2. QED
    BY <1>1, <1>2, <2>1, NothingBehind DEF BarrierInv
<1>5. CASE Semantics!Pass
  <2>1. /\ Ver # None /\ Ver' = Ver /\ fold(journal)' = d /\ restored_step(journal)' = at
        /\ place_of_control' \in Semantics!Passes(Ver, d, place_of_control)
    BY <1>5 DEF Semantics!Pass, Ver, d, at
  <2>2. QED
    BY <1>1, <1>2, <1>3, <2>1, PassJoined DEF BarrierInv
<1>6. CASE Semantics!Apply
  <2>1. PICK id \in Semantics!Passes(Ver, d, place_of_control), val \in Value :
            /\ Ver # None /\ Ver' = Ver /\ fold(journal)' = apply_patch(d, id, val)
            /\ place_of_control' = id /\ restored_step(journal)' = id
    BY <1>6, SamePatch DEF Semantics!Apply, Ver, d
  <2>2. Joined(Ver, d, id)
    BY <1>2, <1>3, <2>1, PassJoined
  <2>3. Joined(Ver, apply_patch(d, id, val), id)
    BY <1>2, <2>2, PatchJoined DEF apply_patch
  <2>4. QED
    BY <1>1, <2>1, <2>3 DEF BarrierInv
<1>7. CASE Semantics!ApplyBranch
  <2> DEFINE b == Semantics!next_step(Ver, place_of_control, d).id
  <2>1. PICK val \in Value :
            fold(journal)' = Semantics!apply_parallel_patch(d, place_of_control, b, val)
    BY <1>7 DEF Semantics!ApplyBranch, Ver, d
  <2>2. fold(journal)' = apply_parallel_patch(d, place_of_control, b, val)
    BY <2>1, SamePatch
  <2>3. /\ Ver # None /\ Ver' = Ver
        /\ place_of_control' \in {place_of_control, at} /\ restored_step(journal)' = at
    BY <1>7 DEF Semantics!ApplyBranch, Ver, at
  <2> HIDE DEF b
  <2>4. \A s : Joined(Ver, d, s) => Joined(Ver, apply_parallel_patch(d, place_of_control, b, val), s)
    BY <1>2, <2>3, PatchJoined DEF apply_parallel_patch
  <2>5. QED
    BY <1>1, <1>3, <2>2, <2>3, <2>4 DEF BarrierInv
<1>8. CASE Semantics!Stop
  <2>1. /\ Ver' = Ver /\ fold(journal)' = d /\ place_of_control' = at
        /\ restored_step(journal)' = at
    BY <1>8 DEF Semantics!Stop, Ver, d, at
  <2>2. QED
    BY <1>1, <1>3, <2>1 DEF BarrierInv
<1>9. CASE UNCHANGED Shown
  <2>1. /\ Ver' = Ver /\ fold(journal)' = d /\ place_of_control' = place_of_control
        /\ restored_step(journal)' = at
    BY <1>9 DEF Shown, d, at
  <2>2. QED
    BY <1>1, <1>3, <2>1 DEF BarrierInv
<1>10. QED
  BY <1>4, <1>5, <1>6, <1>7, <1>8, <1>9 DEF Semantics!Next

LEMMA BarrierIsHeld ==
    ASSUME TypeInv, BarrierInv
    PROVE  BarrierHolds
<1> SUFFICES ASSUME journal # <<>>,
                    NEW f \in Forks(Ver), place_of_control \in Behind[Ver][f],
                    NEW b \in DOMAIN step_of(Ver, f).branches
             PROVE  \E i \in DOMAIN journal :
                       /\ journal[i].kind = "ParallelStepApplied"
                       /\ journal[i].fork = f /\ journal[i].step = step_of(Ver, f).branches[b]
  BY DEF BarrierHolds, Ver
<1>1. Ver \in Version
  BY VerTyped
<1>2. has_step(Ver, f) /\ f \in StepId
  BY <1>1, StepsAreIds DEF Forks, StepsOf, has_step
<1>3. step_of(Ver, f).branches[b] \in StepId
  BY <1>1, <1>2, StepTyped DEF Step
<1>4. parallel_branch_done(fold(journal), f, step_of(Ver, f).branches[b])
  BY VerTyped DEF BarrierInv, Joined, AllDone
<1>5. QED
  BY <1>2, <1>3, <1>4, DoneIsInJournal DEF BarrierInv

\* No order of stops, errors and recoveries opens the barrier of a parallel step:
\* wherever control stands behind a fork, the journal has all its branches.
THEOREM BarrierIsKept ==
    ASSUME Inputs \subseteq Document, ~(StorageFaults /\ CallerRetries),
           MigrateTo = {}, MeterVersions = {}
    PROVE  Spec => []BarrierHolds
<1> DEFINE Inv == TypeInv /\ FoldInv /\ ControlInv /\ BarrierInv
<1>1. Init => Inv
  <2>1. Init => BarrierInv
    BY DEF Init, BarrierInv, CleanInv, Ver
  <2>2. QED
    BY <2>1, InitTyped, InitFold, InitControl
<1>2. Inv /\ [Next]_vars => Inv'
  BY StepControl, StepShown, StepBarrier
<1>3. Inv => BarrierHolds
  BY BarrierIsHeld
<1>4. QED
  BY <1>1, <1>2, <1>3, PTL DEF Spec

-----------------------------------------------------------------------------
(* A graph without cycles *)

\* rank numbers the steps so that control only goes up.
Acyclic(rank) ==
    \A v \in Version : \A s \in StepsOf(v) : \A t \in leads_to(v, s) \cap StepId :
        rank[s] < rank[t]

\* The documents have a place for the branches of every fork.
PlacesForBranches ==
    \A v \in Version : \A f \in Forks(v) : \A b \in DOMAIN step_of(v, f).branches :
        Par(f, step_of(v, f).branches[b]) \in Path

Rises(rank, p, q) == p # None => q # None /\ rank[p] <= rank[q]

\* Control has not fallen behind the last applied step, no applied step is
\* above the last one, and the applied steps rise.
RiseInv(rank) ==
    /\ Rises(rank, restored_step(journal), place_of_control)
    /\ \A i \in DOMAIN journal : journal[i].kind = "StepApplied" =>
          journal[i].step \in StepId /\ Rises(rank, journal[i].step, restored_step(journal))
    /\ \A i, j \in DOMAIN journal :
          i < j /\ journal[i].kind = "StepApplied" /\ journal[j].kind = "StepApplied" =>
             rank[journal[i].step] < rank[journal[j].step]
    /\ \A i, j \in DOMAIN journal :
          i < j /\ journal[i].kind = "ParallelStepApplied" /\ journal[j].kind = "ParallelStepApplied" =>
             journal[i].fork # journal[j].fork \/ journal[i].step # journal[j].step

LEMMA PassRises ==
    ASSUME NEW rank \in [StepId -> Nat], Acyclic(rank),
           NEW v \in Version, NEW d, NEW p \in StepId \cup {None},
           NEW id \in Semantics!Passes(v, d, p)
    PROVE  p # None => id \in StepId /\ rank[p] < rank[id]
BY PassesLead, StepsAreIds DEF Acyclic

\* The branch a fork runs next is not done, and has its place in the document.
LEMMA ForkRemains ==
    ASSUME NEW v \in Version, NEW f \in StepId \cup {None}, NEW d, NEW b,
           next_step(v, f, d) = Fork(b), PlacesForBranches
    PROVE  Par(f, b) \in Path /\ ~parallel_branch_done(d, f, b)
<1> DEFINE next == next_step(v, f, d)
<1> DEFINE step == step_of(v, f)
<1> DEFINE left == remaining_branches(step, d)
<1>1. next.go = "fork" /\ next.id = b
  BY DEF Fork
<1>2. f # None /\ has_step(v, f)
  BY <1>1 DEF next_step, Single, GraphError
<1>3. step \in Step /\ step.id = f
  BY <1>2, StepTyped
<1>4. step.kind = "parallel" /\ left # {} /\ b = step.branches[Least(left)]
  BY <1>1, <1>2 DEF next_step, evaluate_branch, first_after, Single, Fork, Finished, GraphError
<1>5. left \in SUBSET Nat /\ left \subseteq DOMAIN step.branches
  BY <1>3 DEF remaining_branches, Step
<1>6. Least(left) \in left
  BY <1>4, <1>5, LeastExists
<1>7. f \in Forks(v)
  BY <1>2, <1>3, <1>4 DEF Forks, StepsOf, has_step
<1>8. ~parallel_branch_done(d, f, step.branches[Least(left)])
  BY <1>3, <1>6 DEF remaining_branches
<1> HIDE DEF left, step
<1>9. Par(f, step.branches[Least(left)]) \in Path
  BY <1>5, <1>6, <1>7 DEF PlacesForBranches, step
<1>10. QED
  BY <1>4, <1>8, <1>9

LEMMA StepRises ==
    ASSUME NEW rank \in [StepId -> Nat], Acyclic(rank), TypeInv, TypeInv', RiseInv(rank),
           [Semantics!Next]_Shown
    PROVE  Rises(rank, restored_step(journal)', place_of_control')
<1> DEFINE at == restored_step(journal)
<1>1. /\ at \in StepId \cup {None} /\ place_of_control \in StepId \cup {None}
      /\ Ver # None => Ver \in Version
      /\ Rises(rank, at, place_of_control)
  BY RestoredTyped, PlaceTyped, VerTyped DEF RiseInv, TypeInv, TypeOK
<1>2. place_of_control' \in StepId \cup {None}
  <2>1. restored_step(journal') \in StepId \cup {None}
    BY RestoredTyped DEF TypeInv, TypeOK
  <2>2. QED
    BY <2>1 DEF place_of_control, TypeInv, TypeOK, CallOK, Instance, Pending
<1> HIDE DEF at
<1>3. CASE Semantics!Start
  BY <1>3 DEF Semantics!Start, Rises
<1>4. CASE Semantics!Pass
  <2>1. /\ Ver # None /\ restored_step(journal)' = at
        /\ place_of_control' \in Semantics!Passes(Ver, fold(journal), place_of_control)
    BY <1>4 DEF Semantics!Pass, Ver, at
  <2>2. QED
    <3>1. CASE at = None
      BY <2>1, <3>1 DEF Rises
    <3>2. CASE at # None
      <4>1. at \in StepId /\ place_of_control \in StepId /\ rank[at] <= rank[place_of_control]
        BY <1>1, <3>2 DEF Rises
      <4>2. place_of_control' \in StepId /\ rank[place_of_control] < rank[place_of_control']
        BY <1>1, <2>1, <4>1, NoneAssumption, PassRises
      <4>3. rank[at] \in Nat /\ rank[place_of_control] \in Nat /\ rank[place_of_control'] \in Nat
        BY <4>1, <4>2
      <4>4. QED
        BY <2>1, <4>1, <4>2, <4>3, NoneAssumption DEF Rises
    <3>3. QED
      BY <3>1, <3>2
<1>5. CASE Semantics!Apply
  <2>1. restored_step(journal)' = place_of_control'
    BY <1>5 DEF Semantics!Apply
  <2>2. QED
    BY <1>2, <2>1 DEF Rises
<1>6. CASE Semantics!ApplyBranch
  <2>1. place_of_control' \in {place_of_control, at} /\ restored_step(journal)' = at
    BY <1>6 DEF Semantics!ApplyBranch, at
  <2>2. QED
    BY <1>1, <2>1 DEF Rises
<1>7. CASE Semantics!Stop \/ UNCHANGED Shown
  <2>1. place_of_control' \in {place_of_control, at} /\ restored_step(journal)' = at
    BY <1>7 DEF Semantics!Stop, Shown, at
  <2>2. QED
    BY <1>1, <2>1 DEF Rises
<1>8. QED
  BY <1>3, <1>4, <1>5, <1>6, <1>7 DEF Semantics!Next

LEMMA StepOnce ==
    ASSUME NEW rank \in [StepId -> Nat], Acyclic(rank), PlacesForBranches,
           TypeInv, TypeInv', FoldInv, ControlInv, RiseInv(rank), [Next]_vars, [Semantics!Next]_Shown
    PROVE  RiseInv(rank)'
<1>0. journal \in Seq(Event) /\ JournalOK(journal)
  BY DEF TypeInv, TypeOK, CallOK
<1>1. Rises(rank, restored_step(journal)', place_of_control')
  BY StepRises
<1>2. CASE journal' = journal
  BY <1>1, <1>2 DEF RiseInv
<1>3. ASSUME NEW e \in Event, journal' = Append(journal, e), Appendable(e)
      PROVE  RiseInv(rank)'
  <2> DEFINE n == Len(journal) + 1
  <2> DEFINE at == restored_step(journal)
  <2>1. /\ DOMAIN journal' = 1..n /\ journal'[n] = e /\ n \in Nat
        /\ DOMAIN journal = 1..(n - 1)
        /\ \A i \in DOMAIN journal : journal'[i] = journal[i]
    BY <1>0, <1>3
  <2>2. restored_step(journal') = IF e.kind = "StepApplied" THEN e.step ELSE at
    BY <1>0, <1>3, RestoredAppend
  <2>3. at \in StepId \cup {None} /\ place_of_control \in StepId \cup {None}
    BY RestoredTyped, PlaceTyped DEF TypeInv, TypeOK
  <2> HIDE DEF n, at
  <2>4. /\ Rises(rank, at, place_of_control)
        /\ \A i \in DOMAIN journal : journal[i].kind = "StepApplied" =>
              journal[i].step \in StepId /\ Rises(rank, journal[i].step, at)
    BY DEF RiseInv, at
  <2>5. ASSUME e.kind = "StepApplied"
        PROVE  /\ e.step \in StepId /\ e.step # None
               /\ \A i \in DOMAIN journal : journal[i].kind = "StepApplied" =>
                     rank[journal[i].step] < rank[e.step]
    <3>1. /\ pc = "executing" /\ pend.fork = None /\ e.step = pend.step
          /\ pend \in Pending /\ live \in Instance /\ live # None
      BY <1>3, <2>5, InstanceAssumption DEF Appendable, Applied, TypeInv, CallOK
    <3>2. e.step \in StepId /\ e.step # None
      BY <3>1, NoneAssumption DEF Pending
    <3>3. e.step \in Semantics!Passes(live.ver, live.state, place_of_control)
      BY <3>1 DEF ControlInv, Passing, place_of_control
    <3>4. place_of_control # None => rank[place_of_control] < rank[e.step]
      BY <2>3, <3>1, <3>2, <3>3, PassRises DEF Instance
    <3>5. ASSUME NEW i \in DOMAIN journal, journal[i].kind = "StepApplied"
          PROVE  rank[journal[i].step] < rank[e.step]
      <4>1. journal[i].step \in StepId /\ journal[i].step # None
        BY <2>4, <3>5, NoneAssumption
      <4>2. at # None /\ rank[journal[i].step] <= rank[at]
        BY <2>4, <3>5, <4>1 DEF Rises
      <4>3. place_of_control # None /\ rank[at] <= rank[place_of_control]
        BY <2>4, <4>2 DEF Rises
      <4>4. at \in StepId /\ place_of_control \in StepId
        BY <2>3, <4>2, <4>3
      <4>5. rank[journal[i].step] \in Nat /\ rank[at] \in Nat /\ rank[place_of_control] \in Nat
            /\ rank[e.step] \in Nat
        BY <3>2, <4>1, <4>4
      <4>6. QED
        BY <3>4, <4>2, <4>3, <4>5
    <3>6. QED
      BY <3>2, <3>5
  <2>6. ASSUME e.kind = "ParallelStepApplied", NEW i \in DOMAIN journal,
               journal[i].kind = "ParallelStepApplied",
               journal[i].fork = e.fork, journal[i].step = e.step
        PROVE  FALSE
    <3>1. /\ pc = "executing" /\ pend.fork # None /\ e.fork = pend.fork /\ e.step = pend.step
          /\ live \in Instance /\ live # None
      BY <1>3, <2>6, InstanceAssumption DEF Appendable, Applied, TypeInv, CallOK
    <3>2. e.fork = live.current /\ next_step(live.ver, e.fork, fold(journal)) = Fork(e.step)
      BY <3>1 DEF ControlInv, chosen, FoldInv, LiveFolds
    <3>3. Par(e.fork, e.step) \in Path /\ ~parallel_branch_done(fold(journal), e.fork, e.step)
      BY <3>1, <3>2, ForkRemains DEF Instance
    <3>4. writes(journal[i], Par(e.fork, e.step))
      BY <2>6 DEF writes
    <3>5. fold(journal)[Par(e.fork, e.step)] # Absent /\ fold(journal) # Scalar
      BY <1>0, <3>3, <3>4, WrittenIsThere, FoldTyped, ScalarAssumption
    <3>6. QED
      BY <3>3, <3>5 DEF parallel_branch_done, resolve
  <2>7. ASSUME NEW i \in DOMAIN journal', journal'[i].kind = "StepApplied"
        PROVE  journal'[i].step \in StepId /\ Rises(rank, journal'[i].step, restored_step(journal'))
    <3>1. CASE i = n
      BY <2>1, <2>2, <2>5, <2>7, <3>1 DEF Rises
    <3>2. CASE i # n
      <4>1. i \in DOMAIN journal /\ journal'[i] = journal[i]
        BY <2>1, <3>2
      <4>2. CASE e.kind = "StepApplied"
        BY <2>2, <2>4, <2>5, <2>7, <4>1, <4>2 DEF Rises
      <4>3. CASE e.kind # "StepApplied"
        BY <2>2, <2>4, <2>7, <4>1, <4>3
      <4>4. QED
        BY <4>2, <4>3
    <3>3. QED
      BY <3>1, <3>2
  <2>8. ASSUME NEW i \in DOMAIN journal', NEW j \in DOMAIN journal', i < j,
               journal'[i].kind = "StepApplied", journal'[j].kind = "StepApplied"
        PROVE  rank[journal'[i].step] < rank[journal'[j].step]
    <3>1. i \in DOMAIN journal /\ journal'[i] = journal[i]
      BY <2>1, <2>8
    <3>2. CASE j = n
      BY <2>1, <2>5, <2>8, <3>1, <3>2
    <3>3. CASE j # n
      <4>1. j \in DOMAIN journal /\ journal'[j] = journal[j]
        BY <2>1, <3>3
      <4>2. QED
        BY <2>8, <3>1, <4>1 DEF RiseInv
    <3>4. QED
      BY <3>2, <3>3
  <2>9. ASSUME NEW i \in DOMAIN journal', NEW j \in DOMAIN journal', i < j,
               journal'[i].kind = "ParallelStepApplied", journal'[j].kind = "ParallelStepApplied"
        PROVE  journal'[i].fork # journal'[j].fork \/ journal'[i].step # journal'[j].step
    <3>1. i \in DOMAIN journal /\ journal'[i] = journal[i]
      BY <2>1, <2>9
    <3>2. CASE j = n
      BY <2>1, <2>6, <2>9, <3>1, <3>2
    <3>3. CASE j # n
      <4>1. j \in DOMAIN journal /\ journal'[j] = journal[j]
        BY <2>1, <3>3
      <4>2. QED
        BY <2>9, <3>1, <4>1 DEF RiseInv
    <3>4. QED
      BY <3>2, <3>3
  <2>10. QED
    BY <1>1, <2>7, <2>8, <2>9 DEF RiseInv
<1>4. QED
  BY <1>2, <1>3, Grows

LEMMA RiseIsOnce ==
    ASSUME NEW rank \in [StepId -> Nat], TypeInv, RiseInv(rank)
    PROVE  AppliedOnce
<1> SUFFICES ASSUME NEW i \in DOMAIN journal, NEW j \in DOMAIN journal,
                    journal[i].kind \in {"StepApplied", "ParallelStepApplied"},
                    journal[j].kind = journal[i].kind,
                    journal[j].fork = journal[i].fork, journal[j].step = journal[i].step,
                    i # j
             PROVE  FALSE
  BY DEF AppliedOnce
<1>1. i \in Nat /\ j \in Nat /\ (i < j \/ j < i)
  BY DEF TypeInv, TypeOK
<1>2. CASE journal[i].kind = "StepApplied"
  <2>1. rank[journal[i].step] \in Nat /\ ~(rank[journal[i].step] < rank[journal[i].step])
    BY <1>2 DEF RiseInv
  <2>2. QED
    BY <1>1, <1>2, <2>1 DEF RiseInv
<1>3. CASE journal[i].kind = "ParallelStepApplied"
  BY <1>1, <1>3 DEF RiseInv
<1>4. QED
  BY <1>2, <1>3

\* In a graph whose ways rise, no order of stops, errors and recoveries makes the
\* engine append the patch of a step or of a branch twice.
THEOREM NothingTwice ==
    ASSUME Inputs \subseteq Document, ~(StorageFaults /\ CallerRetries),
           MigrateTo = {}, MeterVersions = {},
           NEW rank \in [StepId -> Nat], Acyclic(rank), PlacesForBranches
    PROVE  Spec => []AppliedOnce
<1> DEFINE Inv == TypeInv /\ FoldInv /\ ControlInv /\ RiseInv(rank)
<1>1. Init => Inv
  <2>1. restored_step(<<>>) = None
    BY DEF restored_step
  <2>2. Init => RiseInv(rank)
    BY <2>1 DEF Init, RiseInv, Rises
  <2>3. QED
    BY <2>2, InitTyped, InitFold, InitControl
<1>2. Inv /\ [Next]_vars => Inv'
  BY StepControl, StepShown, StepOnce
<1>3. Inv => AppliedOnce
  BY RiseIsOnce
<1>4. QED
  BY <1>1, <1>2, <1>3, PTL DEF Spec
=============================================================================
