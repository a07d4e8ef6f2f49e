---------------------------- MODULE ProcessGraph ----------------------------
(***************************************************************************)
(* The process graph of crates/berimor-process-engine: what graph.rs        *)
(* accepts (compile) and which step it names next (next_step), and the      *)
(* state documents of state.rs that the graph reads (apply_patch,           *)
(* apply_parallel_patch, fold).                                             *)
(*                                                                         *)
(* A process is a sequence of steps.  A step is a record                    *)
(*   id, kind      its identifier and StepKind                              *)
(*   on, cases     of a branch: the state path and the ordered cases        *)
(*   branches      of a parallel step: the ids of its branches              *)
(*   policy, to    of a human_gate: on_timeout and the target of "branch"   *)
(* The fields a kind does not use are empty.                                *)
(*                                                                         *)
(* A state document maps the paths the model tells apart to a value or to   *)
(* Absent: Top(s) is state.s, Par(f, b) is state.parallel.f.b.  Scalar      *)
(* stands for every JSON document that is not an object.                    *)
(***************************************************************************)
EXTENDS Integers, Sequences, FiniteSets

CONSTANTS Version,   \* versions of the process graph
          StepId,    \* step identifiers
          Process,   \* [Version -> sequence of steps]
          Path,      \* the paths of a state document
          Value,     \* records [num, n]: a JSON number n, or another leaf
          Absent,    \* "no such key"
          Scalar,    \* a JSON document that is not an object
          None       \* Rust's Option::None

Top(s)    == <<s>>
Par(f, b) == <<"parallel", f, b>>

Document  == [Path -> Value \cup {Absent}]
State     == Document \cup {Scalar}
Kind == {"Instantiated", "StepApplied", "ParallelStepApplied",
         "HumanGateOpened", "HumanGateResolved", "HumanGateTimedOut",
         "VersionMigrated", "Audit"}
Policy == {"fail", "branch", "escalate"}

\* An event of the journal; what its kind does not carry is None.
Event == [kind : Kind, ver : Version,
          fork : StepId \cup {None}, step : StepId \cup {None},
          input : State \cup {None},      \* payload of Instantiated
          val : Value \cup {None},        \* payload of an applied patch
          policy : Policy \cup {None}]    \* of HumanGateTimedOut

NewEvent(kind, v) == [kind |-> kind, ver |-> v, fork |-> None, step |-> None,
                      input |-> None, val |-> None, policy |-> None]

Mutating == {"tool", "llm_structured", "code_act", "agent_step"}
Case     == [op : {"lit", ">=", "<=", ">", "<", "==", "!="}, num : BOOLEAN, n : Int, to : StepId]
Step     == [id : StepId,
             kind : Mutating \cup {"sequential", "parallel", "loop", "branch", "human_gate", "checkpoint"},
             on : Path \cup {<<>>}, cases : Seq(Case),
             branches : Seq(StepId),
             policy : Policy, to : StepId]

ASSUME GraphAssumption == Process \in [Version -> Seq(Step)]
ASSUME ValueAssumption == Value \subseteq [num : BOOLEAN, n : Int]
ASSUME NoneAssumption  == None \notin StepId /\ None \notin Version
ASSUME ScalarAssumption == Scalar \notin Document
ASSUME AbsentAssumption == Absent \notin Value

-----------------------------------------------------------------------------
(* graph.rs *)

Least(S) == CHOOSE i \in S : \A j \in S : i <= j

has_step(v, id) == \E i \in DOMAIN Process[v] : Process[v][i].id = id
position(v, id) == CHOOSE i \in DOMAIN Process[v] : Process[v][i].id = id
step_of(v, id)  == Process[v][position(v, id)]

is_mutating_leaf(kind) == kind \in Mutating

compile(v) ==
    /\ Process[v] # <<>>
    /\ \A i, j \in DOMAIN Process[v] :
          Process[v][i].id = Process[v][j].id => i = j
    /\ \A i \in DOMAIN Process[v] :
          LET s == Process[v][i]
          IN  /\ s.id # "parallel"
              /\ s.kind = "branch" =>
                    \A c \in DOMAIN s.cases : has_step(v, s.cases[c].to)
              /\ s.kind = "parallel" =>
                    \A b \in DOMAIN s.branches :
                       /\ has_step(v, s.branches[b])
                       /\ is_mutating_leaf(step_of(v, s.branches[b]).kind)

\* What next_step answers.  Of a fork's remaining branches the engine takes
\* the first, so that one stands for the list; "error" is any GraphError.
Single(id) == [go |-> "single", id |-> id]
Fork(id)   == [go |-> "fork", id |-> id]
Finished   == [go |-> "finished", id |-> None]
GraphError == [go |-> "error", id |-> None]

\* A comparison with a value that is not a number is an error, and an error
\* ends the walk over the cases; a literal without operator never errs.
case_fails(c, val)   == c.op # "lit" /\ ~val.num
case_matches(c, val) ==
    CASE c.op = "lit" -> val.n = c.n /\ val.num = c.num
      [] c.op = ">="  -> val.n >= c.n
      [] c.op = "<="  -> val.n <= c.n
      [] c.op = ">"   -> val.n > c.n
      [] c.op = "<"   -> val.n < c.n
      [] c.op = "=="  -> val.n = c.n
      [] c.op = "!="  -> val.n # c.n

resolve(path, doc) == IF doc = Scalar \/ path \notin Path THEN Absent ELSE doc[path]

evaluate_branch(step, doc) ==
    LET val   == resolve(step.on, doc)
        stops == {c \in DOMAIN step.cases :
                     case_fails(step.cases[c], val) \/ case_matches(step.cases[c], val)}
    IN  IF val = Absent THEN GraphError
        ELSE IF stops = {} \/ case_fails(step.cases[Least(stops)], val) THEN GraphError
        ELSE Single(step.cases[Least(stops)].to)

parallel_branch_done(doc, f, b) == resolve(Par(f, b), doc) # Absent

\* Bug: one finished branch opens the barrier.
branches_until_first(step, doc) ==
    IF \E b \in DOMAIN step.branches : parallel_branch_done(doc, step.id, step.branches[b])
    THEN {} ELSE DOMAIN step.branches

remaining_branches(step, doc) ==
    {b \in DOMAIN step.branches : ~parallel_branch_done(doc, step.id, step.branches[b])}

\* The first step declared after position i whose id is not in ids.
first_after(v, i, ids) ==
    LET later == {j \in DOMAIN Process[v] : j > i /\ Process[v][j].id \notin ids}
    IN  IF later = {} THEN Finished ELSE Single(Process[v][Least(later)].id)

next_step(v, current, doc) ==
    IF current = None THEN Single(Process[v][1].id)
    ELSE IF ~has_step(v, current) THEN GraphError
    ELSE LET step == step_of(v, current)
             here == position(v, current)
             left == remaining_branches(step, doc)
         IN  CASE step.kind = "branch" -> evaluate_branch(step, doc)
               [] step.kind = "parallel" ->
                     IF left # {} THEN Fork(step.branches[Least(left)])
                     ELSE first_after(v, here, {step.branches[b] : b \in DOMAIN step.branches})
               [] step.kind = "loop" -> GraphError
               [] OTHER -> first_after(v, here, {})

-----------------------------------------------------------------------------
(* state.rs *)

EmptyDocument == [p \in Path |-> Absent]

\* Both patches overwrite one path; a document that is no object is replaced.
write(doc, path, val) ==
    [p \in Path |-> IF p = path THEN val
                    ELSE IF doc = Scalar THEN Absent ELSE doc[p]]
apply_patch(doc, s, val)             == write(doc, Top(s), val)
apply_parallel_patch(doc, f, b, val) == write(doc, Par(f, b), val)

\* fold: the last event that writes a path decides what it holds.
writes(e, p) ==
    \/ e.kind = "StepApplied" /\ p = Top(e.step)
    \/ e.kind = "ParallelStepApplied" /\ p = Par(e.fork, e.step)
    \/ e.kind = "Instantiated" /\ e.input # Scalar /\ e.input[p] # Absent

written(e, p) == IF e.kind = "Instantiated" THEN e.input[p] ELSE e.val

last_written(events, p) ==
    {written(events[i], p) : i \in {i \in DOMAIN events :
        /\ writes(events[i], p)
        /\ \A j \in DOMAIN events : j > i => ~writes(events[j], p)}}

fold(events) ==
    [p \in Path |-> IF last_written(events, p) = {} THEN Absent
                    ELSE CHOOSE val \in last_written(events, p) : TRUE]

\* The loop of state.rs as it is written: patch by patch, the input key by key, and an input that
\* is no object is dropped.
merged(doc, input) == [p \in Path |-> IF input[p] = Absent THEN doc[p] ELSE input[p]]
folded_once(e, doc) ==
    CASE e.kind = "Instantiated" -> IF e.input = Scalar THEN doc ELSE merged(doc, e.input)
      [] e.kind = "StepApplied" -> apply_patch(doc, e.step, e.val)
      [] e.kind = "ParallelStepApplied" -> apply_parallel_patch(doc, e.fork, e.step, e.val)
      [] OTHER -> doc
replayed(events) ==
    LET upto[n \in 0..Len(events)] ==
            IF n = 0 THEN EmptyDocument ELSE folded_once(events[n], upto[n - 1])
    IN  upto[Len(events)]
=============================================================================
