-------------------------- MODULE MCProcessEngine --------------------------
(***************************************************************************)
(* Small process graphs, documents and inputs for ProcessEngine.             *)
(***************************************************************************)
EXTENDS ProcessEngine, TLC

-----------------------------------------------------------------------------
(* Graphs *)

Blank == [on |-> <<>>, cases |-> <<>>, branches |-> <<>>, policy |-> "fail", to |-> "none"]
Leaf(id, kind)        == [id |-> id, kind |-> kind] @@ Blank
Branch(id, on, cases) == [id |-> id, kind |-> "branch", on |-> on, cases |-> cases] @@ Blank
Parallel(id, ids)     == [id |-> id, kind |-> "parallel", branches |-> ids] @@ Blank
Gate(id, policy, to)  == [id |-> id, kind |-> "human_gate", policy |-> policy, to |-> to] @@ Blank
When(op, n, to)       == [op |-> op, num |-> TRUE, n |-> n, to |-> to]

Number(n)  == [num |-> TRUE, n |-> n]
Numbers    == {Number(0), Number(1)}
MCNumbers  == Numbers
One        == {Number(1)}
MCOne      == One
Leaves     == Numbers \cup {[num |-> FALSE, n |-> 0]}
MCLeaves   == Leaves

StepNames == {"none", "classify", "check_risk", "review", "fanout", "branch_a", "branch_b", "saved",
              "answer", "prepare", "approve", "poll", "decide", "spin", "back", "wait", "again"}
MCStepId  == StepNames

MCVersion1  == {1}
MCVersion2  == {1, 2}
MCVersion3  == {1, 2, 3}
MCNoVersion == {}
MCMetered   == {1}

\* The golden card-delivery process, with a fork and a checkpoint before the
\* answer.  The versions differ in what a timeout of the review does.
Triage(policy, to) ==
    << Leaf("classify", "llm_structured"),
       Branch("check_risk", Top("classify"), << When("<", 1, "fanout"), When(">=", 1, "review") >>),
       Gate("review", policy, to),
       Parallel("fanout", <<"branch_a", "branch_b">>),
       Leaf("branch_a", "tool"), Leaf("branch_b", "tool"),
       Leaf("saved", "checkpoint"),
       Leaf("answer", "code_act") >>
TriageVersions == <<Triage("escalate", "none"), Triage("branch", "fanout"), Triage("fail", "none")>>
MCTriage == TriageVersions  \* TLC evaluates TriageVersions once, a substituted constant at every use

TriagePath == {Top("classify"), Top("answer"), Top("user"),
               Par("fanout", "branch_a"), Par("fanout", "branch_b")}
MCTriagePath == TriagePath

\* Version 2 only adds a step at the end of version 1.
Extended == << << Leaf("classify", "tool"), Gate("review", "fail", "none"), Leaf("prepare", "tool") >>,
               << Leaf("classify", "tool"), Gate("review", "fail", "none"), Leaf("prepare", "tool"),
                  Leaf("answer", "tool") >> >>
MCExtended == Extended

\* Version 2 keeps the gate the instance stops at, and replaces what leads to it.
Replaced == << << Leaf("classify", "tool"), Gate("review", "fail", "none"), Leaf("answer", "tool") >>,
               << Leaf("prepare", "tool"), Gate("review", "fail", "none"), Leaf("answer", "tool") >> >>
MCReplaced == Replaced

\* A second gate lies behind what the timeout of the first one leads to.
TwoGates == << << Leaf("classify", "tool"), Gate("review", "branch", "prepare"),
                  Leaf("prepare", "tool"), Gate("approve", "fail", "none"),
                  Leaf("answer", "tool") >> >>
MCTwoGates == TwoGates

\* Control flow that never ends on its own (spin and back), a branch that has
\* no case for some values, a fork visited again, and the unsupported loop step.
Cyclic == << << Leaf("poll", "tool"),
                Branch("decide", Top("poll"), << When("<=", 0, "spin"), When("==", 1, "poll") >>),
                Leaf("spin", "sequential"),
                Branch("back", Top("poll"), << When("!=", 7, "spin") >>) >>,
             << Leaf("poll", "agent_step"),
                Branch("decide", Top("poll"), << When("lit", 1, "poll"), When(">", 1, "wait") >>),
                Leaf("wait", "sequential") >>,
             << Leaf("poll", "tool"),
                Parallel("fanout", <<"branch_a", "branch_b">>),
                Leaf("branch_a", "tool"), Leaf("branch_b", "tool"),
                Branch("decide", Top("poll"), << When("<=", 0, "poll"), When(">", 0, "again") >>),
                Leaf("again", "loop") >> >>

\* The versions of one process: the line that is extended, and the three with cycles.
Versions   == Extended \o Cyclic
MCVersions == Versions
MCVersion5 == 1..5

LinePath == {Top("classify"), Top("prepare"), Top("answer"), Top("user")}
MCLinePath == LinePath
CyclicPath == {Top("poll"), Top("user"), Par("fanout", "branch_a"), Par("fanout", "branch_b")}
VersionsPath   == LinePath \cup CyclicPath
MCVersionsPath == VersionsPath

-----------------------------------------------------------------------------
(* Inputs *)

UserInput  == [p \in Path |-> IF p = Top("user") THEN CHOOSE v \in Value : TRUE ELSE Absent]
MCInputs   == {UserInput}
=============================================================================
