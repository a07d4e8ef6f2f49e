-------------------------- MODULE ProcessSemantics --------------------------
(***************************************************************************)
(* What docs/arch/process-engine.md sections 3 and 4 promise of a process   *)
(* instance, with no journal and no call in it: an interpreter that holds   *)
(* the state document, the last applied step and the place of control.      *)
(* Control passes from step to step as the graph allows; a mutating step is *)
(* entered by applying its patch; a stop of any kind puts control back      *)
(* behind the last applied step and loses nothing else.                     *)
(***************************************************************************)
EXTENDS ProcessGraph

CONSTANT Documents     \* documents an instance may start from

VARIABLES ver,   \* version of the graph, None before the start
          doc,   \* the state document
          at,    \* the last mutating step applied, None before the first
          place  \* the step control stands at

IsLeaf(v, id) == id # None /\ is_mutating_leaf(step_of(v, id).kind)

\* The steps control may go to from place p: what the graph names next, and
\* the target of a human gate's timeout.
Passes(v, d, p) ==
    LET next == next_step(v, p, d)
        redirects == /\ has_step(v, p)
                     /\ step_of(v, p).kind = "human_gate"
                     /\ step_of(v, p).policy = "branch"
    IN  (IF next.go = "single" THEN {next.id} ELSE {})
        \cup (IF redirects THEN {step_of(v, p).to} ELSE {})

Init == ver = None /\ doc = EmptyDocument /\ at = None /\ place = None

Start == /\ ver = None
         /\ ver' \in Version
         /\ doc' \in Documents
         /\ at' = None /\ place' = None

Pass == /\ ver # None
        /\ \E id \in Passes(ver, doc, place) : ~IsLeaf(ver, id) /\ place' = id
        /\ UNCHANGED <<ver, doc, at>>

Apply ==
    /\ ver # None
    /\ \E id \in Passes(ver, doc, place) :
          /\ IsLeaf(ver, id)
          /\ at' = id /\ place' = id
          /\ \E val \in Value : doc' = apply_patch(doc, id, val)
    /\ UNCHANGED ver

\* A branch of a parallel step: its patch is kept apart and control stays,
\* unless the stop comes with it.
ApplyBranch ==
    /\ ver # None
    /\ LET next == next_step(ver, place, doc)
       IN  /\ next.go = "fork"
           /\ \E val \in Value : doc' = apply_parallel_patch(doc, place, next.id, val)
    /\ place' \in {place, at}
    /\ UNCHANGED <<ver, at>>

\* A crash, an error or the end of a run, seen after the recovery.
Stop == place' = at /\ UNCHANGED <<ver, doc, at>>

Next == Start \/ Pass \/ Apply \/ ApplyBranch \/ Stop
Spec == Init /\ [][Next]_<<ver, doc, at, place>>
=============================================================================
