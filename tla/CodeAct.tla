------------------------------- MODULE CodeAct -------------------------------
(***************************************************************************)
(* The codeact executor (executors/src/codeact), its wasm host and the guest  *)
(* (codeact-guest): a model writes a program, the analysis reads it, the       *)
(* sandbox runs it, and what it finishes with is mediated like any answer.     *)
(***************************************************************************)
EXTENDS Mediation, FiniteSets

CONSTANTS Budget    \* bound: tool calls of one program, by the model's tier

VARIABLES
    act_setup,  \* the step's contract and the model's tier
    act,        \* the executor: attempt, what it does, the guest's finish
    made,       \* HostState.tool_calls_made of the running program
    calls       \* calls that reached a tool, each with its attempt and where

act_vars == <<act_setup, act, made, calls>>

Nothing == [form |-> "none", grade |-> "none", secret |-> FALSE]
Oversize == [Nothing EXCEPT !.form = "oversize"]
Values == [form : {"whole"}, grade : Grades, secret : BOOLEAN]

\* What the analysis can find in a program: a listed or another tool's name as
\* a literal, a computed name, a free name that is not in SAFE_GLOBALS, and
\* constructs that need no name.
Finds == {"listed", "computed", "unlisted", "free_name", "this", "new_target", "import", "random"}
Programs == {p \in SUBSET Finds : Cardinality(p) <= 2}

\* ReferenceChecker: a computed name cannot be seen here; the host checks it.
analyze(program) == program \subseteq {"listed", "computed"}

\* What a program that runs may name.
Tools(program) == (IF "listed" \in program THEN {"listed"} ELSE {})
                  \cup (IF "computed" \in program THEN {"listed", "unlisted"} ELSE {})

Limit == Budget[act_setup.tier]
ActAssumption == \A tier \in DOMAIN Budget : Budget[tier] \in Nat

Fresh(attempt) == [at |-> "ask", attempt |-> attempt, program |-> {}, finished |-> Nothing,
                   called |-> FALSE, said |-> {}, result |-> Nothing, threw |-> Nothing]
Quits(why) == act' = [act EXCEPT !.at = why]

\* The last attempt ends the step: in a failed program as AttemptsExhausted.
After(a) == IF a + 1 = MAX_ATTEMPTS THEN [Fresh(a) EXCEPT !.at = "AttemptsExhausted"] ELSE Fresh(a + 1)

-----------------------------------------------------------------------------
(* CodeActExecutor::execute: one provider, no failover *)

unavailable == act.at = "ask" /\ Quits("Model") /\ UNCHANGED <<act_setup, made, calls>>

asks_program ==
    /\ act.at = "ask"
    /\ \E program \in Programs :
          act' = IF analyze(program) THEN [act EXCEPT !.at = "runs", !.program = program]
                 ELSE After(act.attempt)
    /\ made' = 0
    /\ UNCHANGED <<act_setup, calls>>

mediate_result ==
    /\ act.at = "mediate"
    /\ LET o == mediate(act.result, act.attempt, act_setup.contract = "code", TRUE)
       IN act' = IF o.kind = "Retry" THEN Fresh(act.attempt + 1) ELSE [act EXCEPT !.at = o.kind]
    /\ UNCHANGED <<act_setup, made, calls>>

-----------------------------------------------------------------------------
(* host_call_tool *)

counts_calls(n, ok) == n + 1


tool_allowed(tool) == tool = "listed"

\* A tool that is not listed, or one call over the budget, is refused in the
\* envelope and not counted.  Then dispatch_confirmed: the gate or the human
\* refuses, or the tool is reached and answers or fails.  The guest takes an
\* answer larger than its buffer for a refusal, whatever the tool has done.
host_call_tool ==
    /\ act.at = "runs"
    /\ \E tool \in Tools(act.program), ok, reached \in BOOLEAN :
          /\ tool_allowed(tool) /\ made < Limit /\ (ok => reached)
          /\ made' = counts_calls(made, ok)
          /\ calls' = IF reached THEN Append(calls, [attempt |-> act.attempt, tool |-> tool]) ELSE calls
    /\ UNCHANGED <<act_setup, act>>

-----------------------------------------------------------------------------
(* The guest: finish throws, and the program may catch it *)

\* A string over the cap is not recorded, but finish was called.
Finished(v) ==
    IF v = Oversize THEN [act EXCEPT !.called = TRUE]
    ELSE [act EXCEPT !.finished = v, !.called = TRUE, !.said = @ \cup {v}]

finish_propagates ==
    /\ act.at = "runs"
    /\ \E v \in Values : act' = [Finished(v) EXCEPT !.at = "mediate", !.result = v, !.threw = v]
    /\ UNCHANGED <<act_setup, made, calls>>

\* Bound: a program catches finish once.
finish_caught ==
    /\ act.at = "runs" /\ ~act.called
    /\ \E v \in Values \cup {Oversize} :
          act' = Finished(v)
    /\ UNCHANGED <<act_setup, made, calls>>

own_exception(thrown) == act.called /\ thrown = act.finished


\* Another exception reaches the top; only one equal to the recorded value is
\* taken for finish's own.
throws ==
    /\ act.at = "runs"
    /\ \E thrown \in Values \cup {Oversize} :
          act' = IF own_exception(thrown) /\ act.finished # Nothing
                 THEN [act EXCEPT !.at = "mediate", !.result = act.finished, !.threw = thrown]
                 ELSE After(act.attempt)
    /\ UNCHANGED <<act_setup, made, calls>>

\* The program ends; a finish that was caught still counts.
ends ==
    /\ act.at = "runs"
    /\ act' = IF act.finished = Nothing THEN After(act.attempt)
              ELSE [act EXCEPT !.at = "mediate", !.result = act.finished]
    /\ UNCHANGED <<act_setup, made, calls>>

\* Fuel or memory run out.
traps == act.at = "runs" /\ act' = After(act.attempt) /\ UNCHANGED <<act_setup, made, calls>>

ActInit ==
    /\ act_setup \in [contract : {"code", "config"}, tier : DOMAIN Budget]
    /\ act = Fresh(0) /\ made = 0 /\ calls = <<>>

ActNext ==
    \/ unavailable \/ asks_program \/ mediate_result
    \/ host_call_tool
    \/ finish_propagates \/ finish_caught \/ throws \/ ends \/ traps

ActSpec == ActInit /\ [][ActNext]_act_vars

-----------------------------------------------------------------------------
(* Properties *)

\* Only the step's tools are reached, even by a name the analysis cannot see,
\* and by no program more often than its tier's budget, whatever they answer.
CallsWithinBudget ==
    /\ \A i \in DOMAIN calls : calls[i].tool = "listed"
    /\ \A n \in 0 .. MAX_ATTEMPTS - 1 :
          Cardinality({i \in DOMAIN calls : calls[i].attempt = n}) <= Limit

\* What is committed was said to finish by the very program that ran last,
\* which no other exception has ended; it holds no known secret and fits the
\* contract.
CommittedWasFinished ==
    act.at = "Committed" =>
        /\ act.result \in act.said
        /\ act.threw = Nothing \/ act.threw \in act.said
        /\ ~act.result.secret /\ act.result.grade # "shapeless"
        /\ act_setup.contract = "code" => act.result.grade # "unruly"

\* A generated program stays within its calls, and what it leaves is its own finish.
ProgramsRight == CallsWithinBudget /\ CommittedWasFinished
=============================================================================
