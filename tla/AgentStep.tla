------------------------------ MODULE AgentStep ------------------------------
(***************************************************************************)
(* The agent_step executor (executors/src/agent_step.rs): turns of a model's  *)
(* decision, a mediated text, and a tool call behind the capability gate or a  *)
(* finish, with verdicts of the same model in between.                         *)
(***************************************************************************)
EXTENDS Mediation, FiniteSets

CONSTANTS Action,     \* tool calls the model proposes: tool, outside (the jail)
          Policy,     \* tool -> its ToolPolicy
          Granted,    \* tools with a permission given in advance
          Rego,       \* what a policy module says: tool -> silent, denies, fails
          MaxTurns

VARIABLES
    setup,      \* mode, rego, contract ("code", "config"), self_critique, verify_actions
    step,       \* the loop's locals
    effects,    \* calls that reached the dispatcher: action, turn, confirmed
    journalled  \* AgentToolTurn events of calls that reached it

agent_vars == <<setup, step, effects, journalled>>

\* A policy module is silent, denies or fails, of every tool.
AgentAssumption ==
    \A answers \in Rego, a \in Action : answers[a.tool] \in {"silent", "denies", "fails"}

None == "none"
NoAction == [tool |-> None, outside |-> FALSE]
MAX_IDENTICAL_TURNS == 4

\* What was decided, observed or refused, and how the step ended; "calls" are the calls
\* to the model in this turn.
Start == [at |-> "decide", turn |-> 0, attempt |-> 0, calls |-> 0, last |-> NoAction, repeats |-> 0,
          action |-> NoAction, reached |-> FALSE, result |-> None]

Fails(why) == step' = [step EXCEPT !.at = why]
Asks == step.calls + 1
NextTurn(s) == [s EXCEPT !.turn = @ + 1, !.attempt = 0, !.calls = 0,
                         !.action = NoAction, !.reached = FALSE,
                         !.at = IF s.turn + 1 = MaxTurns THEN "TurnsExhausted" ELSE "decide"]

\* FailoverProvider has no candidate left, or the meter stops the run.
model_fails ==
    /\ step.at \in {"decide", "verify", "critique"}
    /\ step' = [step EXCEPT !.at = "Model", !.calls = Asks]
    /\ UNCHANGED <<setup, effects, journalled>>

-----------------------------------------------------------------------------
(* decide_turn *)

mediate_turn(text, attempt) == mediate(text, attempt, FALSE, TRUE)

\* Known shapes are completed to the protocol before mediation; the content,
\* a secret in it too, stays.
repair_turn_decision(text) ==
    {text} \cup IF text.form = "torn" \/ text.grade = "shapeless"
                THEN {[text EXCEPT !.form = "whole", !.grade = "sound"]} ELSE {}

\* A finish carries a result that is part of the text.
Results(text) == [form : {"whole"}, grade : Grades,
                  secret : IF text.secret THEN BOOLEAN ELSE {FALSE}]

decided(text) ==
    \/ \E a \in Action : step' = [step EXCEPT !.at = "tool", !.action = a, !.calls = Asks]
    \/ \E r \in Results(text) :
          step' = [step EXCEPT !.at = IF setup.self_critique THEN "critique" ELSE "finalize",
                               !.result = r, !.calls = Asks]

decide_turn ==
    /\ step.at = "decide"
    /\ \E raw \in Text : \E text \in repair_turn_decision(raw) :
          LET o == mediate_turn(text, step.attempt)
          IN CASE o.kind = "Committed" -> decided(text)
               [] o.kind = "Retry" -> step' = [step EXCEPT !.attempt = @ + 1, !.calls = Asks]
               [] OTHER -> step' = [step EXCEPT !.at = o.kind, !.calls = Asks]
    /\ UNCHANGED <<setup, effects, journalled>>

-----------------------------------------------------------------------------
(* The tool of a turn: the guard against loops, then dispatch_confirmed *)

is_stuck(n) == n + 1 >= MAX_IDENTICAL_TURNS

identical(action) == IF step.last = action THEN step.repeats + 1 ELSE 0
Counted(action) == [step EXCEPT !.last = action, !.repeats = identical(action)]

Verdict(action) ==
    rego(setup.rego[action.tool],
         check(setup.mode, Policy[action.tool], action.tool \in Granted, FALSE, action.outside))

stuck ==
    /\ step.at = "tool" /\ is_stuck(identical(step.action))
    /\ Fails("StuckLoop")
    /\ UNCHANGED <<setup, effects, journalled>>

\* Denied by a rule, not by a human: an observation, and the loop goes on.
denied ==
    /\ step.at = "tool" /\ ~is_stuck(identical(step.action))
    /\ Verdict(step.action) = "Deny"
    /\ step' = [Counted(step.action) EXCEPT
                   !.at = IF setup.verify_actions THEN "verify" ELSE "record"]
    /\ UNCHANGED <<setup, effects, journalled>>

\* The tool answers or fails; either way it was called, and a human who was
\* asked had said yes.
dispatched ==
    /\ step.at = "tool" /\ ~is_stuck(identical(step.action))
    /\ Verdict(step.action) # "Deny"
    /\ effects' = Append(effects, [action |-> step.action, turn |-> step.turn,
                                   confirmed |-> Verdict(step.action) = "ConfirmRequired"])
    /\ step' = [Counted(step.action) EXCEPT
                   !.at = IF setup.verify_actions THEN "verify" ELSE "record", !.reached = TRUE]
    /\ UNCHANGED <<setup, journalled>>

human_says_no ==
    /\ step.at = "tool" /\ ~is_stuck(identical(step.action))
    /\ Verdict(step.action) = "ConfirmRequired"
    /\ Fails("ActionRejected")
    /\ UNCHANGED <<setup, effects, journalled>>

\* verify_action: a verdict is asked for once, and a bad one ends the step
\* before the turn is journalled.
verify_action ==
    /\ step.at = "verify"
    /\ \E text \in Text, passed \in BOOLEAN :
          LET o == without_retry(mediate(text, 0, FALSE, TRUE))
          IN step' = [step EXCEPT !.calls = Asks,
                        !.at = IF o.kind # "Committed" THEN o.kind
                               ELSE IF passed THEN "record" ELSE "VerificationFailed"]
    /\ UNCHANGED <<setup, effects, journalled>>

counts_effects(n, reached) == IF reached THEN n + 1 ELSE n

\* The observer, the AgentToolTurn event and the history of the next prompt.
record_turn ==
    /\ step.at = "record"
    /\ journalled' = counts_effects(journalled, step.reached)
    /\ step' = NextTurn(step)
    /\ UNCHANGED <<setup, effects>>

-----------------------------------------------------------------------------
(* Finish *)

\* A rejected answer is the next turn's feedback.
critique_finish ==
    /\ step.at = "critique"
    /\ \E text \in Text, passed \in BOOLEAN :
          LET o == without_retry(mediate(text, 0, FALSE, TRUE))
              s == [step EXCEPT !.calls = Asks]
          IN step' = IF o.kind # "Committed" THEN [s EXCEPT !.at = o.kind]
                     ELSE IF passed THEN [s EXCEPT !.at = "finalize"]
                     ELSE NextTurn([s EXCEPT !.result = None])
    /\ UNCHANGED <<setup, effects, journalled>>

\* The step's contract: a coded one brings its rules and no known secrets, a
\* configured one has no rules and is searched for secrets.
finalize_outcome(result) ==
    without_retry(IF setup.contract = "config" THEN mediate(result, 0, FALSE, TRUE)
                  ELSE mediate(result, 0, TRUE, FALSE))
finalize ==
    /\ step.at = "finalize"
    /\ Fails(finalize_outcome(step.result).kind)
    /\ UNCHANGED <<setup, effects, journalled>>

-----------------------------------------------------------------------------

\* The last 20 % of the turns, 2 to 6, carry a note to finish.
wrap_up_threshold == LET fifth == MaxTurns \div 5
                     IN IF fifth < 2 THEN 2 ELSE IF fifth > 6 THEN 6 ELSE fifth

AgentInit ==
    /\ setup \in [mode : Modes, rego : Rego, contract : {"code", "config"},
                  self_critique : BOOLEAN, verify_actions : BOOLEAN]
    /\ step = Start /\ effects = <<>> /\ journalled = 0

AgentNext ==
    \/ model_fails \/ decide_turn \/ stuck \/ denied \/ dispatched \/ human_says_no
    \/ verify_action \/ record_turn \/ critique_finish \/ finalize

AgentSpec == AgentInit /\ [][AgentNext]_agent_vars

-----------------------------------------------------------------------------
(* Properties *)

\* What reached a tool was allowed: nothing outside the jail, nothing that
\* mutates in the mode "deny", and an external effect or, in the mode
\* "manual", an undeclared one only after a human's yes.
EffectsWereAllowed ==
    \A i \in DOMAIN effects :
        LET a == effects[i].action  p == Policy[a.tool]
        IN /\ ~a.outside /\ setup.rego[a.tool] = "silent"
           /\ setup.mode = "deny" => p.mutates = "no"
           /\ p.external_effect => effects[i].confirmed
           /\ setup.mode = "manual" /\ p.requires_confirmation # "no" /\ a.tool \notin Granted
                => effects[i].confirmed

\* The same call never reaches its tool in four turns on end.
NoFourInARow ==
    \A i \in DOMAIN effects : i >= MAX_IDENTICAL_TURNS =>
        \E j \in i - MAX_IDENTICAL_TURNS + 1 .. i - 1 :
            effects[j].action # effects[i].action \/ effects[j].turn # effects[i].turn - (i - j)

\* When no verdict stands between a call and its event, a step that ends on
\* whatever path has journalled each call that reached a tool.
Ended == step.at \notin {"decide", "tool", "verify", "record", "critique", "finalize"}
EffectsAreJournalled == Ended /\ ~setup.verify_actions => journalled = Len(effects)

\* What a step leaves in the state holds no known secret and obeys its
\* contract, although the contract's own check leaves the secrets out.
PatchWasChecked ==
    step.at = "Committed" =>
        /\ ~step.result.secret
        /\ step.result.grade # "shapeless"
        /\ setup.contract = "code" => step.result.grade # "unruly"

\* The bound of the doc comment of execute, 4 * max_turns: no turn asks the model more than
\* four times, whatever is retried, verified and criticised in it.
CallsBounded == step.calls <= 4

\* A tool is reached only as the gate allows, never in four turns on end by the same call,
\* and a step that ends has journalled its calls; a turn's text is scanned, so that a finish
\* carries no known secret, and the model is asked at most four times a turn.
TurnsRight ==
    EffectsWereAllowed /\ NoFourInARow /\ EffectsAreJournalled /\ PatchWasChecked /\ CallsBounded
=============================================================================
