------------------------------ MODULE Mediation ------------------------------
(***************************************************************************)
(* What an executor asks before it acts on a model's text.  Mediation: one    *)
(* pass of the raw text through parse, schema and policy           *)
(* (berimor-mediation), shared by every executor that calls a model.  What     *)
(* the passes tell apart in a text is kept of it: whether it is JSON, cut off   *)
(* or not, what its value is worth to the contract, and whether a known secret   *)
(* is in it.                                                                      *)
(***************************************************************************)
EXTENDS Naturals, Sequences

\* The value fits the contract, has another shape or range, or breaks a cross-field rule
\* or claims another value than the state's.
Grades == {"sound", "shapeless", "unruly"}

\* Whole JSON, JSON cut off where one of the suffixes repairs it, or no JSON; a repaired
\* value is judged like a whole one.
Text == [form : {"whole", "cut"}, grade : Grades, secret : BOOLEAN]
        \cup [form : {"torn"}, grade : {"none"}, secret : BOOLEAN]

MAX_RETRIES == 2
MAX_ATTEMPTS == MAX_RETRIES + 1

more_attempts(attempt) == attempt < MAX_RETRIES

\* Only a cut text is repaired.
parse_with_repair(text) == text.form # "torn"
validate(text) == text.grade # "shapeless"

check_no_leaked_secrets(text, known_secrets) == known_secrets => ~text.secret

\* Cross-field rules and state references, which only coded contracts have.
check_rules(text, rules) == rules => text.grade # "unruly"

outcome(kind, stage) == [kind |-> kind, stage |-> stage]
retry_or_escalate(stage, attempt) ==
    outcome(IF more_attempts(attempt) THEN "Retry" ELSE "Escalate", stage)

\* mediate_traced, and mediate_config_contract when there are no rules: the
\* secret is looked for before any other policy.
mediate(text, attempt, rules, known_secrets) ==
    CASE ~parse_with_repair(text) -> retry_or_escalate("Parse", attempt)
      [] parse_with_repair(text) /\ ~validate(text) -> retry_or_escalate("Schema", attempt)
      [] parse_with_repair(text) /\ validate(text) /\ ~check_no_leaked_secrets(text, known_secrets)
            -> outcome("SecurityViolation", "Policy")
      [] parse_with_repair(text) /\ validate(text) /\ check_no_leaked_secrets(text, known_secrets)
            /\ ~check_rules(text, rules) -> outcome("Escalate", "Policy")
      [] OTHER -> outcome("Committed", "Commit")

\* The stages a text passed, in the order they are journalled, and the event
\* of the outcome after them.
trace(text) ==
    (IF text.form = "cut" THEN <<"MediationParseRepaired">> ELSE <<>>)
    \o (IF parse_with_repair(text) THEN <<"MediationParsed">> ELSE <<>>)
    \o (IF parse_with_repair(text) /\ validate(text) THEN <<"MediationValidated">> ELSE <<>>)

outcome_to_event_kind(o) ==
    CASE o.kind = "Committed" -> "MediationCommitted"
      [] o.kind = "SecurityViolation" -> "SecurityEvent"
      [] OTHER -> "MediationRejected"

\* A verdict is asked for once: a retry is an escalation.
without_retry(o) == IF o.kind = "Retry" THEN outcome("Escalate", o.stage) ELSE o

-----------------------------------------------------------------------------
(* The capability gate (capability/src/confirm.rs): deny statics and the jail
   first and without exception, then the mode of confirmations with the tool's
   declared policy. *)

\* What is declared of a tool; "unset" is None.
Option == {"yes", "no", "unset"}
ToolPolicy == [mutates : Option, requires_confirmation : Option, external_effect : BOOLEAN]
Undeclared == [mutates |-> "unset", requires_confirmation |-> "unset", external_effect |-> FALSE]
Modes == {"deny", "smart", "manual", "off"}

\* The executor does not know the tool and says that it mutates.
mutates(policy) == policy.mutates # "no"

\* Bug: an external effect is asked about before the mode can refuse it.
asks_first(mode, policy) ==
    IF policy.external_effect THEN "ask" ELSE IF mode = "deny" /\ mutates(policy) THEN "refuse" ELSE "mode"
before_mode(mode, policy) ==
    IF mode = "deny" /\ mutates(policy) THEN "refuse" ELSE IF policy.external_effect THEN "ask" ELSE "mode"

by_mode(mode, policy, is_auto) ==
    CASE mode \in {"deny", "off"} -> "Allow"
      [] mode = "smart" ->
            IF ~is_auto /\ (\/ policy.requires_confirmation = "yes"
                            \/ policy.requires_confirmation = "unset" /\ mutates(policy))
            THEN "ConfirmRequired" ELSE "Allow"
      [] mode = "manual" ->
            IF policy.requires_confirmation = "no" \/ is_auto THEN "Allow" ELSE "ConfirmRequired"

evaluate(mode, policy, is_auto) ==
    CASE before_mode(mode, policy) = "refuse" -> "Deny"
      [] before_mode(mode, policy) = "ask" -> "ConfirmRequired"
      [] before_mode(mode, policy) = "mode" -> by_mode(mode, policy, is_auto)

\* StandardCapability::check: what deny::analyze and the jail find, then evaluate.
check(mode, policy, is_auto, forbidden, outside) ==
    IF forbidden \/ outside THEN "Deny" ELSE evaluate(mode, policy, is_auto)

\* RegoGate around it: messages deny, an evaluation that fails denies, and an
\* empty or undefined answer leaves the decision to the static rules.
rego(found, decision) == IF found \in {"denies", "fails"} THEN "Deny" ELSE decision
=============================================================================
