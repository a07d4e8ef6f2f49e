----------------------------- MODULE SingleSteps -----------------------------
(***************************************************************************)
(* The executors without turns: llm_structured (executors/src/               *)
(* structured_llm.rs) asks for one answer, at most three times, and tool_only  *)
(* (tool_only.rs) makes one call with arguments from the state.  Text that     *)
(* leaves through a tool, a journal or a patch is masked (berimor-secrets).    *)
(***************************************************************************)
EXTENDS Mediation, FiniteSets

CONSTANTS ToolPolicies,  \* tool -> its ToolPolicy
          Stubs          \* tools StaticToolDispatch answers for

VARIABLES
    task,       \* what the step asks for
    run,        \* the executor
    events,     \* what on_attempt journalled
    answers     \* the texts of the model, in order

single_vars == <<task, run, events, answers>>

\* Contracts by name: the coded registry first, then the configured one, which
\* may not repeat a name.
CodedContracts == {"ClassificationOut", "SupportReply"}
ConfigContracts == {"Ticket"}
find_contract(name) == name \in CodedContracts
find_config_contract(name) == name \in ConfigContracts

LlmTasks == [kind : {"llm"}, contract : CodedContracts \cup ConfigContracts \cup {"Unknown"}]
ToolTasks == [kind : {"tool"}, tool : DOMAIN ToolPolicies, mode : Modes, resolves : BOOLEAN,
              secret_args : BOOLEAN]

Idle == [at |-> "start", attempt |-> 0, feedback |-> FALSE, patch |-> "none", secret |-> FALSE]
Stops(why) == run' = [run EXCEPT !.at = why]

-----------------------------------------------------------------------------
(* StructuredLlm::execute and execute_config_contract *)

\* A class without an entry is an error, never a lower class.
select_provider ==
    /\ task.kind = "llm" /\ run.at = "start"
    /\ \E why \in {"NoProvider", "ask"} :
          Stops(IF ~find_contract(task.contract) /\ ~find_config_contract(task.contract)
                THEN "UnknownContract" ELSE why)
    /\ UNCHANGED <<task, events, answers>>

mediate_answer(text, attempt) == mediate(text, attempt, find_contract(task.contract), TRUE)


Journals(text, o) == events' = events \o trace(text) \o <<outcome_to_event_kind(o)>>

ask_model ==
    /\ run.at = "ask"
    /\ \E text \in Text :
          LET o == mediate_answer(text, run.attempt)
          IN /\ Journals(text, o)
             /\ answers' = Append(answers, text)
             /\ run' = CASE o.kind = "Committed" ->
                              [run EXCEPT !.at = "Committed", !.patch = text.grade, !.secret = text.secret]
                         [] o.kind = "Retry" -> [run EXCEPT !.attempt = @ + 1, !.feedback = TRUE]
                         [] OTHER -> [run EXCEPT !.at = o.kind]
    /\ UNCHANGED task

model_fails == run.at = "ask" /\ Stops("Model") /\ UNCHANGED <<task, events, answers>>

-----------------------------------------------------------------------------
(* tool_only::execute *)

\* Bug: only strings at the top of an answer are masked.
mask_nothing(secret) == secret
\* Masker: each known value, in any string of the answer, becomes the alias.
mask_value(secret) == FALSE


resolve_template ==
    /\ task.kind = "tool" /\ run.at = "start"
    /\ Stops(IF task.resolves THEN "gate" ELSE "UnresolvedTemplate")
    /\ UNCHANGED <<task, events, answers>>

dispatch_confirmed ==
    /\ run.at = "gate"
    /\ LET verdict == check(task.mode, ToolPolicies[task.tool], FALSE, FALSE, FALSE)
       IN \E yes \in BOOLEAN :
            Stops(CASE verdict = "Deny" -> "CapabilityDenied"
                    [] verdict = "ConfirmRequired" /\ ~yes -> "ConfirmationRejected"
                    [] OTHER -> "dispatch")
    /\ UNCHANGED <<task, events, answers>>

\* The tool sees the real arguments and may echo them; an undeclared stub is
\* an error, whose text is masked too.
dispatch ==
    /\ run.at = "dispatch"
    /\ \E echoes \in BOOLEAN :
          LET secret == mask_value(task.secret_args /\ echoes)
          IN run' = IF task.tool \in Stubs
                    THEN [run EXCEPT !.at = "Committed", !.patch = "value", !.secret = secret]
                    ELSE [run EXCEPT !.at = "Dispatch", !.secret = secret]
    /\ UNCHANGED <<task, events, answers>>

SingleInit ==
    /\ task \in LlmTasks \cup ToolTasks
    /\ run = Idle /\ events = <<>> /\ answers = <<>>

SingleNext ==
    \/ select_provider \/ ask_model \/ model_fails
    \/ resolve_template \/ dispatch_confirmed \/ dispatch

SingleSpec == SingleInit /\ [][SingleNext]_single_vars

-----------------------------------------------------------------------------
(* Properties *)

\* No known secret gets into the state or into an error's text, whether the
\* contract is coded or configured and whether a tool echoes its arguments; a
\* patch of a coded contract obeys its rules.
NoSecretLeaves ==
    /\ ~run.secret
    /\ run.at = "Committed" /\ task.kind = "llm" =>
          /\ run.patch # "shapeless"
          /\ find_contract(task.contract) => run.patch # "unruly"

\* The journal tells the attempts: one outcome for each answer, only the last
\* one may be a commit, and a repaired text is marked before its outcome.
Told(kinds) == {i \in DOMAIN events : events[i] \in kinds}
JournalTellsAttempts ==
    /\ Cardinality(Told({"MediationCommitted", "MediationRejected", "SecurityEvent"})) = Len(answers)
    /\ Len(answers) <= MAX_ATTEMPTS
    /\ \A i \in Told({"MediationCommitted"}) : i = Len(events) /\ run.at = "Committed"
    /\ Cardinality(Told({"MediationParseRepaired"})) = Cardinality({i \in DOMAIN answers : answers[i].form = "cut"})
=============================================================================
