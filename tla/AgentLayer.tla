------------------------------ MODULE AgentLayer ------------------------------
(***************************************************************************)
(* What the agent layer does inside one step of a process, side by side: a    *)
(* behaviour is one of a run of turns, a single-call step, a generated program, *)
(* nested agents, callers of the model pool, or calls to other hosts.            *)
(***************************************************************************)
EXTENDS AgentStep, Subagents, ModelCall

CONSTANTS ToolPolicies, Stubs, Budget,
          Host, DecisionList, Question, Body, Remote, ModelId, Completion, Wording, Worker,
          MaxCalls, SEARCH_HOST, FactId, Size, Score, Matching, Page, HitLimit, MaxWrites

VARIABLES part,
          task, run, events, answers,
          act_setup, act, made, calls,
          kind, contact,
          providers, request, left, skipped, heard, ruling,
          caching, model_of, worker, cache, produced, called,
          collection, points, saver, writes, scroll, stable, ever, found

S == INSTANCE SingleSteps
C == INSTANCE CodeAct
O == INSTANCE OutwardCalls

ASSUME LayerAssumption ==
    AgentAssumption /\ C!ActAssumption /\ SubagentsAssumption /\ CallAssumption /\ O!OutwardAssumption

single     == <<task, run, events, answers>>
program    == <<act_setup, act, made, calls>>
outward    == <<kind, contact, providers, request, left, skipped, heard, ruling,
                caching, model_of, worker, cache, produced, called,
                collection, points, saver, writes, scroll, stable, ever, found>>
layer_vars == <<part, agent_vars, single, program, sub_vars, call_vars, outward>>

No_turns   == setup = 0 /\ step = 0 /\ effects = 0 /\ journalled = 0
No_single  == task = 0 /\ run = 0 /\ events = 0 /\ answers = 0
No_program == act_setup = 0 /\ act = 0 /\ made = 0 /\ calls = 0
No_nested  == frames = 0 /\ spawn_stack = 0 /\ clock = 0 /\ reached = 0
No_asking  == config = 0 /\ failures = 0 /\ opened_at = 0 /\ caller = 0 /\ now = 0

LayerInit ==
    \/ part = "turns" /\ AgentInit /\ No_single /\ No_program /\ No_nested /\ No_asking /\ O!No_outward
    \/ part = "single" /\ S!SingleInit /\ No_turns /\ No_program /\ No_nested /\ No_asking /\ O!No_outward
    \/ part = "codeact" /\ C!ActInit /\ No_turns /\ No_single /\ No_nested /\ No_asking /\ O!No_outward
    \/ part = "sub" /\ SubInit /\ No_turns /\ No_single /\ No_program /\ No_asking /\ O!No_outward
    \/ part = "call" /\ CallInit /\ No_turns /\ No_single /\ No_program /\ No_nested /\ O!No_outward
    \/ part = "outward" /\ O!OutInit /\ No_turns /\ No_single /\ No_program /\ No_nested /\ No_asking

LayerNext ==
    \/ part = "turns" /\ AgentNext /\ UNCHANGED <<part, single, program, sub_vars, call_vars, outward>>
    \/ part = "single" /\ S!SingleNext
         /\ UNCHANGED <<part, agent_vars, program, sub_vars, call_vars, outward>>
    \/ part = "codeact" /\ C!ActNext
         /\ UNCHANGED <<part, agent_vars, single, sub_vars, call_vars, outward>>
    \/ part = "sub" /\ SubNext /\ UNCHANGED <<part, agent_vars, single, program, call_vars, outward>>
    \/ part = "call" /\ CallNext /\ UNCHANGED <<part, agent_vars, single, program, sub_vars, outward>>
    \/ part = "outward" /\ O!OutNext
         /\ UNCHANGED <<part, agent_vars, single, program, sub_vars, call_vars>>

LayerSpec == LayerInit /\ [][LayerNext]_layer_vars

-----------------------------------------------------------------------------
(* Properties of the parts *)

\* A tool is reached only as the gate allows, never in four turns on end by the same call,
\* and a step that ends has journalled its calls; a turn's text is scanned, so that a finish
\* carries no known secret, and the model is asked at most four times a turn.
RightTurns == part = "turns" => TurnsRight

\* A single call leaks no secret and journals one outcome for each answer; a generated
\* program stays within its calls, and what it leaves is its own finish.
AnswersRight ==
    /\ part = "single" => S!NoSecretLeaves /\ S!JournalTellsAttempts
    /\ part = "codeact" => C!ProgramsRight

\* A nested agent was spawned by right and acts inside its own bounds.
BoundedSubagents == part = "sub" => SubagentsBounded

\* The failover keeps the tier, hears every candidate, asks local ones first and rests
\* only who failed.
RightModelCalls == part = "call" => ModelCallsRight

\* Nothing private is contacted unasked; decision.ask answers with the first reply that
\* stands, a completion with what its provider said to this request, cached or not, and
\* the vector store with every fact that was there throughout.
OutwardIsTrue == part = "outward" => O!OutwardRight
=============================================================================
