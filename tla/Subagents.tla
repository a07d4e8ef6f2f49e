------------------------------ MODULE Subagents ------------------------------
(***************************************************************************)
(* The tool agents.run (cli/src/agent_dispatch.rs, agents.rs): a nested        *)
(* agent_step with a ceiling of tools and a deadline, down to a grandchild.    *)
(* The run is one thread: the frame on top is the one that acts.               *)
(***************************************************************************)
EXTENDS Naturals, Sequences, FiniteSets

CONSTANTS Global, Project,  \* agent.yaml by name: tools, allow_spawn, wall
          Tool, Builtin,    \* what the root's dispatcher knows; the built-in names in it
          MaxTime           \* bound: the clock

VARIABLES
    frames,     \* the nested loops: agent, allowed, deadline
    spawn_stack,\* AgentRunContext.spawn_stack
    clock,
    reached     \* the latest tool call that reached the root's dispatcher

sub_vars == <<frames, spawn_stack, clock, reached>>

MAX_SPAWN_DEPTH == 2
Unlimited == {"*"}
Nobody == [tool |-> "agents.run", by |-> <<>>, at |-> 0]

\* load_all: a project's definition replaces a global one of the same name.
AgentNames == DOMAIN Global \cup DOMAIN Project
load_all == [n \in AgentNames |-> IF n \in DOMAIN Project THEN Project[n] ELSE Global[n]]

\* agent.tools and the chat's tools; no list is no ceiling.
ceiling(def) == IF def.tools = {} THEN Unlimited ELSE def.tools \cap Builtin

\* Unlimited is not a list of tools, and a time limit is a number of seconds.
SubagentsAssumption ==
    /\ Unlimited \cap Builtin = {}
    /\ \A n \in AgentNames : load_all[n].wall \in Nat

Permits(allowed, tool) == allowed = Unlimited \/ tool \in allowed
Top == frames[Len(frames)]

-----------------------------------------------------------------------------

\* Bug: the depth is the only limit.
by_depth(stack) == Len(stack) < MAX_SPAWN_DEPTH
\* run_agent: the top of the stack is the spawning agent's own right.
may_spawn(stack) == stack # <<>> => (Len(stack) < MAX_SPAWN_DEPTH /\ stack[Len(stack)])


\* DeadlineDispatch of the frame on top; the chat itself has none.
passes(tool) == frames # <<>> => (clock <= Top.deadline /\ Permits(Top.allowed, tool))

\* The child's dispatcher is AgentRunDispatch itself, so what passes the
\* child's own ceiling and deadline is asked of no other frame.
run_agent(name) ==
    /\ passes("agents.run") /\ may_spawn(spawn_stack)
    /\ spawn_stack' = Append(spawn_stack, load_all[name].allow_spawn)
    /\ frames' = Append(frames, [agent |-> name, allowed |-> ceiling(load_all[name]),
                                 deadline |-> clock + load_all[name].wall])
    /\ UNCHANGED <<clock, reached>>

call_tool(tool) ==
    /\ tool # "agents.run" /\ passes(tool)
    /\ reached' = [tool |-> tool, by |-> frames, at |-> clock]
    /\ UNCHANGED <<frames, spawn_stack, clock>>

\* The nested loop ends, with an answer or an error: after its deadline each
\* call of a model is Unavailable.
agent_returns ==
    /\ frames # <<>>
    /\ frames' = SubSeq(frames, 1, Len(frames) - 1)
    /\ spawn_stack' = SubSeq(spawn_stack, 1, Len(spawn_stack) - 1)
    /\ UNCHANGED <<clock, reached>>

time_passes == clock < MaxTime /\ clock' = clock + 1 /\ UNCHANGED <<frames, spawn_stack, reached>>

SubInit == frames = <<>> /\ spawn_stack = <<>> /\ clock = 0 /\ reached = Nobody

SubNext ==
    \/ time_passes \/ agent_returns
    \/ \E name \in AgentNames : run_agent(name)
    \/ \E tool \in Tool : call_tool(tool)

SubSpec == SubInit /\ [][SubNext]_sub_vars

-----------------------------------------------------------------------------
(* Properties *)

\* No agent exists that its spawner had no right to spawn, at any depth, and
\* the stack of rights is the stack of loops.
SpawnedByRight ==
    /\ Len(frames) = Len(spawn_stack) /\ Len(frames) <= MAX_SPAWN_DEPTH
    /\ \A i \in 1 .. Len(frames) - 1 : load_all[frames[i].agent].allow_spawn

\* An agent's call reaches a tool only inside its own list of tools and its own
\* time, while other agents run below it or return.
OwnBoundsHold ==
    reached.by # <<>> =>
        LET f == reached.by[Len(reached.by)]  tools == load_all[f.agent].tools
        IN (tools # {} => reached.tool \in tools \cap Builtin) /\ reached.at <= f.deadline

\* A nested agent was spawned by right and acts inside its own bounds.
SubagentsBounded == OwnBoundsHold /\ SpawnedByRight
=============================================================================
