------------------------------ MODULE ToolRuntime ------------------------------
(***************************************************************************)
(* The tools of one run: how the bundle collects them (run.rs), which policy    *)
(* the gate gets for a name, which component a call of the name reaches           *)
(* (mcp_dispatch.rs), and the work of a plugin's child process or of a server       *)
(* that a call waits for or gives up (plugin_runtime.rs).                           *)
(***************************************************************************)
EXTENDS Naturals, Sequences, FiniteSets, SequencesExt

CONSTANTS
    Tool,
    BuiltinTool,    \* built-in tool -> whether it mutates
    Stub,           \* tool of a tool_stub -> whether the operator says it mutates
    Manifest,       \* installed plugin -> tool -> whether its manifest says it mutates
    Servers,        \* configurations: the MCP servers in order, [name, tools: a sequence]
    MaxCalls

VARIABLES stage,      \* "scan", "connect", "ready", "refused" or "closed"
          plugins,    \* the plugins in the order their directories were read
          policies,   \* what the gate knows of the mutations: tool -> BOOLEAN
          servers,    \* mcp_servers of the configuration
          connected,  \* how many of them have been connected to
          routes,     \* tool_to_server: tool -> the name of a server
          clients,    \* the name of a server -> the place of the one connected to
          call,       \* the call of the run's only caller
          results,    \* how the earlier calls ended
          works,      \* what others do for a call, by its number: [to, tool, state]
          late        \* the calls for which something was done after their end

\* What the configuration lists are sequences.
ToolAssumption == Servers \subseteq Seq([name : STRING, tools : Seq(STRING)])

tool_vars == <<stage, plugins, policies, servers, connected, routes, clients, call, results,
               works, late>>
bundle == <<stage, plugins, policies, servers, connected, routes, clients>>

ToolInit ==
    /\ stage = "scan" /\ plugins = <<>> /\ policies = Stub
    /\ servers \in Servers /\ connected = 0 /\ routes = <<>> /\ clients = <<>>
    /\ call = [at |-> "none"] /\ results = <<>> /\ works = <<>> /\ late = {}

-----------------------------------------------------------------------------
(* The bundle *)

over(f, g) == [t \in DOMAIN f \cup DOMAIN g |-> IF t \in DOMAIN g THEN g[t] ELSE f[t]]
Declaring(order, t) == {k \in DOMAIN order : t \in DOMAIN Manifest[order[k]]}
\* The last insert of a name counts.
declared(order) ==
    [t \in UNION {DOMAIN Manifest[p] : p \in ToSet(order)} |->
        Manifest[order[Max(Declaring(order, t))]][t]]

\* A directory without its binary or with a broken manifest is passed over. The policies of
\* the built-in tools and then of each manifest are inserted over what is there.
scan ==
    /\ stage = "scan" /\ stage' = "connect"
    /\ \E found \in SUBSET DOMAIN Manifest : plugins' \in SetToSeqs(found)
    /\ policies' = over(over(Stub, BuiltinTool), declared(plugins'))
    /\ UNCHANGED <<servers, connected, routes, clients, call, results, works, late>>

\* A name listed before, by this server or another, refuses the start.
duplicate(server) ==
    ~IsInjective(server.tools) \/ ToSet(server.tools) \cap DOMAIN routes # {}
next_server == servers[connected + 1]
connect ==
    /\ stage = "connect" /\ connected < Len(servers) /\ ~duplicate(next_server)
    /\ connected' = connected + 1
    /\ routes' = over(routes, [t \in ToSet(next_server.tools) |-> next_server.name])
    /\ clients' = over(clients, [name \in {next_server.name} |-> connected + 1])
    /\ UNCHANGED <<stage, plugins, policies, servers, call, results, works, late>>

\* The workspace cannot be a jail, the policy file or the sandbox's settings do not load, a
\* server does not start or does not list its tools, or one lists a name again.
refuses ==
    /\ stage \in {"scan", "connect"} /\ stage' = "refused" /\ routes' = <<>> /\ clients' = <<>>
    /\ UNCHANGED <<plugins, policies, servers, connected, call, results, works, late>>

stands ==
    /\ stage = "connect" /\ connected = Len(servers) /\ stage' = "ready"
    /\ UNCHANGED <<plugins, policies, servers, connected, routes, clients, call, results, works, late>>

\* The run is over: the sessions are closed, and the servers with them.
drop ==
    /\ stage = "ready" /\ call.at = "none" /\ stage' = "closed" /\ clients' = <<>>
    /\ works' = Restrict(works, {n \in DOMAIN works : works[n].to[1] = "plugin"})
    /\ UNCHANGED <<plugins, policies, servers, connected, routes, call, results, late>>

-----------------------------------------------------------------------------
(* Calls *)

\* CompositeToolDispatch: built-in tools, then the first plugin, then servers, then stubs.
component(t) ==
    LET given == Declaring(plugins, t)
    IN CASE t \in DOMAIN BuiltinTool -> <<"builtin">>
         [] t \notin DOMAIN BuiltinTool /\ given # {} -> <<"plugin", plugins[Min(given)]>>
         [] t \notin DOMAIN BuiltinTool /\ given = {} /\ t \in DOMAIN routes ->
               <<"mcp", clients[routes[t]]>>
         [] OTHER -> <<"stub">>

calls_tool(t) ==
    /\ stage = "ready" /\ call.at = "none" /\ Len(results) < MaxCalls
    /\ call' = [at |-> "begun", tool |-> t, to |-> component(t)]
    /\ UNCHANGED <<bundle, results, works, late>>

number == Len(results) + 1
answered(result) == call' = [at |-> "none"] /\ results' = Append(results, result)

answers_here ==
    /\ call.at = "begun"
    /\ \/ call.to = <<"builtin">> /\ \E result \in {"ok", "error"} : answered(result)
       \/ call.to = <<"stub">> /\ answered(IF call.tool \in DOMAIN Stub THEN "ok" ELSE "error")
    /\ UNCHANGED <<bundle, works, late>>

\* A child is spawned or a server asked. The child's arguments are written before the time
\* of the call starts to count.
hands_over ==
    /\ call.at = "begun" /\ call.to[1] \in {"plugin", "mcp"}
    /\ \/ /\ call' = [call EXCEPT !.at = IF call.to[1] = "plugin" THEN "writing" ELSE "waiting"]
          /\ works' = over(works, [n \in {number} |-> [to |-> call.to, tool |-> call.tool,
                                                       state |-> "runs"]])
          /\ UNCHANGED results
       \/ answered("error") /\ UNCHANGED works
    /\ UNCHANGED <<bundle, late>>

\* write_all returns; its error is not looked at.
writes ==
    /\ call.at = "writing" /\ call' = [call EXCEPT !.at = "waiting"]
    /\ UNCHANGED <<bundle, results, works, late>>

Others(ns) == Restrict(works, DOMAIN works \ ns)

\* The exit status and the JSON of a child, or the response of a server, decide.
collects ==
    /\ call.at = "waiting" /\ works[number].state # "runs"
    /\ answered(works[number].state) /\ works' = Others({number}) /\ UNCHANGED <<bundle, late>>

\* Thirty seconds: nobody waits for the child any more, and nobody stops it.
times_out ==
    /\ call.at = "waiting" /\ call.to[1] = "plugin" /\ answered("timeout")
    /\ works' = Others({n \in {number} : works[n].state # "runs"}) /\ UNCHANGED <<bundle, late>>

\* The wait for the child or the server's connection fails.
breaks ==
    /\ call.at = "waiting" /\ works[number].state = "runs" /\ answered("lost")
    /\ UNCHANGED <<bundle, works, late>>

\* A server knows the tools it has listed.
knows(w) == w.to[1] = "mcp" => \E k \in DOMAIN servers : w.to[2] = k /\ w.tool \in ToSet(servers[k].tools)
acts(n) ==
    /\ works[n].state = "runs" /\ knows(works[n])
    /\ late' = late \cup ((1..Len(results)) \cap {n}) /\ UNCHANGED <<bundle, call, results, works>>
ends(n) ==
    /\ works[n].state = "runs"
    /\ IF n = number
         THEN \E state \in {"ok", "error"} :
                 /\ state = "ok" => knows(works[n])
                 /\ works' = [works EXCEPT ![n].state = state]
         ELSE works' = Others({n})
    /\ UNCHANGED <<bundle, call, results, late>>

ToolNext ==
    \/ scan \/ connect \/ refuses \/ stands \/ drop \/ (\E t \in Tool : calls_tool(t))
    \/ answers_here \/ hands_over \/ writes \/ collects \/ times_out \/ breaks
    \/ (\E n \in DOMAIN works : acts(n) \/ ends(n))

-----------------------------------------------------------------------------
(* Properties *)

\* Two components may give one name: a plugin that of a built-in tool or of another
\* plugin's, a server that of a stub.
Shadows(t) ==
    \/ t \in DOMAIN BuiltinTool /\ Declaring(plugins, t) # {}
    \/ \E j, k \in Declaring(plugins, t) : j # k
    \/ /\ t \notin DOMAIN BuiltinTool /\ Declaring(plugins, t) = {}
       /\ t \in DOMAIN routes \cap DOMAIN Stub

DeclaredBy(c, t) ==
    CASE c[1] = "builtin" -> BuiltinTool[t]
      [] c[1] = "plugin" -> Manifest[c[2]][t]
      [] c[1] = "stub" /\ t \in DOMAIN Stub -> Stub[t]
      [] OTHER -> TRUE
\* The executor proposes every call as a mutation; a policy corrects it.
Mutates(t) == IF t \in DOMAIN policies THEN policies[t] ELSE TRUE

\* Except for these, the gate judges a tool by what the component says of it that its
\* calls reach (build_executor_bundle, CompositeToolDispatch).
PolicyIsTheCallees ==
    stage = "ready" =>
        \A t \in Tool : ~Shadows(t) => Mutates(t) = DeclaredBy(component(t), t)

\* When the configuration gives every server a name of its own, every listed tool leads to
\* the server that lists it (McpToolDispatch::connect).
NoServerIsShadowed ==
    (stage = "ready" /\ IsInjective([k \in DOMAIN servers |-> servers[k].name])) =>
        \A k \in DOMAIN servers : \A t \in ToSet(servers[k].tools) : clients[routes[t]] = k

\* Only a call that ran out of time or whose connection broke is followed by anything done
\* for it: an "ok" or an "error" is final (PluginRuntimeDispatch::call, McpClient::call_tool).
AnswersAreFinal == \A n \in late : results[n] \in {"timeout", "lost"}
=============================================================================
