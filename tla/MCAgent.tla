------------------------------- MODULE MCAgent -------------------------------
(***************************************************************************)
(* The agent layer on small instances, and beside it the fixed rules of the     *)
(* capability layer: a command before the deny statics, a path before the jail   *)
(* and a shell in its box.                                                        *)
(***************************************************************************)
EXTENDS AgentLayer, TLC

CONSTANTS Command, Wrapper, MaxMixed, MaxWrap,
          Root, Dirs, LinkAt, Component, MaxPath, Setting, Port, MaxForks

VARIABLES plain, layers, line,
          links, path, absolute,
          box

L == INSTANCE CapabilityRules

command == <<plain, layers, line>>
jail    == <<links, path, absolute>>
vars    == <<layer_vars, command, jail, box>>

No_layer   == No_turns /\ No_single /\ No_program /\ No_nested /\ No_asking /\ O!No_outward
No_command == plain = 0 /\ layers = 0 /\ line = 0
No_jail    == links = 0 /\ path = 0 /\ absolute = 0
No_box     == box = 0

Init ==
    \/ LayerInit /\ No_command /\ No_jail /\ No_box
    \/ part = "line" /\ L!LineInit /\ No_layer /\ No_jail /\ No_box
    \/ part = "path" /\ L!JailInit /\ No_layer /\ No_command /\ No_box
    \/ part = "box" /\ L!BoxInit /\ No_layer /\ No_command /\ No_jail

Next ==
    \/ LayerNext /\ UNCHANGED <<command, jail, box>>
    \/ part = "line" /\ L!LineNext /\ UNCHANGED <<layer_vars, jail, box>>
    \/ part = "path" /\ L!JailNext /\ UNCHANGED <<layer_vars, command, box>>
    \/ part = "box" /\ L!BoxNext /\ UNCHANGED <<layer_vars, command, jail>>

Spec == Init /\ [][Next]_vars

Symmetry == Permutations(Caller)

-----------------------------------------------------------------------------
(* Values *)

MCPolicy ==
    [read   |-> [mutates |-> "no", requires_confirmation |-> "no", external_effect |-> FALSE],
     write  |-> [mutates |-> "yes", requires_confirmation |-> "unset", external_effect |-> FALSE],
     deploy |-> [mutates |-> "yes", requires_confirmation |-> "no", external_effect |-> TRUE]]
MCAction == {[tool |-> t, outside |-> FALSE] : t \in DOMAIN MCPolicy}
                \cup {[tool |-> "write", outside |-> TRUE]}
MCRego == {[read |-> "silent", write |-> "silent", deploy |-> "silent"],
           [read |-> "silent", write |-> "denies", deploy |-> "fails"]}
MCBudget == [strong |-> 2, reduced |-> 1]

Agent(tools, spawn, wall) == [tools |-> tools, allow_spawn |-> spawn, wall |-> wall]
MCGlobal == [lead |-> Agent({"files.read", "agents.run"}, TRUE, 1),
             scout |-> Agent({"files.read", "shell.exec", "agents.run"}, TRUE, 2)]
MCProject == [scout |-> Agent({"files.read", "shell.exec", "mcp.write", "agents.run"}, FALSE, 2),
              free |-> Agent({}, TRUE, 1)]
MCBuiltin == {"files.read", "shell.exec", "agents.run"}
MCTool == MCBuiltin \cup {"mcp.write"}

Model(name, tier, remote, cost, latency) ==
    [name |-> name, tier |-> tier, remote |-> remote, cost |-> cost, latency |-> latency]
MCEntry == <<Model("r1", 3, TRUE, 2, 9), Model("r2", 2, TRUE, 1, 0), Model("l1", 3, FALSE, 0, 0)>>

MCConfig ==
    {[breaker_failures |-> 2, breaker_cooldown |-> 1, wired |-> {"r1", "r2", "l1"}],
     [breaker_failures |-> 0, breaker_cooldown |-> 1, wired |-> {"r1", "l1"}]}

MCCommand ==
    {<<"rm", "-r", "/">>, <<"rm", "-r", "/outside">>, <<"rm", "-r", "inside">>, <<"rm", "/outside">>,
     <<"dd", "of=/dev/sda">>, <<"find", "/outside", "-delete">>, <<"find", "inside", "-exec", "rm">>,
     <<"sudo", "ls">>, <<"chmod", "u+s", "inside">>, <<"chown", "root", "inside">>, <<"tee", "/dev/null">>,
     <<"tee", "/dev/sda">>, <<"cp", "/outside", "inside">>, <<"cp", "-t", "/outside", "inside">>,
     <<"rsync", "inside", "/outside">>, <<"sed", "-i", "s", "$VAR">>, <<"tar", "--create", "-f", "/outside">>,
     <<"tar", "-f", "/outside", "-C", "inside">>, <<"echo", "hi", ">", "$VAR">>,
     <<"echo", ">", ".berimor/allow">>, <<"cat", ".berimor/allow">>, <<"f(){f&};f">>,
     <<"mkfs", "/dev/sda">>, <<"fdisk">>, <<"unshare", "--reuid">>}
MCWrapper == [env |-> <<"env", "-u", "NAME", "A=1">>, exec |-> <<"exec">>, assign |-> <<"A=1">>,
              nice |-> <<"nice", "--adjustment", "5">>, timeout |-> <<"timeout", "-k", "5", "9">>,
              xargs |-> <<"xargs", "-a", "names">>, busybox |-> <<"busybox">>]

MCRoot == <<"w">>
MCDirs == {<<>>, <<"w">>, <<"w", "a">>, <<"o">>}
MCLinkAt == {<<"w", "l">>, <<"w", "a", "l">>, <<"o", "l">>}
MCComponent == {"a", "l", "..", "w", "o"}

MCSetting == {[linux |-> l, abi |-> a, mode |-> m, net |-> n] : l \in BOOLEAN, a \in 0..4, m \in {"off", "auto", "require"},
                 n \in {[network |-> w, connect |-> c, bind |-> b] : w \in {"off", "restrict"}, c \in {{}, {443}}, b \in {{}, {80}}}}

A4(a,b,c,d) == [form |-> "v4", v4 |-> <<a,b,c,d>>, v6 |-> <<>>]
In6(f,a,b,c,d) == [form |-> f, v4 |-> <<a,b,c,d>>, v6 |-> <<>>]
A6(s) == [form |-> "v6", v4 |-> <<0,0,0,0>>, v6 |-> s]
Octets == {<<127,0,0,1>>, <<10,0,0,1>>, <<172,16,0,1>>, <<172,31,0,1>>, <<172,32,0,1>>, <<169,254,1,1>>, <<100,64,0,1>>, <<100,127,1,1>>, <<100,128,0,1>>, <<0,0,0,0>>, <<0,0,0,1>>, <<8,8,8,8>>, <<192,168,1,1>>}
Form == {"v4","mapped","compatible","nat64","6to4","teredo"}
Lit == {[form |-> f, v4 |-> o, v6 |-> <<>>] : f \in Form, o \in Octets}
   \cup {A6(<<64512,0,0,0,0,0,0,1>>), A6(<<65215,0,0,0,0,0,0,1>>), A6(<<65216,0,0,0,0,0,0,1>>), A6(<<0,0,0,0,0,0,0,0>>), A6(<<9734,1,0,0,0,0,0,1>>)}
Pub == A4(8,8,8,8)
Loc == A4(127,0,0,1)
Public == {Pub, A6(<<9734,1,0,0,0,0,0,1>>)}
MCHost == {{a} : a \in Lit} \cup {Public, {Pub, Loc}, {}}
MCSearchHost == {Pub}
Provider(name, key, endpoint, allow) == [name |-> name, key |-> key, endpoint |-> endpoint, allow |-> allow]
Cloud == Provider("cloud", "set", <<Public>>, FALSE)
Keyless == Provider("keyless", "unset", <<Public>>, FALSE)
Kev == Provider("kev", "none", <<{Loc}>>, TRUE)
Hidden == Provider("hidden", "none", <<{Pub}, {Loc}>>, FALSE)
MCDecisionList == {<<>>, <<Keyless, Cloud, Kev>>, <<Hidden, Kev, Cloud>>}
Ask(provider, valid, min, degrade) == [provider |-> provider, valid |-> valid, min_confidence |-> min, degrade |-> degrade]
MCQuestion == {Ask("none", TRUE, 8, TRUE), Ask("none", TRUE, 0, FALSE), Ask("cloud", TRUE, 8, TRUE), Ask("none", FALSE, 0, TRUE)}
Answer(type, number, choice, levels) ==
    [type |-> type, number |-> number, choice |-> choice, probabilities |-> levels, legend |-> [high |-> "yes"]]
Level(level, p) == [level |-> level, p |-> p]
MCBody == [noul |-> [q |-> Answer("noul", 3, "none", <<>>)],
           mixed |-> [q |-> Answer("choice", 9, "a", <<>>), r |-> Answer("score", 6, "none", <<Level("low", 5), Level("high", 5)>>)],
           wrong |-> [q |-> Answer("choice", 9, "none", <<>>)]]
MCRemote == [ollama |-> [endpoint |-> <<{Loc}>>, allow |-> TRUE, port |-> 11434, response_format |-> "json_object"],
             cloud |-> [endpoint |-> <<{Pub}>>, allow |-> FALSE, port |-> 443, response_format |-> "json_schema"],
             inner |-> [endpoint |-> <<{Loc}>>, allow |-> FALSE, port |-> 80, response_format |-> "none"]]
MCCompletion == {[id |-> i, structured |-> TRUE, schema |-> TRUE, contract |-> TRUE] : i \in {1, 2}}
MCScore == <<5, 9, 0>>

-----------------------------------------------------------------------------
(* Properties of the parts *)

=============================================================================
