------------------------------- MODULE MCFront -------------------------------
(***************************************************************************)
(* What a person or a program meets: a behaviour is one of a dialogue in the *)
(* chat, the settings of providers and their keys, the install of extensions, *)
(* the login of processes that share a file, an editor's session, the HTTP     *)
(* and MCP servers, and the tools a run can call.                               *)
(***************************************************************************)
EXTENDS Integers, Sequences, TLC

CONSTANTS Tool, External, MaxSent, MaxAsks, MaxLines, Size,
          KEEP_RECENT_ENTRIES, Trigger, RESUME_DEPTH,
          Preset, Model, Refused, Locale, MaxDialogs, Explicit,
          Installer, Name, Package, Needs, Reviewer, MaxInstalls,
          Process, Provider, LIFETIME, SKEW, MaxTime, MaxIssues,
          Request, MaxMcpLines, Prompt, MaxSessions, MaxEvents, MaxInstances,
          Called, BuiltinTool, Stub, Manifest, McpServers, MaxCalls

VARIABLES part,
          conversation, kept_file, front, busy, turn, mail, answer_tx,
          confirm_prompt, grants, allow, said, runs,
          global_file, local_file, local_ui, secrets_env, outer_env, explicit,
          env, config, active_provider, locale, flow, pending_presets,
          staging_providers, staging_keys, pinned, added, dialogs,
          catalog, cache, dir, staging, job, placed, shared, session, installs,
          last,
          file, issued, rotates, live, now, command, held, logins, disturbed,
          sessions, cancelled, journal, prompt,
          http, lines,
          stage, plugins, policies, servers, connected, routes, clients, call,
          results, works, late

dialogue == <<conversation, kept_file, front, busy, turn, mail, answer_tx, confirm_prompt,
              grants, allow, said, runs>>
setup    == <<global_file, local_file, local_ui, secrets_env, outer_env, explicit, env,
              config, active_provider, locale, flow, pending_presets, staging_providers,
              staging_keys, pinned, added, dialogs>>
packages == <<catalog, cache, dir, staging, job, placed, shared, session, installs, last>>
tokens   == <<file, issued, rotates, live, now, command, held, logins, disturbed>>
editor   == <<sessions, cancelled, journal, prompt>>
wire     == <<http, lines>>
runtime  == <<stage, plugins, policies, servers, connected, routes, clients, call, results,
              works, late>>
vars == <<part, dialogue, setup, packages, tokens, editor, wire, runtime>>

H == INSTANCE Conversation
S == INSTANCE Settings
X == INSTANCE Extensions
L == INSTANCE Login WITH job <- command
W == INSTANCE Servers WITH MaxLines <- MaxMcpLines
R == INSTANCE ToolRuntime WITH Tool <- Called, Servers <- McpServers

ASSUME FrontAssumption ==
    /\ H!ChatAssumption /\ S!SettingsAssumption /\ X!ExtAssumption
    /\ L!LoginAssumption /\ R!ToolAssumption

No_dialogue ==
    /\ conversation = 0 /\ kept_file = 0 /\ front = 0 /\ busy = 0 /\ turn = 0
    /\ mail = 0 /\ answer_tx = 0 /\ confirm_prompt = 0 /\ grants = 0 /\ allow = 0
    /\ said = 0 /\ runs = 0
No_setup ==
    /\ global_file = 0 /\ local_file = 0 /\ local_ui = 0 /\ secrets_env = 0 /\ outer_env = 0
    /\ explicit = 0 /\ env = 0 /\ config = 0 /\ active_provider = 0 /\ locale = 0 /\ flow = 0
    /\ pending_presets = 0 /\ staging_providers = 0 /\ staging_keys = 0 /\ pinned = 0 /\ added = 0
    /\ dialogs = 0
No_packages ==
    /\ catalog = 0 /\ cache = 0 /\ dir = 0 /\ staging = 0 /\ job = 0
    /\ placed = 0 /\ shared = 0 /\ session = 0 /\ installs = 0 /\ last = 0
No_tokens ==
    /\ file = 0 /\ issued = 0 /\ rotates = 0 /\ live = 0 /\ now = 0
    /\ command = 0 /\ held = 0 /\ logins = 0 /\ disturbed = 0
No_editor ==
    /\ sessions = 0 /\ cancelled = 0 /\ journal = 0 /\ prompt = 0
No_wire ==
    /\ http = 0 /\ lines = 0
No_runtime ==
    /\ stage = 0 /\ plugins = 0 /\ policies = 0 /\ servers = 0 /\ connected = 0
    /\ routes = 0 /\ clients = 0 /\ call = 0 /\ results = 0 /\ works = 0
    /\ late = 0

Init ==
    \/ part = "chat" /\ H!ChatInit
         /\ No_setup /\ No_packages /\ No_tokens /\ No_editor /\ No_wire /\ No_runtime
    \/ part = "settings" /\ S!SettingInit
         /\ No_dialogue /\ No_packages /\ No_tokens /\ No_editor /\ No_wire /\ No_runtime
    \/ part = "extensions" /\ X!ExtInit
         /\ No_dialogue /\ No_setup /\ No_tokens /\ No_editor /\ No_wire /\ No_runtime
    \/ part = "login" /\ L!LoginInit
         /\ No_dialogue /\ No_setup /\ No_packages /\ No_editor /\ No_wire /\ No_runtime
    \/ part = "editor" /\ W!EditorInit
         /\ No_dialogue /\ No_setup /\ No_packages /\ No_tokens /\ No_wire /\ No_runtime
    \/ part = "servers" /\ W!ServerInit
         /\ No_dialogue /\ No_setup /\ No_packages /\ No_tokens /\ No_editor /\ No_runtime
    \/ part = "tools" /\ R!ToolInit
         /\ No_dialogue /\ No_setup /\ No_packages /\ No_tokens /\ No_editor /\ No_wire

Next ==
    \/ part = "chat" /\ H!ChatNext
         /\ UNCHANGED <<part, setup, packages, tokens, editor, wire, runtime>>
    \/ part = "settings" /\ S!SettingNext
         /\ UNCHANGED <<part, dialogue, packages, tokens, editor, wire, runtime>>
    \/ part = "extensions" /\ X!ExtNext
         /\ UNCHANGED <<part, dialogue, setup, tokens, editor, wire, runtime>>
    \/ part = "login" /\ L!LoginNext
         /\ UNCHANGED <<part, dialogue, setup, packages, editor, wire, runtime>>
    \/ part = "editor" /\ W!EditorNext
         /\ UNCHANGED <<part, dialogue, setup, packages, tokens, wire, runtime>>
    \/ part = "servers" /\ W!ServerNext
         /\ UNCHANGED <<part, dialogue, setup, packages, tokens, editor, runtime>>
    \/ part = "tools" /\ R!ToolNext
         /\ UNCHANGED <<part, dialogue, setup, packages, tokens, editor, wire>>

Spec == Init /\ [][Next]_vars

Symmetry == Permutations(Installer) \cup Permutations(Provider)
            \cup Permutations(Process)

-----------------------------------------------------------------------------
(* Values *)

MCSize   == <<1, 2, 1, 2, 1>>
MCPreset == [kimi |-> "KIMI_KEY", ollama |-> "none"]

\* One package needs what it does not ask for, the other does.
MCPackage == {[name |-> "x", tools |-> {"read", "exec"}, permissions |-> {"exec"}, whole |-> TRUE],
              [name |-> "x", tools |-> {"exec"}, permissions |-> {"net"}, whole |-> TRUE]}
MCNeeds   == [read |-> {}, exec |-> {"exec"}]

Asked(method, path, bearer, app, secret, signed, body) ==
    [method |-> method, path |-> path, bearer |-> bearer, app |-> app, secret |-> secret,
     signed |-> signed, event |-> "issue_comment", body |-> body]
MCRequest ==
    {Asked("GET", p, b, FALSE, FALSE, FALSE, "plain") :
        p \in {"/sessions", "/schedules", "/nowhere"}, b \in BOOLEAN}
    \cup {Asked("POST", "/run", b, FALSE, FALSE, FALSE, body) :
        b \in BOOLEAN, body \in {"malformed", "no process", "process"}}
    \cup {Asked("POST", "/webhooks/github", FALSE, app, secret, signed, body) :
        app \in BOOLEAN, secret \in BOOLEAN, signed \in BOOLEAN, body \in {"trigger", "plain"}}

\* One plugin takes the name of a built-in tool; two servers offer one tool.
Offers(n, ts) == [name |-> n, tools |-> ts]
MCBuiltinTool == [t \in {"files.read", "files.write"} |-> t = "files.write"]
MCStub        == [t \in {"files.write", "echo", "mail"} |-> FALSE]
MCManifest    == [a |-> ("crm" :> TRUE @@ "mail" :> TRUE),
                  b |-> ("crm" :> FALSE @@ "files.write" :> FALSE)]
MCServers     == {<<>>, <<Offers("s", <<"mail", "echo">>), Offers("t", <<"crm", "nobody">>)>>,
                  <<Offers("s", <<"mail", "crm">>), Offers("t", <<"crm">>)>>,
                  <<Offers("s", <<"nobody">>), Offers("s", <<"echo">>)>>, <<Offers("s", <<"echo", "echo">>)>>}

-----------------------------------------------------------------------------
(* Properties of the parts *)

\* Every answer in the dialogue stands behind its question, what a summary replaces is in
\* the summary, and a tool that asked ran with an approval of its own or an earlier grant.
DialogueIsKept ==
    part = "chat" =>
        H!AnswersFollowTheirQuestion /\ H!NothingIsForgotten /\ H!RunsWereApproved

\* What the user has set stays: the model told to be pinned, one block per name, the typed
\* keys, packages that stand whole and have passed the lint, the logins of the others.
SetIsKept ==
    /\ part = "settings" => S!PinHolds /\ S!NamesAreUnique /\ S!TypedKeysAreKept
    /\ part = "extensions" =>
         X!GatedPassesLint /\ X!InstalledIsWhole /\ X!ProjectIsStronger
    /\ part = "login" => L!StoredLoginIsLive /\ L!LoginsStay

\* What is served is what happened: an editor's updates are the journal's events, a run an
\* HTTP request started was allowed to it, a tool's policy is its owner's, and nobody works
\* on for a call that was answered.
ServedIsTrue ==
    /\ part = "editor" => W!StreamIsExact
    /\ part = "servers" => W!HttpRunsAreAllowed
    /\ part = "tools" =>
         R!PolicyIsTheCallees /\ R!NoServerIsShadowed /\ R!AnswersAreFinal
=============================================================================
