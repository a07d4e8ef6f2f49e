------------------------------- MODULE Settings -------------------------------
(***************************************************************************)
(* The configuration of an agent: two layers of files (config.rs), the wizard    *)
(* that extends them (setup.rs), the presets, and the dialogues of the full-       *)
(* screen chat that add a provider or switch a model (chat_tui.rs).  A key lives     *)
(* in the process environment, in secrets.env, or in both.                             *)
(***************************************************************************)
EXTENDS Naturals, Sequences, FiniteSets, SequencesExt

CONSTANTS Preset,       \* name of a preset -> the variable of its key, or "none"
          Model, Refused,   \* models; those that look like a key
          Locale, MaxDialogs,
          Explicit      \* the providers of which a file for --config exists

\* There is a model that is none of the keys a user may paste; presets are finitely many.
SettingsAssumption ==
    /\ IsFiniteSet(DOMAIN Preset) /\ Model \ Refused # {} /\ MaxDialogs \in Nat
    /\ Explicit \subseteq DOMAIN Preset

VARIABLES global_file,  \* the [[providers]] of the global file
          local_file,   \* the blocks of the local file
          local_ui,     \* [ui] locale of the local file
          secrets_env,  \* secrets.env: key -> value or "none"
          outer_env,    \* the environment the user starts the program in
          explicit,     \* the file that --config names for this process, if any
          env,          \* the environment of this process
          config,       \* the providers the session works with
          active_provider, locale,
          flow,         \* the open dialogue
          pending_presets, staging_providers, staging_keys,
          pinned,       \* name -> the model the user was told is pinned
          added,        \* the providers of the adds that have ended, and whether the key of each
                        \* was typed and no write of it failed
          dialogs

setting_vars == <<global_file, local_file, local_ui, secrets_env, outer_env, explicit, env,
                  config, active_provider, locale, flow, pending_presets, staging_providers,
                  staging_keys, pinned, added, dialogs>>
files == <<global_file, local_file, local_ui, secrets_env, outer_env>>
session == <<explicit, env, config, active_provider, locale>>
staging == <<pending_presets, staging_providers, staging_keys>>
ghosts == <<pinned, added>>

Names == DOMAIN Preset
Keys == {Preset[n] : n \in Names} \ {"none"}
NoFlow == [at |-> "none"]
\* auth stands for what a provider has beyond a preset: a login, a local model file, its price.
Configured(n, m, auth) == [name |-> n, model |-> m, auth |-> auth]
instantiate(n, m) == Configured(n, m, "key")
Block(kind, p, by) == [kind |-> kind, name |-> p.name, model |-> p.model, auth |-> p.auth, by |-> by]
default_model == CHOOSE m \in Model : m \notin Refused

-----------------------------------------------------------------------------
(* Loading *)

\* The entries at these positions, in their order.
rank(positions, i) == Cardinality({j \in positions : j <= i})
entries(s, positions) ==
    [k \in 1..Cardinality(positions) |-> s[CHOOSE i \in positions : rank(positions, i) = k]]

\* The union of the layers by name, the local entry before the global one.
merge_named(global, local) ==
    entries(global, {i \in DOMAIN global :
                        \A j \in DOMAIN local : local[j].name # global[i].name}) \o local

providers_of(blocks) ==
    LET chosen == entries(blocks, {i \in DOMAIN blocks : blocks[i].kind = "providers"})
    IN  [i \in DOMAIN chosen |-> Configured(chosen[i].name, chosen[i].model, chosen[i].auth)]

load(global, blocks) == merge_named(global, providers_of(blocks))

\* The file that --config names is read instead of the local one; the dialogues write the local.
NoFile == [given |-> FALSE, blocks |-> <<>>]
ExplicitFile ==
    {NoFile} \cup {[given |-> TRUE, blocks |-> <<Block("providers", instantiate(n, default_model), "user")>>]
                     : n \in Explicit}
load_with(global, blocks, file) == load(global, IF file.given THEN file.blocks ELSE blocks)

\* secrets.env fills in what the environment does not set.
load_secrets_env(outer, secrets) ==
    [k \in Keys |-> IF outer[k] # "none" THEN outer[k] ELSE secrets[k]]

Indices(blocks, name) == {i \in DOMAIN blocks : blocks[i].name = name}

SettingInit ==
    /\ global_file \in {<<>>} \cup {<<Configured(n, default_model, auth)>>
                                       : n \in Names, auth \in {"key", "login"}}
    /\ local_file \in {<<>>} \cup {<<Block(kind, instantiate(n, default_model), "user")>>
                                     : kind \in {"providers", "mcp_servers"}, n \in Names}
    /\ local_ui = "none" /\ secrets_env = [k \in Keys |-> "none"]
    /\ outer_env \in [Keys -> {"none", "outer"}]
    /\ explicit \in ExplicitFile
    /\ env = load_secrets_env(outer_env, secrets_env)
    /\ config = load_with(global_file, local_file, explicit)
    /\ active_provider = "none" /\ locale = "none"
    /\ flow = NoFlow /\ pending_presets = <<>> /\ staging_providers = <<>> /\ staging_keys = {}
    /\ pinned = [n \in Names |-> "none"] /\ added = {} /\ dialogs = 0

\* The program is left, or killed in a dialogue or between two writes, and started again.
restart ==
    /\ explicit' \in ExplicitFile
    /\ env' = load_secrets_env(outer_env, secrets_env)
    /\ config' = load_with(global_file, local_file, explicit')
    /\ active_provider' = "none" /\ locale' = IF explicit'.given THEN "none" ELSE local_ui
    /\ flow' = NoFlow /\ pending_presets' = <<>> /\ staging_providers' = <<>> /\ staging_keys' = {}
    /\ UNCHANGED <<files, ghosts, dialogs>>

-----------------------------------------------------------------------------
(* /model *)
opens(to) == /\ flow = NoFlow /\ dialogs < MaxDialogs /\ dialogs' = dialogs + 1 /\ flow' = to

switch_pick_provider ==
    /\ config # <<>>
    /\ \E i \in DOMAIN config : opens([at |-> "switch_model", name |-> config[i].name])
    /\ UNCHANGED <<files, session, staging, ghosts>>

\* The line model_id of the blocks with this name; a block that is no provider has none.
replace_model_id(blocks, name, model) ==
    [i \in DOMAIN blocks |-> IF blocks[i].name = name /\ blocks[i].kind = "providers"
                             THEN [blocks[i] EXCEPT !.model = model] ELSE blocks[i]]

\* render_provider_toml writes what a preset has.
rendered(p) == Block("providers", instantiate(p.name, p.model), "pin")

\* A block of the name is searched for in a text that has some provider's block.
pin_model_to(blocks, p) ==
    IF (\E i \in DOMAIN blocks : blocks[i].kind = "providers") /\ Indices(blocks, p.name) # {}
      THEN replace_model_id(blocks, p.name, p.model)
      ELSE Append(blocks, rendered(p))

switch_pick_model ==
    /\ flow.at = "switch_model" /\ flow' = NoFlow
    /\ \E m \in Model, written \in BOOLEAN :
         LET first == CHOOSE i \in Indices(config, flow.name) :
                          \A j \in Indices(config, flow.name) : i <= j
             p == [config[first] EXCEPT !.model = m]
         IN  /\ config' = [config EXCEPT ![first] = p] /\ active_provider' = p.name
             /\ local_file' = IF written THEN pin_model_to(local_file, p) ELSE local_file
             /\ pinned' = IF written THEN [pinned EXCEPT ![p.name] = m] ELSE pinned
    /\ UNCHANGED <<global_file, local_ui, secrets_env, outer_env, explicit, env, locale, staging,
                   added, dialogs>>

\* /config locale: for the session at once, in the local file if that can be written.
apply_locale ==
    /\ flow = NoFlow /\ dialogs < MaxDialogs /\ dialogs' = dialogs + 1
    /\ \E l \in Locale : locale' = l /\ local_ui' \in {l, local_ui}
    /\ UNCHANGED <<global_file, local_file, secrets_env, outer_env, explicit, env, config,
                   active_provider, flow, staging, ghosts>>

-----------------------------------------------------------------------------
(* /models add *)

\* The providers whose names are free.
append_providers(global, new) ==
    global \o entries(new, {i \in DOMAIN new : Indices(global, new[i].name) = {}})

\* A key that has a line keeps its value.
append_secret(secrets, kv) ==
    IF secrets[kv[1]] = "none" THEN [secrets EXCEPT ![kv[1]] = kv[2]] ELSE secrets

\* finish_add: the providers first, and nothing more if that write fails; then each key by
\* itself; then the files are read again.
finish_add(new, keys, by) ==
    /\ UNCHANGED <<secrets_env, config, added>>
    /\ \/ flow' = NoFlow /\ UNCHANGED global_file
       \/ /\ global_file' = append_providers(global_file, new)
          /\ flow' = [at |-> "append_keys", by |-> by, keys |-> keys, left |-> keys, lost |-> {},
                      names |-> {p.name : p \in {q \in Range(new) : Indices(global_file, q.name) = {}}}]

writing == /\ flow.at = "append_keys"
           /\ UNCHANGED <<global_file, local_file, local_ui, outer_env, explicit, active_provider,
                          locale, staging, pinned, dialogs>>

key_written ==
    /\ writing /\ \E kv \in flow.left :
         secrets_env' = append_secret(secrets_env, kv) /\ flow' = [flow EXCEPT !.left = @ \ {kv}]
    /\ UNCHANGED <<env, config, added>>

\* Of a key that cannot be written, or whose file cannot be made private, a dialogue says
\* nothing and goes on; the wizard ends.
key_fails ==
    /\ writing /\ \E kv \in flow.left :
         /\ secrets_env' \in {secrets_env, append_secret(secrets_env, kv)}
         /\ flow' = IF flow.by = "wizard" THEN NoFlow
                    ELSE [flow EXCEPT !.left = @ \ {kv}, !.lost = @ \cup {kv}]
    /\ UNCHANGED <<env, config, added>>

\* The session goes on with what it had when the files cannot be read.
add_ends ==
    /\ writing /\ flow.left = {} /\ flow' = NoFlow
    /\ env' = load_secrets_env(env, secrets_env)
    /\ config' \in {config, load_with(global_file, local_file, explicit)}
    /\ added' = added \cup
         {[name |-> n, typed |-> \E kv \in flow.keys \ flow.lost : kv[1] = Preset[n]] : n \in flow.names}
    /\ UNCHANGED secrets_env

\* next_preset: a preset whose key the process lacks asks for it first.
next_preset(left, new, keys, known) ==
    /\ pending_presets' = IF left = <<>> THEN <<>> ELSE Tail(left)
    /\ staging_providers' = new /\ staging_keys' = keys /\ env' = known
    /\ IF left = <<>> THEN finish_add(new, keys, "dialogue")
       ELSE /\ flow' = [at |-> IF Preset[Head(left)] \in Keys /\ known[Preset[Head(left)]] = "none"
                               THEN "ask_key" ELSE "pick_model", name |-> Head(left)]
            /\ UNCHANGED <<global_file, secrets_env, config, added>>

add_pick_presets ==
    /\ flow = NoFlow /\ dialogs < MaxDialogs /\ dialogs' = dialogs + 1
    /\ \E chosen \in {SetToSeq(c) : c \in SUBSET Names \ {{}}} : next_preset(chosen, <<>>, {}, env)
    /\ UNCHANGED <<local_file, local_ui, outer_env, explicit, active_provider, locale, pinned>>

\* The key acts in the process at once; Enter on an empty line, or Esc, goes on without one.
add_ask_key ==
    /\ flow.at = "ask_key" /\ flow' = [flow EXCEPT !.at = "pick_model"]
    /\ \/ UNCHANGED <<env, staging_keys>>
       \/ /\ env' = [env EXCEPT ![Preset[flow.name]] = "typed"]
          /\ staging_keys' = staging_keys \cup {<<Preset[flow.name], "typed">>}
    /\ UNCHANGED <<files, explicit, config, active_provider, locale, pending_presets,
                   staging_providers, ghosts, dialogs>>

\* What looks like a key is not taken for a model, and the preset is passed over.
add_pick_model ==
    /\ flow.at = "pick_model"
    /\ \E m \in Model :
         next_preset(pending_presets,
                     IF m \in Refused THEN staging_providers
                     ELSE Append(staging_providers, instantiate(flow.name, m)), staging_keys, env)
    /\ UNCHANGED <<local_file, local_ui, outer_env, explicit, active_provider, locale, pinned, dialogs>>

escape ==
    /\ flow.at \in {"pick_model", "switch_model"} /\ flow' = NoFlow /\ pending_presets' = <<>>
    /\ UNCHANGED <<files, session, staging_providers, staging_keys, ghosts, dialogs>>

-----------------------------------------------------------------------------
(* berimor setup: the same writes, from a list the user types *)
run_wizard ==
    /\ flow = NoFlow /\ dialogs < MaxDialogs /\ dialogs' = dialogs + 1
    /\ \E chosen \in SeqOf(Names, 2) \ {<<>>}, m \in Model, typed \in SUBSET Keys :
         LET new   == [i \in DOMAIN chosen |-> instantiate(chosen[i], m)]
             asked == {k \in typed \cap {Preset[n] : n \in Range(chosen)} : env[k] = "none"}
         IN  finish_add(new, {<<k, "typed">> : k \in asked}, "wizard")
    /\ UNCHANGED <<local_file, local_ui, outer_env, explicit, env, active_provider, locale, staging,
                   pinned>>

SettingNext ==
    \/ restart \/ switch_pick_provider \/ switch_pick_model \/ apply_locale
    \/ add_pick_presets \/ add_ask_key \/ add_pick_model \/ escape \/ run_wizard
    \/ key_written \/ key_fails \/ add_ends
-----------------------------------------------------------------------------
Clash(n) == \E i \in DOMAIN local_file : local_file[i].kind # "providers" /\ local_file[i].name = n

\* The model the user was told is pinned is the one the next start without --config loads,
\* whatever was added or pinned since (pin_model_to, merge), unless another section of the
\* file has the name.
PinHolds ==
    \A n \in Names : pinned[n] # "none" /\ ~Clash(n) =>
        \A i \in Indices(load(global_file, local_file), n) :
            load(global_file, local_file)[i].model = pinned[n]

\* A name that stands once in its layer stands once in what is loaded (merge).
NamesAreUnique ==
    \A n \in Names : Cardinality(Indices(global_file, n)) <= 1 =>
        Cardinality(Indices(load(global_file, local_file), n)) <= 1

\* A provider added with a key that was typed and met no error has the key after a restart,
\* whatever dialogues were abandoned, failed or killed half-way before or after it
\* (finish_add, append_secret).
TypedKeysAreKept == \A a \in added : a.typed => secrets_env[Preset[a.name]] # "none"
=============================================================================
