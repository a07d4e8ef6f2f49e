---------------------------- MODULE PluginInstall ----------------------------
(***************************************************************************)
(* One plugin of one repository: berimor plugin install (plugin_install.rs   *)
(* with fixtures/golden/processes/plugin-install.yaml), the trusted list      *)
(* folded from the journal (trust.rs, trust_list.rs), the plugin's directory  *)
(* and the tools an agent finds there (plugin_runtime.rs).  Installers are    *)
(* OS processes; they take no lease, and install is several file operations.  *)
(***************************************************************************)
EXTENDS Integers, Sequences

CONSTANTS Installer,      \* OS processes (their pids)
          MaxOperator,    \* bound: commands of the operator
          MaxBreaks       \* bound: stops inside plugin.install

VARIABLES
    trusted,    \* the TrustListChanged events of the repository
    plugin_dir, \* installed/<name>: none, half (some of its files) or whole, from where
    manifest_copy,  \* manifests/<name>.yaml: from where, or none
    extracted,  \* pid -> whether its extract_dir is there
    journalled, \* instance -> its StepApplied events
    inst,       \* OS process -> its state
    offer,      \* the release: its signature, what its manifest asks for
    agreed,     \* <<instance, gate>> the human agreed to
    operator, breaks, hindered  \* hindered: a stop inside install, or two installers

plugin_vars == <<trusted, plugin_dir, manifest_copy, extracted, journalled, inst,
                 offer, agreed, operator, breaks, hindered>>

Ceilings  == {"narrow", "wide"}
Covers(c, request) == c = "wide" \/ request = "narrow"
Missing   == [state |-> "none", from |-> "none"]
Waiting   == [at |-> "idle", of |-> "none", mine |-> <<>>]
Busy(r)   == inst[r].at \notin {"idle", "ended"}

-----------------------------------------------------------------------------
(* trust.rs: the list is the fold of its events *)

fold_trust_list(events) == IF events = <<>> THEN "none" ELSE events[Len(events)]

Commands == operator < MaxOperator /\ operator' = operator + 1

\* Both ask "[y/N]" before the event is written; a no changes nothing.
trust_add(c) ==
    /\ Commands
    /\ trusted' = Append(trusted, c)
    /\ UNCHANGED <<plugin_dir, manifest_copy, extracted, journalled, inst, offer, agreed, breaks, hindered>>

trust_remove ==
    /\ Commands /\ fold_trust_list(trusted) # "none"
    /\ trusted' = Append(trusted, "none")
    /\ UNCHANGED <<plugin_dir, manifest_copy, extracted, journalled, inst, offer, agreed, breaks, hindered>>

\* plugin remove: the directory goes, or some of it when the removal is stopped; trust and
\* the manifest's copy stay.
remove ==
    /\ Commands /\ plugin_dir # Missing
    /\ plugin_dir' \in {Missing, [state |-> "half", from |-> plugin_dir.from]}
    /\ UNCHANGED <<trusted, manifest_copy, extracted, journalled, inst, offer, agreed, breaks, hindered>>

\* install --allow-unsigned from a directory: remove, copy, copy the manifest;
\* an error leaves what was copied so far.
install_local ==
    /\ Commands
    /\ \E done \in {"none", "half", "whole"} :
          /\ plugin_dir' = [state |-> done, from |-> IF done = "none" THEN "none" ELSE "operator"]
          /\ \/ manifest_copy' = "operator" /\ done = "whole"
             \/ UNCHANGED manifest_copy
    /\ UNCHANGED <<trusted, extracted, journalled, inst, offer, agreed, breaks, hindered>>

-----------------------------------------------------------------------------
(* The graph *)

Done(mine, s)  == \E i \in DOMAIN mine : mine[i].step = s
Value(mine, s) == mine[CHOOSE i \in DOMAIN mine : mine[i].step = s].val

verify_gate(ok) == IF ok THEN "read_manifest" ELSE "fail_install"

\* Bug: a repository that is not on the list needs no review.
open_trust_gate(c) == "download"
trust_gate(c) == IF c = "none" THEN "new_repo_review" ELSE "download"

after(mine) ==
    IF mine = <<>> THEN "check_trust"
    ELSE LET e == mine[Len(mine)]
         IN CASE e.step = "check_trust" -> trust_gate(e.val)
              [] e.step = "download" -> "verify"
              [] e.step = "verify" -> verify_gate(e.val)
              [] e.step = "read_manifest" -> IF e.val THEN "install" ELSE "ceiling_review"
              [] e.step = "install" -> "done"
              [] e.step = "done" -> "finished"

Next_is(r, s) == inst[r].at = "loop" /\ after(inst[r].mine) = s

Journals(r, s, val) ==
    LET e == [step |-> s, val |-> val]
    IN  /\ journalled' = [journalled EXCEPT ![inst[r].of] = Append(@, e)]
        /\ inst' = [inst EXCEPT ![r].mine = Append(@, e), ![r].at = "loop"]

Stops(r) == inst' = [inst EXCEPT ![r] = [Waiting EXCEPT !.at = "ended"]]

-----------------------------------------------------------------------------
(* run, and the tools that only read *)

begins(r, i) ==
    /\ inst[r].at = "idle"
    /\ i = r \/ journalled[i] # <<>>
    /\ inst' = [inst EXCEPT ![r] = [at |-> "loop", of |-> i, mine |-> journalled[i]]]
    /\ hindered' = (hindered \/ \E q \in Installer : Busy(q))
    /\ UNCHANGED <<trusted, plugin_dir, manifest_copy, extracted, journalled, offer, agreed, operator, breaks>>

\* The list's entry, or "none" and the ceiling proposed on the command line.
check_trust(r) ==
    /\ Next_is(r, "check_trust")
    /\ Journals(r, "check_trust", fold_trust_list(trusted))
    /\ UNCHANGED <<trusted, plugin_dir, manifest_copy, extracted, offer, agreed, operator, breaks, hindered>>

\* The ceiling of the entry found, or the one proposed by the command line.
ceiling_of(mine) ==
    LET c == Value(mine, "check_trust") IN IF c = "none" THEN offer.proposed ELSE c

\* A step that follows a gate is reached only through the human's yes.
human_says_yes(r, gate, s) ==
    /\ Next_is(r, gate) /\ <<gate, s>> \in {<<"new_repo_review", "download">>,
                                            <<"ceiling_review", "install">>}
    /\ agreed' = agreed \cup {<<inst[r].of, gate>>}
    /\ \/ /\ s = "download" /\ Journals(r, s, r)
       \/ /\ s = "install" /\ UNCHANGED journalled
          /\ inst' = [inst EXCEPT ![r].at = "install"]
    /\ UNCHANGED <<trusted, plugin_dir, manifest_copy, extracted, offer, operator, breaks, hindered>>

\* get_latest_release (which refuses a tag outside allowed_ref), the asset's
\* name, and the download into the directory named by the instance's process.
fetches(r) ==
    /\ Next_is(r, "download")
    /\ Journals(r, "download", r)
    /\ UNCHANGED <<trusted, plugin_dir, manifest_copy, extracted, offer, agreed, operator, breaks, hindered>>

verify_plugin_signature(r) ==
    /\ Next_is(r, "verify")
    /\ Journals(r, "verify", offer.genuine)
    /\ UNCHANGED <<trusted, plugin_dir, manifest_copy, extracted, offer, agreed, operator, breaks, hindered>>

\* Bug: the ceiling of the entry is not consulted.
any_ceiling(mine) == TRUE
within_ceiling(mine) == Covers(ceiling_of(mine), offer.request)

extract_and_read_manifest(r) ==
    /\ Next_is(r, "read_manifest")
    /\ extracted' = [extracted EXCEPT ![Value(inst[r].mine, "download")] = TRUE]
    /\ Journals(r, "read_manifest", within_ceiling(inst[r].mine))
    /\ UNCHANGED <<trusted, plugin_dir, manifest_copy, offer, agreed, operator, breaks, hindered>>

-----------------------------------------------------------------------------
(* install_plugin: one file operation per step *)

In(r, phase) == inst[r].at = phase
Goes(r, phase) == inst' = [inst EXCEPT ![r].at = phase]
SourceDir(r) == Value(inst[r].mine, "download")

clear_dir(r) == plugin_dir' = Missing

clears(r) == Next_is(r, "install") \/ In(r, "install")

install_clears(r) ==
    /\ clears(r)
    /\ clear_dir(r)
    /\ Goes(r, "cleared")
    /\ UNCHANGED <<trusted, manifest_copy, extracted, journalled, offer, agreed, operator, breaks, hindered>>

moved_dir(r) == [state |-> "whole", from |-> inst[r].of]

\* rename, or where that fails copy_dir_all and the removal of the source.
install_moves(r) ==
    /\ In(r, "cleared") /\ extracted[SourceDir(r)]
    /\ plugin_dir' = moved_dir(r)
    /\ extracted' = [extracted EXCEPT ![SourceDir(r)] = FALSE]
    /\ Goes(r, "moved")
    /\ UNCHANGED <<trusted, manifest_copy, journalled, offer, agreed, operator, breaks, hindered>>

install_registers(r) ==
    /\ In(r, "moved") /\ plugin_dir.state # "none"
    /\ manifest_copy' = plugin_dir.from
    /\ Goes(r, IF Value(inst[r].mine, "check_trust") = "none" THEN "trusting" ELSE "installed")
    /\ UNCHANGED <<trusted, plugin_dir, extracted, journalled, offer, agreed, operator, breaks, hindered>>

\* What check_trust saw decides, not the list as it is now.
install_trusts(r) ==
    /\ In(r, "trusting")
    /\ trusted' = Append(trusted, offer.proposed)
    /\ Goes(r, "installed")
    /\ UNCHANGED <<plugin_dir, manifest_copy, extracted, journalled, offer, agreed, operator, breaks, hindered>>

install_recorded(r) ==
    /\ In(r, "installed") \/ Next_is(r, "done")
    /\ Journals(r, IF In(r, "installed") THEN "install" ELSE "done", TRUE)
    /\ UNCHANGED <<trusted, plugin_dir, manifest_copy, extracted, offer, agreed, operator, breaks, hindered>>

\* Finished, plugin_install.fail, a no, a refused confirmation or any tool's
\* Err: the process ends and nothing is undone.
installer_ends(r) ==
    /\ In(r, "loop")
    /\ Stops(r)
    /\ UNCHANGED <<trusted, plugin_dir, manifest_copy, extracted, journalled, offer, agreed, operator, breaks, hindered>>

\* A kill or an I/O error inside plugin.install; a removal or a copy may be half done.
install_breaks(r) ==
    /\ clears(r) \/ inst[r].at \in {"cleared", "moved", "trusting", "installed"}
    /\ breaks < MaxBreaks
    /\ breaks' = breaks + 1 /\ hindered' = TRUE
    /\ \/ UNCHANGED plugin_dir
       \/ clears(r) /\ plugin_dir # Missing
          /\ plugin_dir' = [state |-> "half", from |-> plugin_dir.from]
       \/ In(r, "cleared") /\ plugin_dir' = [state |-> "half", from |-> inst[r].of]
    /\ Stops(r)
    /\ UNCHANGED <<trusted, manifest_copy, extracted, journalled, offer, agreed, operator>>

-----------------------------------------------------------------------------
PluginInit ==
    /\ trusted \in {<<>>, <<"narrow">>} /\ plugin_dir = Missing /\ manifest_copy = "none"
    /\ extracted = [r \in Installer |-> FALSE]
    /\ journalled = [r \in Installer |-> <<>>]
    /\ inst = [r \in Installer |-> Waiting]
    /\ offer \in [genuine : BOOLEAN, request : Ceilings, proposed : Ceilings]
    /\ agreed = {} /\ operator = 0 /\ breaks = 0 /\ hindered = FALSE

PluginNext ==
    \/ \E c \in Ceilings : trust_add(c)
    \/ trust_remove \/ remove \/ install_local
    \/ \E r \in Installer :
          \/ \E i \in Installer : begins(r, i)
          \/ check_trust(r) \/ verify_plugin_signature(r) \/ extract_and_read_manifest(r)
          \/ fetches(r)
          \/ human_says_yes(r, "new_repo_review", "download")
          \/ human_says_yes(r, "ceiling_review", "install")
          \/ install_clears(r) \/ install_moves(r) \/ install_registers(r)
          \/ install_trusts(r) \/ install_recorded(r)
          \/ installer_ends(r) \/ install_breaks(r)

PluginSpec == PluginInit /\ [][PluginNext]_plugin_vars

-----------------------------------------------------------------------------
(* Properties *)

\* A directory an installation filled passed the signature, and asked for no
\* more than the list or the proposal allowed unless the human agreed to it -
\* whichever process resumed the instance, and whatever the list became since.
InstalledWasReviewed ==
    plugin_dir.from \in Installer =>
        /\ offer.genuine
        /\ \/ Covers(ceiling_of(journalled[plugin_dir.from]), offer.request)
           \/ <<plugin_dir.from, "ceiling_review">> \in agreed

\* The list gains an entry by the operator's command, or by an installation
\* whose human agreed to the new repository.
TrustStep ==
    \A r \in Installer :
        (In(r, "trusting") /\ trusted' # trusted /\ operator' = operator)
          /\ inst'[r].at = "installed" =>
              <<inst[r].of, "new_repo_review">> \in agreed

\* An installation that ran undisturbed leaves a plugin an agent can call,
\* until the operator removes it or another installation begins its own.
InstalledIsWhole ==
    \A i \in Installer :
        /\ Done(journalled[i], "install") /\ ~hindered /\ operator = 0
        /\ \A q \in Installer : inst[q].at \notin {"cleared", "moved"}
        => plugin_dir.state = "whole" /\ manifest_copy = plugin_dir.from
=============================================================================
