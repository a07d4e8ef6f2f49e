------------------------------ MODULE MCInstall ------------------------------
(***************************************************************************)
(* The three ways code reaches a machine, side by side: a behaviour is one   *)
(* of self-update, plugin install or the npm bootstrap.                       *)
(***************************************************************************)
EXTENDS SelfUpdate, TLC

CONSTANTS MaxOperator, MaxBreaks, MaxFaults

VARIABLES part, trusted, plugin_dir, manifest_copy, extracted, journalled, inst,
          offer, agreed, operator, breaks, hindered,
          cache, launch, archive, scratch, swap, faults, cut

plugin == <<trusted, plugin_dir, manifest_copy, extracted, journalled, inst,
            offer, agreed, operator, breaks, hindered>>
npm    == <<cache, launch, archive, scratch, swap, faults, cut>>
vars   == <<part, update_vars, plugin, npm>>

P == INSTANCE PluginInstall WITH Installer <- Updater
B == INSTANCE Bootstrap WITH Launch <- Updater

NoUpdate == files = 0 /\ unpacked = 0 /\ applied = 0 /\ up = 0 /\ release = 0
            /\ kills = 0 /\ disturbed = 0
NoPlugin == trusted = 0 /\ plugin_dir = 0 /\ manifest_copy = 0 /\ extracted = 0
            /\ journalled = 0 /\ inst = 0 /\ offer = 0 /\ agreed = 0 /\ operator = 0
            /\ breaks = 0 /\ hindered = 0
NoNpm    == cache = 0 /\ launch = 0 /\ archive = 0 /\ scratch = 0 /\ swap = 0
            /\ faults = 0 /\ cut = 0

Init ==
    \/ part = "update" /\ UpdateInit /\ NoPlugin /\ NoNpm
    \/ part = "plugin" /\ P!PluginInit /\ NoUpdate /\ NoNpm
    \/ part = "npm" /\ B!BootstrapInit /\ NoUpdate /\ NoPlugin

Next ==
    \/ part = "update" /\ UpdateNext /\ UNCHANGED <<part, plugin, npm>>
    \/ part = "plugin" /\ P!PluginNext /\ UNCHANGED <<part, update_vars, npm>>
    \/ part = "npm" /\ B!BootstrapNext /\ UNCHANGED <<part, update_vars, plugin>>

Spec == Init /\ [][Next]_vars

Symmetry == Permutations(Updater)

\* Nothing that failed verification is unpacked or put anywhere, a binary that runs stays
\* on disk, and a rollback that is recorded has left one in its place (self_update.rs).
UpdateIsSafe == part = "update" => VerifiedOnly /\ SomethingRuns /\ RollbackRuns

\* The same without the window: swap_binary is documented as idempotent.
UpdateSomethingAlwaysRuns == part = "update" => SomethingAlwaysRuns

\* An installed plugin was reviewed, whichever process resumed its instance and whatever
\* the list became since, and an undisturbed installation is whole (plugin_install.rs).
PluginIsSafe == part = "plugin" => P!InstalledWasReviewed /\ P!InstalledIsWhole

\* An installer trusts a new repository only after the human's yes (plugin_install.rs).
PluginTrustNeedsConsent == [][part = "plugin" => P!TrustStep]_plugin

\* A launch of the npm package runs a binary that was checked and is whole, and the path
\* that ensureInstalled returns has one (bootstrap/src).
NpmIsSafe == part = "npm" => B!RunsOnlyPinned /\ B!EnsuredIsThere
=============================================================================
