------------------------------- MODULE Bootstrap -------------------------------
(***************************************************************************)
(* The npm package (bootstrap/src): each launch of `berimor` makes sure that  *)
(* the cache holds the native binary of the package's version, and runs it.   *)
(* Launches share the cache directory with each other and with self-update,   *)
(* which renames the binary inside the same directory (self_update.rs).       *)
(***************************************************************************)
EXTENDS Integers

CONSTANTS Launch,    \* OS processes running the package's entry point
          MaxFaults  \* bound: kills of launches and of swaps

VARIABLES
    cache,     \* cacheDir/<version>: absent, or what stands at the binary's path
    launch,    \* process -> where it is in ensureInstalled
    archive,   \* process -> its temporary archive: none, genuine or forged
    scratch,   \* process -> its temporary directory: none, half or whole
    swap,      \* self-update inside the directory: idle, moved (binary away)
    faults, cut \* cut: a self-update was in its window, or stopped in it

bootstrap_vars == <<cache, launch, archive, scratch, swap, faults, cut>>

Binary == cache \in {"genuine", "forged"}
To(r, at) == launch' = [launch EXCEPT ![r] = at]

-----------------------------------------------------------------------------
(* ensureInstalled, one file-system operation per step *)

\* detectPlatform refuses an unknown platform; a present binary is enough.
starts_launch(r) ==
    /\ launch[r] = "idle"
    /\ \/ To(r, IF Binary THEN "delegate" ELSE "download")
       \/ To(r, "failed")
    /\ UNCHANGED <<cache, archive, scratch, swap, faults, cut>>

\* loadChecksums, expectedChecksumFor and downloadAsset: no manifest, no entry
\* for the asset or an HTTP error fails; the answer may be anything.
downloadAsset(r) ==
    /\ launch[r] = "download"
    /\ \/ \E a \in {"genuine", "forged"} :
             archive' = [archive EXCEPT ![r] = a] /\ To(r, "verify")
       \/ To(r, "failed") /\ UNCHANGED archive
    /\ UNCHANGED <<cache, scratch, swap, faults, cut>>

checksum_matches(r) == archive[r] = "genuine"

verifyChecksum(r) ==
    /\ launch[r] = "verify"
    /\ To(r, IF checksum_matches(r) THEN "extract" ELSE "failed")
    /\ UNCHANGED <<cache, archive, scratch, swap, faults, cut>>

makes_tmp_dir(r) == scratch' = [scratch EXCEPT ![r] = "half"] /\ UNCHANGED cache

\* An existing directory is taken for an installed one.
extractAtomically(r) ==
    /\ launch[r] = "extract"
    /\ IF cache = "absent"
       THEN makes_tmp_dir(r) /\ To(r, "unpack")
       ELSE To(r, "delegate") /\ UNCHANGED <<scratch, cache>>
    /\ UNCHANGED <<archive, swap, faults, cut>>

\* Bug: the archive is unpacked straight into the directory.
unpack_in_place(r) ==
    \/ cache' = archive[r] /\ scratch' = [scratch EXCEPT ![r] = "whole"]
    \/ cache' = "half" /\ scratch' = [scratch EXCEPT ![r] = "half"]
unpack_beside(r) == scratch' = [scratch EXCEPT ![r] = "whole"] /\ UNCHANGED cache

extractInto(r) ==
    /\ launch[r] = "unpack"
    /\ \/ unpack_beside(r) /\ To(r, "rename")
       \/ To(r, "failed") /\ scratch' = [scratch EXCEPT ![r] = "none"] /\ UNCHANGED cache
    /\ UNCHANGED <<archive, swap, faults, cut>>

\* rename(2) of a directory; ENOTEMPTY and EEXIST accept what is there.
renameSync(r) ==
    /\ launch[r] = "rename"
    /\ cache' = IF cache = "absent" THEN archive[r] ELSE cache
    /\ scratch' = [scratch EXCEPT ![r] = "none"]
    /\ To(r, "delegate")
    /\ UNCHANGED <<archive, swap, faults, cut>>

\* spawnSync: a binary that is not there is exit status 1.
delegate(r) ==
    /\ launch[r] = "delegate"
    /\ To(r, CASE cache = "genuine" -> "ran" [] cache = "forged" -> "ran_forged"
               [] cache = "half" -> "ran_half" [] OTHER -> "nothing_to_run")
    /\ archive' = [archive EXCEPT ![r] = "none"]
    /\ UNCHANGED <<cache, scratch, swap, faults, cut>>

relaunch(r) ==
    /\ launch[r] \in {"failed", "nothing_to_run", "killed"}
    /\ To(r, "idle")
    /\ archive' = [archive EXCEPT ![r] = "none"] /\ scratch' = [scratch EXCEPT ![r] = "none"]
    /\ UNCHANGED <<cache, swap, faults, cut>>

launch_killed(r) ==
    /\ launch[r] \in {"verify", "extract", "unpack", "rename"} /\ faults < MaxFaults
    /\ faults' = faults + 1 /\ To(r, "killed")
    /\ UNCHANGED <<cache, archive, scratch, swap, cut>>

\* SelfUpdate.backs_up and renames_new on current_exe() = the cached binary.
self_update_swaps ==
    \/ /\ swap = "idle" /\ cache = "genuine"
       /\ cache' = "no_binary" /\ swap' = "moved" /\ cut' = TRUE /\ UNCHANGED faults
    \/ swap = "moved" /\ cache' = "genuine" /\ swap' = "idle" /\ UNCHANGED <<cut, faults>>
    \/ swap = "moved" /\ faults < MaxFaults /\ faults' = faults + 1
       /\ swap' = "stopped" /\ UNCHANGED <<cache, cut>>

swaps == self_update_swaps /\ UNCHANGED <<launch, archive, scratch>>

BootstrapInit ==
    /\ cache = "absent" /\ launch = [r \in Launch |-> "idle"]
    /\ archive = [r \in Launch |-> "none"] /\ scratch = [r \in Launch |-> "none"]
    /\ swap = "idle" /\ faults = 0 /\ cut = FALSE

BootstrapNext ==
    \/ \E r \in Launch :
          \/ starts_launch(r) \/ downloadAsset(r) \/ verifyChecksum(r)
          \/ extractAtomically(r) \/ extractInto(r) \/ renameSync(r)
          \/ delegate(r) \/ relaunch(r) \/ launch_killed(r)
    \/ swaps

BootstrapSpec == BootstrapInit /\ [][BootstrapNext]_bootstrap_vars

-----------------------------------------------------------------------------
(* Properties *)

\* What a launch hands control to was checked against the pinned sum, by
\* itself or by the launch that installed it, and is never half unpacked -
\* whichever launches ran at once or were killed.
RunsOnlyPinned == \A r \in Launch : launch[r] \notin {"ran_forged", "ran_half"}

\* ensureInstalled does not return the path of a binary that is not there,
\* unless self-update was between its two renames.
EnsuredIsThere == ~cut => \A r \in Launch : launch[r] # "nothing_to_run"
=============================================================================
