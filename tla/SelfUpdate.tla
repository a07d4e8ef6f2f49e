----------------------------- MODULE SelfUpdate -----------------------------
(***************************************************************************)
(* berimor self-update (crates/berimor-cli/src/self_update.rs with the      *)
(* process fixtures/golden/processes/agent-self-update.yaml): the graph of   *)
(* tools as an instance's journal, the files the tools rename, and the OS    *)
(* processes that start or resume an instance.  There is no lease: two may   *)
(* run at once.  A tool call and the event that records it are two steps     *)
(* where the tool renames files.                                             *)
(***************************************************************************)
EXTENDS Integers, Sequences

CONSTANTS Updater,   \* OS processes (their pids) that run the command
          MaxKills   \* bound: kills

VARIABLES
    files,     \* path -> what lies there; <<>> is the installed executable
    unpacked,  \* pid of the downloading process -> what its directory holds
    applied,   \* instance -> its StepApplied events (an instance has its creator's pid)
    up,        \* OS process -> its state
    release,   \* what the release server and the archive turn out to be
    kills, disturbed  \* disturbed: a kill between two renames, two at once, or
                      \* an update run from a backup, into the backup's place

update_vars == <<files, unpacked, applied, up, release, kills, disturbed>>

\* current_exe().backup-<pid>, and the backup of a process run from a backup.
Exe     == <<>>
Backups == {<<r>> : r \in Updater} \cup {<<q, r>> : q \in Updater, r \in Updater}
Places  == {Exe} \cup Backups
Runnable(b) == b = "old" \/ (b = "new" /\ release.sound)
Present(p)  == files[p] # "none"

Idle == [at |-> "idle", exe |-> Exe, version |-> "none", inst |-> "none", mine |-> <<>>]
Active(r) == up[r].at \notin {"idle", "ended"}

-----------------------------------------------------------------------------
(* The graph: what comes after the last applied step *)

Applied(mine, s) == \E i \in DOMAIN mine : mine[i].step = s
ValueOf(mine, s) == mine[CHOOSE i \in DOMAIN mine : mine[i].step = s].val

verify_gate(ok) == IF ok THEN "prepare_swap" ELSE "fail_update"

major_gate(v) ==
    CASE ~v.newer -> "done" [] v.newer /\ v.major -> "human_review" [] OTHER -> "resolve_artifact"

step_after(last) ==
    CASE last.step = "check_version" -> major_gate(last.val)
      [] last.step = "resolve_artifact" -> "download"
      [] last.step = "download" -> "verify"
      [] last.step = "verify" -> verify_gate(last.val)
      [] last.step = "prepare_swap" -> "swap"
      [] last.step = "swap" -> "smoke_test"
      [] last.step = "smoke_test" -> IF last.val THEN "commit_update" ELSE "rollback"
      [] last.step = "rollback" -> "fail_update"
      [] last.step = "commit_update" -> "done"
      [] last.step = "done" -> "finished"

following(mine) == IF mine = <<>> THEN "check_version" ELSE step_after(mine[Len(mine)])

At(r, s) == up[r].at = "loop" /\ following(up[r].mine) = s

\* The engine appends to the journal of the instance and moves its copy on.
Records(r, s, val) ==
    LET e == [step |-> s, val |-> val]
    IN  /\ applied' = [applied EXCEPT ![up[r].inst] = Append(@, e)]
        /\ up' = [up EXCEPT ![r].mine = Append(@, e), ![r].at = "loop"]

Ends(r) == up' = [up EXCEPT ![r] = [Idle EXCEPT !.at = "ended"]]

-----------------------------------------------------------------------------
(* run: instantiate or recover, and the human gate *)

\* A process is the binary it was started from, whatever is renamed later; its version is
\* the instance's input.  An instance is resumed whether or not another process drives it.
starts(r, p, i) ==
    /\ up[r].at = "idle" /\ Runnable(files[p])
    /\ i = r \/ applied[i] # <<>>
    /\ up' = [up EXCEPT ![r] = [at |-> "loop", exe |-> p, version |-> files[p], inst |-> i,
                              mine |-> applied[i]]]
    /\ disturbed' = (disturbed \/ \E q \in Updater : Active(q))
    /\ UNCHANGED <<files, unpacked, applied, release, kills>>

asks_human(r) ==
    /\ At(r, "human_review")
    /\ up' = [up EXCEPT ![r].at = "asked"]
    /\ UNCHANGED <<files, unpacked, applied, release, kills, disturbed>>

\* A yes goes on to the next step without an event that recover would restore.
human_agrees(r) ==
    /\ up[r].at = "asked"
    /\ Records(r, "resolve_artifact", TRUE)
    /\ UNCHANGED <<files, unpacked, release, kills, disturbed>>

-----------------------------------------------------------------------------
(* Tools without renames: the call and its event are one step *)

\* The version compiled into the process that created the instance decides is_newer.
check_version(r) ==
    /\ At(r, "check_version")
    /\ Records(r, "check_version",
               [newer |-> up[r].version = "old", major |-> release.major])
    /\ UNCHANGED <<files, unpacked, release, kills, disturbed>>

resolve_artifact(r) ==
    /\ At(r, "resolve_artifact")
    /\ Records(r, "resolve_artifact", TRUE)
    /\ UNCHANGED <<files, unpacked, release, kills, disturbed>>

\* Into a directory named by the pid; the event keeps its path.
download_release_asset(r) ==
    /\ At(r, "download")
    /\ Records(r, "download", r)
    /\ UNCHANGED <<files, unpacked, release, kills, disturbed>>

verify_signature(r) ==
    /\ At(r, "verify")
    /\ Records(r, "verify", release.genuine)
    /\ UNCHANGED <<files, unpacked, release, kills, disturbed>>

\* Unpacks and computes both paths, so that they are journalled before swap.
prepare_swap(r) ==
    /\ At(r, "prepare_swap") /\ Present(up[r].exe) /\ Len(up[r].exe) < 2
    /\ LET dir == ValueOf(up[r].mine, "download")
       IN /\ unpacked' = [unpacked EXCEPT ![dir] = "new"]
          /\ Records(r, "prepare_swap", [backup |-> Append(up[r].exe, r), dir |-> dir])
    /\ UNCHANGED <<files, release, kills, disturbed>>

\* A binary that does not start is ok = false, never an error.
self_check(r) ==
    /\ At(r, "smoke_test")
    /\ Records(r, "smoke_test", files[up[r].exe] = "new" /\ release.sound)
    /\ UNCHANGED <<files, unpacked, release, kills, disturbed>>

\* registry.record_version and the closing noop.
concludes(r, s) ==
    /\ s \in {"commit_update", "done"} /\ At(r, s)
    /\ Records(r, s, TRUE)
    /\ UNCHANGED <<files, unpacked, release, kills, disturbed>>

\* Finished, or self_update.fail, which is always an error.
run_returns(r) ==
    /\ At(r, "finished") \/ At(r, "fail_update")
    /\ Ends(r)
    /\ UNCHANGED <<files, unpacked, applied, release, kills, disturbed>>

-----------------------------------------------------------------------------
(* swap_binary and restore_from_checkpoint: one rename per step *)

Paths(r) == ValueOf(up[r].mine, "prepare_swap")

\* rename(2): the target is replaced; onto itself it does nothing.
Moved(from, to) ==
    files' = IF from = to THEN files ELSE [files EXCEPT ![to] = files[from], ![from] = "none"]

\* Bug: the new binary goes over the old one.
backs_up_nothing(r) == UNCHANGED files
backs_up(r) == Moved(up[r].exe, Paths(r).backup)

renames_away(r) ==
    /\ At(r, "swap") /\ Present(up[r].exe)
    /\ backs_up(r)
    /\ up' = [up EXCEPT ![r].at = "swapping"]
    /\ UNCHANGED <<unpacked, applied, release, kills, disturbed>>

puts_back(r) == IF Present(Paths(r).backup) THEN Moved(Paths(r).backup, up[r].exe) ELSE UNCHANGED files

renames_new(r) ==
    /\ up[r].at = "swapping"
    /\ LET dir == Paths(r).dir
       IN \/ /\ unpacked[dir] = "new"
             /\ files' = [files EXCEPT ![up[r].exe] = "new"]
             /\ unpacked' = [unpacked EXCEPT ![dir] = "none"]
             /\ up' = [up EXCEPT ![r].at = "swapped"]
             /\ disturbed' = (disturbed \/ up[r].exe # Exe)
          \/ puts_back(r) /\ Ends(r) /\ UNCHANGED <<unpacked, disturbed>>
    /\ UNCHANGED <<applied, release, kills>>

\* The executable is gone when swap begins: complete the swap, or take the
\* backup back, or give up.
completes_swap(r) ==
    /\ At(r, "swap") /\ ~Present(up[r].exe) /\ Present(Paths(r).backup)
    /\ IF unpacked[Paths(r).dir] = "new"
       THEN /\ files' = [files EXCEPT ![up[r].exe] = "new"]
            /\ unpacked' = [unpacked EXCEPT ![Paths(r).dir] = "none"]
       ELSE Moved(Paths(r).backup, up[r].exe) /\ UNCHANGED unpacked
    /\ up' = [up EXCEPT ![r].at = "swapped"]
    /\ UNCHANGED <<applied, release, kills, disturbed>>

swap_recorded(r) ==
    /\ up[r].at = "swapped"
    /\ Records(r, "swap", Paths(r).backup)
    /\ UNCHANGED <<files, unpacked, release, kills, disturbed>>

restore_from_checkpoint(r) == Moved(ValueOf(up[r].mine, "swap"), up[r].exe)

rolls_back(r) ==
    /\ At(r, "rollback") /\ Present(ValueOf(up[r].mine, "swap"))
    /\ restore_from_checkpoint(r)
    /\ up' = [up EXCEPT ![r].at = "restored"]
    /\ UNCHANGED <<unpacked, applied, release, kills, disturbed>>

rollback_recorded(r) ==
    /\ up[r].at = "restored"
    /\ Records(r, "rollback", TRUE)
    /\ UNCHANGED <<files, unpacked, release, kills, disturbed>>

-----------------------------------------------------------------------------
\* A tool's Err, a refused confirmation, the human's no and a storage error
\* all end the process with nothing changed, as a kill between two tools does.
gives_up(r) ==
    /\ up[r].at \in {"loop", "asked"}
    /\ Ends(r)
    /\ UNCHANGED <<files, unpacked, applied, release, kills, disturbed>>

killed(r) ==
    /\ up[r].at \in {"swapping", "swapped", "restored"} /\ kills < MaxKills
    /\ kills' = kills + 1
    /\ disturbed' = (disturbed \/ up[r].at = "swapping")
    /\ Ends(r)
    /\ UNCHANGED <<files, unpacked, applied, release>>

\* verify.rs: the file beside an archive, what its signature covers and who its certificate
\* names.
Bundle == [file : {"none", "broken", "whole"}, covers : {"archive", "other"},
           issuer : {"github", "other"}, repository : {"own", "other"}, path : {"release", "other"}]
ReleaseWorkflowPath(bundle) == bundle.path = "release"
verify_artifact(bundle) ==
    /\ bundle.file = "whole" /\ bundle.covers = "archive" /\ bundle.issuer = "github"
    /\ bundle.repository = "own" /\ ReleaseWorkflowPath(bundle)

UpdateInit ==
    /\ files = [p \in Places |-> IF p = Exe THEN "old" ELSE "none"]
    /\ unpacked = [r \in Updater |-> "none"]
    /\ applied = [r \in Updater |-> <<>>]
    /\ up = [r \in Updater |-> Idle]
    /\ release \in [major : BOOLEAN, genuine : {verify_artifact(b) : b \in Bundle}, sound : BOOLEAN]
    /\ release.sound => release.genuine
    /\ kills = 0 /\ disturbed = FALSE

UpdateNext ==
    \E r \in Updater :
        \/ \E p \in Places, i \in Updater : starts(r, p, i)
        \/ asks_human(r) \/ human_agrees(r)
        \/ check_version(r) \/ resolve_artifact(r) \/ download_release_asset(r)
        \/ verify_signature(r) \/ prepare_swap(r) \/ self_check(r)
        \/ \E s \in {"commit_update", "done"} : concludes(r, s)
        \/ run_returns(r)
        \/ renames_away(r) \/ renames_new(r) \/ completes_swap(r) \/ swap_recorded(r)
        \/ rolls_back(r) \/ rollback_recorded(r)
        \/ gives_up(r) \/ killed(r)

UpdateSpec == UpdateInit /\ [][UpdateNext]_update_vars

-----------------------------------------------------------------------------
(* Properties *)

\* Nothing that failed verification is ever unpacked or put anywhere,
\* whichever process resumes the instance.
VerifiedOnly ==
    (\E p \in Places : files[p] = "new") \/ (\E r \in Updater : unpacked[r] = "new")
        => release.genuine

\* A binary that runs stays on disk, also when the new one is broken and the
\* process is killed before a rename is recorded - as long as no kill falls
\* between the two renames, no second update runs meanwhile and no update is
\* put over the backup of another.
SomethingRuns == disturbed \/ \E p \in Places : Runnable(files[p])

\* A rollback that is recorded as done has left something that runs in the
\* place the process was started from.
RollbackRuns ==
    \A r \in Updater :
        At(r, "fail_update") /\ Applied(up[r].mine, "rollback") /\ ~disturbed =>
            Runnable(files[up[r].exe])

\* swap_binary is documented as idempotent: "the window between the renames is
\* no longer fatal".
SomethingAlwaysRuns == \E p \in Places : Runnable(files[p])
=============================================================================
