----------------------------- MODULE InstallProofs -----------------------------
(***************************************************************************)
(* What reaches a machine was verified, and something that runs stays there. *)
(* Of berimor self-update: the archive's verdict is known to the journal     *)
(* (VerifiedInv), and renames leave a binary that runs (RunsInv).  Of plugin *)
(* install: an instance's journal begins with what the list said, whoever    *)
(* resumes it (ReviewInv), and one installer at a time leaves a whole plugin *)
(* (WholeInv).  Of the npm package: only what passed the pinned sum reaches   *)
(* the cache (PinnedInv).                                                     *)
(***************************************************************************)
EXTENDS MCInstall, TLAPS

-----------------------------------------------------------------------------
(* self-update: the journal of an instance knows the verdict *)

StepNames == {"check_version", "resolve_artifact", "download", "verify", "prepare_swap", "swap",
              "smoke_test", "rollback", "commit_update", "done"}
Verified  == {"prepare_swap", "swap", "smoke_test", "rollback", "commit_update"}

\* One event is enough to tell: the step behind the gate is journalled only of
\* a genuine archive, in whatever order two processes append.
EventOK(e) ==
    /\ e.step \in StepNames
    /\ e.step = "verify" => e.val = release.genuine
    /\ e.step \in Verified => release.genuine
JournalOK(events) ==
    /\ \E S : events \in Seq(S)
    /\ \A i \in DOMAIN events : EventOK(events[i])

IsProcess(x) ==
    x = [at |-> x.at, exe |-> x.exe, version |-> x.version, inst |-> x.inst, mine |-> x.mine]

VerifiedInv ==
    /\ release.genuine \in BOOLEAN
    /\ applied = [i \in Updater |-> applied[i]]
    /\ up = [r \in Updater |-> up[r]]
    /\ \A r \in Updater : IsProcess(up[r])
    /\ \A i \in Updater : JournalOK(applied[i]) /\ JournalOK(up[i].mine)
    /\ \A r \in Updater : up[r].at \in {"swapping", "swapped", "restored"} => release.genuine
    /\ VerifiedOnly

LEMMA EmptyOK == JournalOK(<<>>)
<1>1. <<>> \in Seq({})
  OBVIOUS
<1>2. DOMAIN <<>> = {}
  OBVIOUS
<1>3. QED
  BY <1>1, <1>2 DEF JournalOK

LEMMA AppendOK ==
    ASSUME NEW events, JournalOK(events), NEW e, EventOK(e)
    PROVE  JournalOK(Append(events, e))
<1>1. PICK S : events \in Seq(S)
  BY DEF JournalOK
<1>2. events \in Seq(S \cup {e}) /\ e \in S \cup {e}
  BY <1>1
<1>3. /\ Append(events, e) \in Seq(S \cup {e})
      /\ Len(Append(events, e)) = Len(events) + 1
      /\ DOMAIN Append(events, e) = 1..(Len(events) + 1)
      /\ Append(events, e)[Len(events) + 1] = e
      /\ DOMAIN events = 1..Len(events) /\ Len(events) \in Nat
      /\ \A i \in 1..Len(events) : Append(events, e)[i] = events[i]
  BY <1>2
<1>4. ASSUME NEW i \in DOMAIN Append(events, e) PROVE EventOK(Append(events, e)[i])
  <2>1. i = Len(events) + 1 \/ i \in 1..Len(events)
    BY <1>3, <1>4
  <2>2. QED
    BY <1>3, <2>1 DEF JournalOK
<1>5. QED
  BY <1>3, <1>4 DEF JournalOK

\* Behind the gate the archive is genuine.
LEMMA BehindTheGate ==
    ASSUME NEW events, JournalOK(events), release.genuine \in BOOLEAN,
           following(events) \in Verified
    PROVE  release.genuine
<1>1. PICK S : events \in Seq(S)
  BY DEF JournalOK
<1>2. events # <<>>
  BY DEF following, step_after, Verified
<1>3. Len(events) \in DOMAIN events
  BY <1>1, <1>2
<1> DEFINE last == events[Len(events)]
<1>4. EventOK(last)
  BY <1>3 DEF JournalOK
<1>5. last.step \in StepNames /\ (last.step = "verify" => last.val = release.genuine)
      /\ (last.step \in Verified => release.genuine)
  BY <1>4 DEF EventOK
<1>6. CASE last.step = "check_version"
  BY <1>2, <1>6 DEF following, step_after, major_gate, Verified
<1>7. CASE last.step = "resolve_artifact" \/ last.step = "download" \/ last.step = "done"
  BY <1>2, <1>7 DEF following, step_after, Verified
<1>8. CASE last.step = "verify"
  BY <1>2, <1>5, <1>8 DEF following, step_after, verify_gate, Verified
<1>9. QED
  BY <1>5, <1>6, <1>7, <1>8 DEF StepNames, Verified

LEMMA FieldSet ==
    ASSUME NEW x, IsProcess(x), NEW y
    PROVE  /\ IsProcess([x EXCEPT !.at = y])
           /\ [x EXCEPT !.at = y].at = y /\ [x EXCEPT !.at = y].mine = x.mine
           /\ IsProcess([x EXCEPT !.mine = y])
           /\ [x EXCEPT !.mine = y].mine = y /\ [x EXCEPT !.mine = y].at = x.at
<1> DEFINE a == x.at
<1> DEFINE b == x.exe
<1> DEFINE c == x.inst
<1> DEFINE d == x.mine
<1> DEFINE v == x.version
<1>1. x = [at |-> a, exe |-> b, version |-> v, inst |-> c, mine |-> d]
  BY DEF IsProcess
<1> HIDE DEF a, b, c, d, v
<1>2. /\ [x EXCEPT !.at = y] = [at |-> y, exe |-> b, version |-> v, inst |-> c, mine |-> d]
      /\ [x EXCEPT !.mine = y] = [at |-> a, exe |-> b, version |-> v, inst |-> c, mine |-> y]
  BY <1>1
<1>3. x.mine = d /\ x.at = a
  BY <1>1
<1>4. QED
  BY <1>2, <1>3 DEF IsProcess

\* What a step of r makes of the table of processes.
LEMMA ProcessSet ==
    ASSUME VerifiedInv, NEW r \in Updater, NEW x, IsProcess(x), JournalOK(x.mine),
           up' = [up EXCEPT ![r] = x], UNCHANGED release, VerifiedOnly',
           x.at \in {"swapping", "swapped", "restored"} => release.genuine,
           applied' = [i \in Updater |-> applied'[i]],
           \A i \in Updater : JournalOK(applied'[i])
    PROVE  VerifiedInv'
<1>1. up' = [q \in Updater |-> IF q = r THEN x ELSE up[q]]
  BY DEF VerifiedInv
<1>2. \A q \in Updater : up'[q] = x \/ up'[q] = up[q]
  BY <1>1
<1>3. \A events : JournalOK(events) => JournalOK(events)'
  BY DEF JournalOK, EventOK
<1>4. ASSUME NEW q \in Updater
      PROVE  /\ IsProcess(up'[q]) /\ JournalOK(up'[q].mine)
             /\ up'[q].at \in {"swapping", "swapped", "restored"} => release.genuine
  <2>1. CASE up'[q] = x
    BY <2>1
  <2>2. CASE up'[q] = up[q]
    BY <2>2 DEF VerifiedInv
  <2>3. QED
    BY <1>2, <2>1, <2>2
<1>5. up' = [q \in Updater |-> up'[q]]
  BY <1>1
<1>6. QED
  BY <1>3, <1>4, <1>5 DEF VerifiedInv

LEMMA RecordsKeep ==
    ASSUME VerifiedInv, NEW r \in Updater, NEW s, NEW val, Records(r, s, val),
           UNCHANGED release, EventOK([step |-> s, val |-> val]), VerifiedOnly'
    PROVE  VerifiedInv'
<1> DEFINE e == [step |-> s, val |-> val]
<1> DEFINE read == [up[r] EXCEPT !.mine = Append(@, e)]
<1> DEFINE x == [read EXCEPT !.at = "loop"]
<1>1. /\ applied' = [applied EXCEPT ![up[r].inst] = Append(@, e)]
      /\ up' = [up EXCEPT ![r].mine = Append(@, e), ![r].at = "loop"]
  BY DEF Records
<1>2. EventOK(e)
  OBVIOUS
<1> HIDE DEF e
<1>3. ASSUME NEW i \in Updater PROVE JournalOK(applied'[i])
  <2>1. applied'[i] = applied[i] \/ applied'[i] = Append(applied[i], e)
    BY <1>1 DEF VerifiedInv
  <2>2. JournalOK(applied[i])
    BY DEF VerifiedInv
  <2>3. JournalOK(Append(applied[i], e))
    BY <1>2, <2>2, AppendOK
  <2>4. QED
    BY <2>1, <2>2, <2>3
<1>4. applied' = [i \in Updater |-> applied'[i]]
  BY <1>1 DEF VerifiedInv
<1>5. IsProcess(read) /\ read.mine = Append(up[r].mine, e)
  <2>1. IsProcess(up[r])
    BY DEF VerifiedInv
  <2>2. QED
    BY <2>1, FieldSet, Zenon
<1>6. JournalOK(Append(up[r].mine, e))
  BY <1>2, AppendOK DEF VerifiedInv
<1>7. up' = [up EXCEPT ![r] = x]
  <2>1. up = [q \in Updater |-> up[q]]
    BY DEF VerifiedInv
  <2> DEFINE first == [up EXCEPT ![r].mine = Append(@, e)]
  <2>2. first = [q \in Updater |-> IF q = r THEN read ELSE up[q]]
    BY <2>1
  <2>3. up' = [first EXCEPT ![r].at = "loop"]
    BY <1>1
  <2> HIDE DEF first, read
  <2>4. QED
    BY <2>1, <2>2, <2>3
<1> HIDE DEF read
<1>8. IsProcess(x) /\ x.at = "loop" /\ x.mine = Append(up[r].mine, e)
  BY <1>5, FieldSet
<1> HIDE DEF x
<1>9. QED
  BY <1>3, <1>4, <1>6, <1>7, <1>8, ProcessSet

\* A process that only moves on.
LEMMA MoveKeeps ==
    ASSUME VerifiedInv, NEW r \in Updater, UNCHANGED <<applied, release>>, VerifiedOnly',
           NEW at, up' = [up EXCEPT ![r].at = at],
           at \in {"swapping", "swapped", "restored"} => release.genuine
    PROVE  VerifiedInv'
<1> DEFINE x == [up[r] EXCEPT !.at = at]
<1>1. IsProcess(x) /\ x.at = at /\ x.mine = up[r].mine
  <2>1. IsProcess(up[r])
    BY DEF VerifiedInv
  <2>2. QED
    BY <2>1, FieldSet, Zenon
<1>2. up' = [up EXCEPT ![r] = x]
  BY DEF VerifiedInv
<1> HIDE DEF x
<1>3. JournalOK(x.mine) /\ \A i \in Updater : JournalOK(applied'[i])
  BY <1>1 DEF VerifiedInv
<1>4. applied' = [i \in Updater |-> applied'[i]]
  BY DEF VerifiedInv
<1>5. QED
  BY <1>1, <1>2, <1>3, <1>4, ProcessSet

\* A process that starts, or ends.
LEMMA NewProcess ==
    ASSUME VerifiedInv, NEW r \in Updater, UNCHANGED <<applied, release>>, VerifiedOnly',
           NEW at, at \in {"loop", "ended"}, NEW exe, NEW version, NEW i, NEW mine,
           JournalOK(mine),
           up' = [up EXCEPT ![r] = [at |-> at, exe |-> exe, version |-> version, inst |-> i,
                                    mine |-> mine]]
    PROVE  VerifiedInv'
<1> DEFINE x == [at |-> at, exe |-> exe, version |-> version, inst |-> i, mine |-> mine]
<1>1. IsProcess(x) /\ x.at = at /\ x.mine = mine
  BY DEF IsProcess
<1> HIDE DEF x
<1>2. up' = [up EXCEPT ![r] = x]
  BY DEF x
<1>3. applied' = [q \in Updater |-> applied'[q]] /\ \A q \in Updater : JournalOK(applied'[q])
  BY DEF VerifiedInv
<1>4. x.at \notin {"swapping", "swapped", "restored"}
  BY <1>1
<1>5. QED
  BY <1>1, <1>2, <1>3, <1>4, ProcessSet

LEMMA EndsKeep ==
    ASSUME VerifiedInv, NEW r \in Updater, UNCHANGED <<applied, release>>, VerifiedOnly', Ends(r)
    PROVE  VerifiedInv'
<1>1. [Idle EXCEPT !.at = "ended"] =
         [at |-> "ended", exe |-> Exe, version |-> "none", inst |-> "none", mine |-> <<>>]
  BY DEF Idle
<1>2. up' = [up EXCEPT ![r] =
         [at |-> "ended", exe |-> Exe, version |-> "none", inst |-> "none", mine |-> <<>>]]
  BY <1>1 DEF Ends
<1>3. QED
  BY <1>2, EmptyOK, NewProcess

LEMMA InitVerified == UpdateInit => VerifiedInv
<1> SUFFICES ASSUME UpdateInit PROVE VerifiedInv
  OBVIOUS
<1>1. VerifiedOnly /\ release.genuine \in BOOLEAN
  BY DEF UpdateInit, VerifiedOnly, verify_artifact
<1>2. IsProcess(Idle) /\ Idle.at = "idle" /\ Idle.mine = <<>>
  BY DEF IsProcess, Idle
<1>3. \A r \in Updater : up[r] = Idle /\ applied[r] = <<>>
  BY DEF UpdateInit
<1>4. up = [r \in Updater |-> up[r]] /\ applied = [r \in Updater |-> applied[r]]
  BY DEF UpdateInit
<1>5. QED
  BY <1>1, <1>2, <1>3, <1>4, EmptyOK DEF VerifiedInv

LEMMA StepVerified == VerifiedInv /\ [UpdateNext]_update_vars => VerifiedInv'
<1> SUFFICES ASSUME VerifiedInv, [UpdateNext]_update_vars PROVE VerifiedInv'
  OBVIOUS
<1>1. UNCHANGED release
  BY DEF UpdateNext, update_vars, starts, asks_human, human_agrees, check_version, resolve_artifact,
         download_release_asset, verify_signature, prepare_swap, self_check, concludes, run_returns,
         renames_away, renames_new, completes_swap, swap_recorded, rolls_back, rollback_recorded,
         gives_up, killed
<1>2. release.genuine => VerifiedOnly'
  BY <1>1 DEF VerifiedOnly
<1>3. UNCHANGED <<files, unpacked>> => VerifiedOnly'
  BY <1>1 DEF VerifiedInv, VerifiedOnly
<1>4. ASSUME NEW r \in Updater, NEW s \in Verified, At(r, s) PROVE release.genuine
  BY <1>4, BehindTheGate DEF At, VerifiedInv
<1>5. ASSUME NEW r \in Updater, NEW p \in Places, NEW i \in Updater, starts(r, p, i)
      PROVE  VerifiedInv'
  BY <1>1, <1>3, <1>5, NewProcess DEF starts, VerifiedInv
<1>6. ASSUME NEW r \in Updater, asks_human(r) PROVE VerifiedInv'
  BY <1>1, <1>3, <1>6, MoveKeeps DEF asks_human
<1>7. ASSUME NEW r \in Updater,
             \/ human_agrees(r) \/ check_version(r) \/ resolve_artifact(r)
             \/ download_release_asset(r) \/ verify_signature(r)
             \/ \E s \in {"commit_update", "done"} : concludes(r, s)
             \/ self_check(r) \/ swap_recorded(r) \/ rollback_recorded(r)
      PROVE  VerifiedInv'
  <2>1. UNCHANGED <<files, unpacked>>
    BY <1>7 DEF human_agrees, check_version, resolve_artifact, download_release_asset,
                verify_signature, concludes, self_check, swap_recorded, rollback_recorded
  <2>2. PICK s, val : /\ Records(r, s, val)
                      /\ s \in StepNames
                      /\ s = "verify" => val = release.genuine
                      /\ s \in Verified => release.genuine
    <3>1. CASE human_agrees(r) \/ resolve_artifact(r)
      <4>1. \E val : Records(r, "resolve_artifact", val)
        BY <3>1 DEF human_agrees, resolve_artifact
      <4>2. QED
        BY <4>1 DEF StepNames, Verified
    <3>2. CASE check_version(r) \/ download_release_asset(r)
      BY <3>2 DEF check_version, download_release_asset, StepNames, Verified
    <3>3. CASE verify_signature(r)
      BY <3>3 DEF verify_signature, StepNames, Verified
    <3>4. ASSUME NEW s \in {"commit_update", "done"}, concludes(r, s)
          PROVE  Records(r, s, TRUE) /\ (s \in Verified => release.genuine)
      BY <1>4, <3>4 DEF concludes
    <3>5. CASE self_check(r)
      <4>1. release.genuine
        BY <1>4, <3>5 DEF self_check, Verified
      <4>2. \E val : Records(r, "smoke_test", val)
        BY <3>5 DEF self_check
      <4>3. QED
        BY <4>1, <4>2 DEF StepNames
    <3>6. CASE swap_recorded(r) \/ rollback_recorded(r)
      BY <3>6 DEF swap_recorded, rollback_recorded, VerifiedInv, StepNames
    <3>7. QED
      BY <1>7, <3>1, <3>2, <3>3, <3>4, <3>5, <3>6 DEF StepNames
  <2>3. EventOK([step |-> s, val |-> val])
    BY <2>2 DEF EventOK
  <2>4. QED
    BY <1>1, <1>3, <2>1, <2>2, <2>3, RecordsKeep
<1>8. ASSUME NEW r \in Updater, prepare_swap(r) PROVE VerifiedInv'
  <2>1. release.genuine
    BY <1>4, <1>8 DEF prepare_swap, Verified
  <2>2. PICK val : Records(r, "prepare_swap", val)
    BY <1>8 DEF prepare_swap
  <2>3. EventOK([step |-> "prepare_swap", val |-> val])
    BY <2>1 DEF EventOK, StepNames
  <2>4. QED
    BY <1>1, <1>2, <2>1, <2>2, <2>3, RecordsKeep
<1>9. ASSUME NEW r \in Updater, run_returns(r) \/ gives_up(r) \/ killed(r) PROVE VerifiedInv'
  BY <1>1, <1>3, <1>9, EndsKeep DEF run_returns, gives_up, killed
<1>10. ASSUME NEW r \in Updater, renames_away(r) \/ completes_swap(r) \/ rolls_back(r)
       PROVE  VerifiedInv'
  <2>1. release.genuine
    BY <1>4, <1>10 DEF renames_away, completes_swap, rolls_back, Verified
  <2>2. UNCHANGED applied /\ \E at \in {"swapping", "swapped", "restored"} : up' = [up EXCEPT ![r].at = at]
    BY <1>10 DEF renames_away, completes_swap, rolls_back
  <2>3. QED
    BY <1>1, <1>2, <2>1, <2>2, MoveKeeps
<1>11. ASSUME NEW r \in Updater, renames_new(r) PROVE VerifiedInv'
  <2>1. release.genuine /\ UNCHANGED applied
    BY <1>11 DEF renames_new, VerifiedInv
  <2>2. up' = [up EXCEPT ![r].at = "swapped"] \/ Ends(r)
    BY <1>11 DEF renames_new
  <2>3. QED
    BY <1>1, <1>2, <2>1, <2>2, MoveKeeps, EndsKeep
<1>12. CASE UNCHANGED update_vars
  <2>1. \A events : JournalOK(events) => JournalOK(events)'
    BY <1>1 DEF JournalOK, EventOK
  <2>2. QED
    BY <1>3, <1>12, <2>1 DEF update_vars, VerifiedInv
<1>13. QED
  BY <1>5, <1>6, <1>7, <1>8, <1>9, <1>10, <1>11, <1>12 DEF UpdateNext

-----------------------------------------------------------------------------
(* self-update: one at a time, something that runs is left *)

\* The steps a process reaches with the binary it was started from in place.
Ready == {"check_version", "human_review", "resolve_artifact", "download", "verify",
          "prepare_swap", "swap", "fail_update"}

PathsKnown(events) ==
    /\ \A k \in DOMAIN events :
          /\ events[k].step = "prepare_swap" => events[k].val.backup \in Backups
          /\ events[k].step = "swap" => events[k].val \in Backups
    /\ Applied(events, "smoke_test") => Applied(events, "swap")

Stands(r) ==
    /\ up[r].inst \in Updater /\ up[r].exe \in Places /\ up[r].mine = applied[up[r].inst]
    /\ \/ up[r].at \in {"asked", "restored"}
       \/ up[r].at = "loop" /\ following(up[r].mine) \in Ready
       => Runnable(files[up[r].exe])
    /\ up[r].at \in {"swapping", "swapped"} => Applied(up[r].mine, "prepare_swap")
    /\ up[r].at = "swapping" => Runnable(files[Paths(r).backup])

RunsInv ==
    /\ files = [p \in Places |-> files[p]]
    /\ ~disturbed =>
        /\ \E p \in Places : Runnable(files[p])
        /\ \A p \in Backups : files[p] = "none" \/ Runnable(files[p])
        /\ \A i \in Updater : PathsKnown(applied[i])
        /\ \A r \in Updater : Active(r) => Stands(r)
        /\ \A r, q \in Updater : Active(r) /\ Active(q) => r = q

LEMMA FieldKept ==
    ASSUME NEW x, IsProcess(x), NEW y
    PROVE  /\ [x EXCEPT !.at = y].exe = x.exe /\ [x EXCEPT !.at = y].inst = x.inst
           /\ [x EXCEPT !.mine = y].exe = x.exe /\ [x EXCEPT !.mine = y].inst = x.inst
BY DEF IsProcess

LEMMA AppendsOne ==
    ASSUME NEW events, JournalOK(events), NEW e
    PROVE  /\ following(Append(events, e)) = following(<<e>>)
           /\ \A s : Applied(Append(events, e), s) <=> Applied(events, s) \/ e.step = s
           /\ \A k \in DOMAIN Append(events, e) :
                 Append(events, e)[k] = e \/ (k \in DOMAIN events /\ Append(events, e)[k] = events[k])
<1>1. PICK S : events \in Seq(S)
  BY DEF JournalOK
<1>2. events \in Seq(S \cup {e}) /\ e \in S \cup {e}
  BY <1>1
<1>3. /\ DOMAIN Append(events, e) = 1..(Len(events) + 1)
      /\ Len(Append(events, e)) = Len(events) + 1
      /\ Append(events, e)[Len(events) + 1] = e
      /\ DOMAIN events = 1..Len(events) /\ Len(events) \in Nat
      /\ \A k \in 1..Len(events) : Append(events, e)[k] = events[k]
      /\ Append(events, e) # <<>>
  BY <1>2
<1>4. \A k \in 1..(Len(events) + 1) : k \in 1..Len(events) \/ k = Len(events) + 1
  BY <1>3
<1>5. ASSUME NEW k \in DOMAIN Append(events, e)
      PROVE  Append(events, e)[k] = e \/ (k \in DOMAIN events /\ Append(events, e)[k] = events[k])
  <2>1. CASE k = Len(events) + 1
    BY <1>3, <2>1
  <2>2. CASE k \in 1..Len(events)
    <3>1. Append(events, e)[k] = events[k] /\ k \in DOMAIN events
      BY <1>3, <2>2
    <3>2. QED
      BY <3>1
  <2>3. QED
    BY <1>3, <1>4, <1>5, <2>1, <2>2
<1>6. ASSUME NEW s PROVE Applied(Append(events, e), s) <=> Applied(events, s) \/ e.step = s
  <2>1. Applied(events, s) => Applied(Append(events, e), s)
    <3> SUFFICES ASSUME NEW k \in DOMAIN events, events[k].step = s PROVE Applied(Append(events, e), s)
      BY DEF Applied
    <3>1. k \in DOMAIN Append(events, e) /\ Append(events, e)[k] = events[k]
      BY <1>3
    <3>2. QED
      BY <3>1 DEF Applied
  <2>2. Len(events) + 1 \in DOMAIN Append(events, e)
    BY <1>3
  <2>3. QED
    BY <1>3, <1>5, <2>1, <2>2 DEF Applied
<1>7. <<e>> # <<>> /\ Len(<<e>>) = 1 /\ <<e>>[1] = e
  OBVIOUS
<1>8. following(Append(events, e)) = following(<<e>>)
  BY <1>3, <1>7 DEF following
<1>9. QED
  BY <1>5, <1>6, <1>8

LEMMA CameFrom ==
    ASSUME NEW events, JournalOK(events)
    PROVE  /\ following(events) = "swap" => Applied(events, "prepare_swap")
           /\ following(events) = "rollback" => Applied(events, "smoke_test")
           /\ following(events) = "smoke_test" => Applied(events, "swap")
<1>1. CASE events = <<>>
  BY <1>1 DEF following
<1>2. CASE events # <<>>
  <2> DEFINE last == events[Len(events)]
  <2>1. PICK S : events \in Seq(S)
    BY DEF JournalOK
  <2>2. Len(events) \in DOMAIN events
    BY <1>2, <2>1
  <2>3. last.step \in StepNames
    BY <2>2 DEF JournalOK, EventOK
  <2>4. last.step = "check_version" =>
            following(events) \in {"done", "human_review", "resolve_artifact"}
    BY <1>2 DEF following, step_after, major_gate
  <2>5. last.step = "verify" => following(events) \in {"prepare_swap", "fail_update"}
    BY <1>2 DEF following, step_after, verify_gate
  <2>6. /\ last.step = "resolve_artifact" => following(events) = "download"
        /\ last.step = "download" => following(events) = "verify"
        /\ last.step = "rollback" => following(events) = "fail_update"
        /\ last.step = "commit_update" => following(events) = "done"
        /\ last.step = "done" => following(events) = "finished"
    BY <1>2 DEF following, step_after
  <2>7. /\ last.step = "prepare_swap" => following(events) = "swap"
        /\ last.step = "swap" => following(events) = "smoke_test"
        /\ last.step = "smoke_test" => following(events) \in {"commit_update", "rollback"}
    BY <1>2 DEF following, step_after
  <2>8. Applied(events, last.step)
    BY <2>2 DEF Applied
  <2> HIDE DEF last
  <2>9. QED
    BY <2>3, <2>4, <2>5, <2>6, <2>7, <2>8 DEF StepNames
<1>3. QED
  BY <1>1, <1>2

LEMMA RecordedPath ==
    ASSUME NEW events, PathsKnown(events)
    PROVE  /\ Applied(events, "prepare_swap") => ValueOf(events, "prepare_swap").backup \in Backups
           /\ Applied(events, "swap") => ValueOf(events, "swap") \in Backups
<1>1. ASSUME NEW s, Applied(events, s)
      PROVE  \E k \in DOMAIN events : events[k].step = s /\ ValueOf(events, s) = events[k].val
  BY <1>1 DEF Applied, ValueOf
<1>2. QED
  BY <1>1 DEF PathsKnown

LEMMA AtChanges ==
    ASSUME VerifiedInv, NEW r \in Updater, NEW at, up' = [up EXCEPT ![r].at = at]
    PROVE  /\ up'[r].at = at /\ up'[r].exe = up[r].exe /\ up'[r].inst = up[r].inst
           /\ up'[r].mine = up[r].mine /\ \A q \in Updater : q # r => up'[q] = up[q]
<1>1. IsProcess(up[r])
  BY DEF VerifiedInv
<1>2. up'[r] = [up[r] EXCEPT !.at = at] /\ \A q \in Updater : q # r => up'[q] = up[q]
  BY DEF VerifiedInv
<1>3. /\ [up[r] EXCEPT !.at = at].at = at /\ [up[r] EXCEPT !.at = at].mine = up[r].mine
      /\ [up[r] EXCEPT !.at = at].exe = up[r].exe /\ [up[r] EXCEPT !.at = at].inst = up[r].inst
  BY <1>1 DEF IsProcess
<1>4. QED
  BY <1>2, <1>3

LEMMA RecordChanges ==
    ASSUME VerifiedInv, NEW r \in Updater, NEW s, NEW val, Records(r, s, val)
    PROVE  LET e == [step |-> s, val |-> val]
           IN  /\ up'[r].at = "loop" /\ up'[r].exe = up[r].exe /\ up'[r].inst = up[r].inst
               /\ up'[r].mine = Append(up[r].mine, e)
               /\ \A q \in Updater : q # r => up'[q] = up[q]
               /\ \A i \in Updater :
                     applied'[i] = IF i = up[r].inst THEN Append(applied[i], e) ELSE applied[i]
<1> DEFINE e == [step |-> s, val |-> val]
<1> DEFINE first == [up EXCEPT ![r].mine = Append(@, e)]
<1>1. applied' = [applied EXCEPT ![up[r].inst] = Append(@, e)] /\ up' = [first EXCEPT ![r].at = "loop"]
  BY DEF Records
<1> HIDE DEF e
<1>2. IsProcess(up[r])
  BY DEF VerifiedInv
<1>3. /\ first[r] = [up[r] EXCEPT !.mine = Append(@, e)] /\ first = [q \in Updater |-> first[q]]
      /\ \A q \in Updater : q # r => first[q] = up[q]
  BY DEF VerifiedInv
<1> DEFINE read == [up[r] EXCEPT !.mine = Append(@, e)]
<1>4. /\ IsProcess(read) /\ read.mine = Append(up[r].mine, e)
  BY <1>2, FieldSet, Zenon
<1>5. read.exe = up[r].exe /\ read.inst = up[r].inst
  BY <1>2, FieldKept, Zenon
<1> HIDE DEF first, read
<1>6. up'[r] = [read EXCEPT !.at = "loop"] /\ \A q \in Updater : q # r => up'[q] = up[q]
  BY <1>1, <1>3 DEF read
<1>7. /\ [read EXCEPT !.at = "loop"].at = "loop" /\ [read EXCEPT !.at = "loop"].mine = read.mine
  BY <1>4, FieldSet, Zenon
<1>8. /\ [read EXCEPT !.at = "loop"].exe = read.exe /\ [read EXCEPT !.at = "loop"].inst = read.inst
  BY <1>4, FieldKept, Zenon
<1>9. \A i \in Updater : applied'[i] = IF i = up[r].inst THEN Append(applied[i], e) ELSE applied[i]
  BY <1>1 DEF VerifiedInv
<1>10. QED
  BY <1>4, <1>5, <1>6, <1>7, <1>8, <1>9 DEF e

\* A file moved onto a path leaves it runnable there, and no backup broken.
LEMMA MovedRuns ==
    ASSUME RunsInv, NEW from \in Places, NEW to \in Places, Moved(from, to), Runnable(files[from]),
           \A p \in Backups : files[p] = "none" \/ Runnable(files[p])
    PROVE  /\ files' = [p \in Places |-> files'[p]] /\ Runnable(files'[to])
           /\ \A p \in Backups : files'[p] = "none" \/ Runnable(files'[p])
<1>1. CASE from = to
  BY <1>1 DEF Moved, RunsInv
<1>2. CASE from # to
  <2>1. files' = [files EXCEPT ![to] = files[from], ![from] = "none"]
    BY <1>2 DEF Moved
  <2>2. files' = [p \in Places |-> IF p = from THEN "none" ELSE IF p = to THEN files[from] ELSE files[p]]
    BY <1>2, <2>1 DEF RunsInv
  <2>3. \A p \in Backups : p \in Places
    BY DEF Places
  <2>4. QED
    BY <1>2, <2>2, <2>3
<1>3. QED
  BY <1>1, <1>2

\* A step of the only process that is active.
LEMMA AloneKeeps ==
    ASSUME RunsInv, NEW r \in Updater, Active(r), UNCHANGED release,
           \A q \in Updater : q # r => up'[q] = up[q],
           ~disturbed' => ~disturbed,
           files' = [p \in Places |-> files'[p]],
           ~disturbed' => /\ \E p \in Places : Runnable(files'[p])
                          /\ \A p \in Backups : files'[p] = "none" \/ Runnable(files'[p])
                          /\ \A i \in Updater : PathsKnown(applied'[i])
                          /\ Active(r)' => Stands(r)'
    PROVE  RunsInv'
<1> SUFFICES ASSUME ~disturbed'
             PROVE  /\ \A q \in Updater : Active(q)' => Stands(q)'
                    /\ \A p, q \in Updater : Active(p)' /\ Active(q)' => p = q
  <2>2. (\E p \in Places : Runnable(files[p]))' <=> \E p \in Places : Runnable(files'[p])
    BY DEF Runnable, Places, Backups, Exe
  <2>3. (\A p \in Backups : files[p] = "none" \/ Runnable(files[p]))'
           <=> \A p \in Backups : files'[p] = "none" \/ Runnable(files'[p])
    BY DEF Runnable, Backups
  <2>4. (\A i \in Updater : PathsKnown(applied[i]))' <=> \A i \in Updater : PathsKnown(applied'[i])
    BY DEF PathsKnown, Applied, Backups
  <2>5. (files = [p \in Places |-> files[p]])' <=> files' = [p \in Places |-> files'[p]]
    BY DEF Places, Backups, Exe
  <2>6. QED
    BY <2>2, <2>3, <2>4, <2>5 DEF RunsInv
<1>1. \A q \in Updater : Active(q) => q = r
  BY DEF RunsInv
<1>2. \A q \in Updater : Active(q)' => q = r
  BY <1>1 DEF Active
<1>3. QED
  BY <1>2

LEMMA RecordStands ==
    ASSUME VerifiedInv, RunsInv, NEW r \in Updater, Active(r), NEW s, NEW val, Records(r, s, val),
           UNCHANGED <<files, release, disturbed>>,
           ~disturbed => /\ s = "prepare_swap" => val.backup \in Backups
                         /\ s = "swap" => val \in Backups
                         /\ s = "smoke_test" => Applied(up[r].mine, "swap")
                         /\ following(<<[step |-> s, val |-> val]>>) \in Ready
                              => Runnable(files[up[r].exe])
    PROVE  RunsInv'
<1> DEFINE e == [step |-> s, val |-> val]
<1>1. /\ up'[r].at = "loop" /\ up'[r].exe = up[r].exe /\ up'[r].inst = up[r].inst
      /\ up'[r].mine = Append(up[r].mine, e)
      /\ \A q \in Updater : q # r => up'[q] = up[q]
      /\ \A i \in Updater :
            applied'[i] = IF i = up[r].inst THEN Append(applied[i], e) ELSE applied[i]
  BY RecordChanges
<1>2. \A i \in Updater : JournalOK(applied[i])
  BY DEF VerifiedInv
<1>3. JournalOK(up[r].mine)
  BY DEF VerifiedInv
<1>4. ASSUME ~disturbed
      PROVE  (\A i \in Updater : PathsKnown(applied'[i])) /\ Stands(r)'
  <2>1. Stands(r) /\ \A i \in Updater : PathsKnown(applied[i])
    BY <1>4 DEF RunsInv
  <2>2. ASSUME NEW i \in Updater PROVE PathsKnown(applied'[i])
    <3>1. CASE i = up[r].inst
      <4>1. applied'[i] = Append(applied[i], e) /\ up[r].mine = applied[i]
        BY <1>1, <2>1, <3>1 DEF Stands
      <4>2. e.step = s /\ e.val = val
        OBVIOUS
      <4> HIDE DEF e
      <4>3. /\ \A t : Applied(Append(applied[i], e), t) <=> Applied(applied[i], t) \/ e.step = t
            /\ \A k \in DOMAIN Append(applied[i], e) :
                 \/ Append(applied[i], e)[k] = e
                 \/ k \in DOMAIN applied[i] /\ Append(applied[i], e)[k] = applied[i][k]
        <5>1. JournalOK(applied[i])
          BY <1>2
        <5>2. /\ following(Append(applied[i], e)) = following(<<e>>)
              /\ \A t : Applied(Append(applied[i], e), t) <=> Applied(applied[i], t) \/ e.step = t
              /\ \A k \in DOMAIN Append(applied[i], e) :
                    \/ Append(applied[i], e)[k] = e
                    \/ k \in DOMAIN applied[i] /\ Append(applied[i], e)[k] = applied[i][k]
          BY <5>1, AppendsOne, Zenon
        <5>3. QED
          BY <5>2, Zenon
      <4>4. PathsKnown(Append(applied[i], e))
        <5>1. PathsKnown(applied[i])
          BY <2>1
        <5>2. /\ e.step = "prepare_swap" => e.val.backup \in Backups
              /\ e.step = "swap" => e.val \in Backups
              /\ e.step = "smoke_test" => Applied(applied[i], "swap")
          BY <1>4, <4>1, <4>2
        <5>3. QED
          BY <4>3, <5>1, <5>2 DEF PathsKnown
      <4>5. QED
        BY <4>1, <4>4
    <3>2. CASE i # up[r].inst
      BY <1>1, <2>1, <3>2
    <3>3. QED
      BY <3>1, <3>2
  <2>3. following(up'[r].mine) = following(<<e>>)
    BY <1>1, <1>3, AppendsOne
  <2>4. up'[r].inst \in Updater /\ up'[r].mine = applied'[up'[r].inst]
    BY <1>1, <2>1 DEF Stands
  <2>5. following(up'[r].mine) \in Ready => Runnable(files[up[r].exe])
    BY <1>4, <2>3
  <2>6. Runnable(files[up[r].exe]) => Runnable(files[up[r].exe])'
    BY <1>1 DEF Runnable
  <2>7. up'[r].exe \in Places
    BY <1>1, <2>1 DEF Stands
  <2>8. following(up[r].mine)' = following(up'[r].mine) /\ Places' = Places
    BY DEF following, step_after, Places, Backups, Exe, major_gate, verify_gate
  <2>9. QED
    BY <1>1, <2>2, <2>4, <2>5, <2>6, <2>7, <2>8 DEF Stands
<1>5. files' = [p \in Places |-> files'[p]]
  BY DEF RunsInv
<1>6. ~disturbed => /\ \E p \in Places : Runnable(files'[p])
                    /\ \A p \in Backups : files'[p] = "none" \/ Runnable(files'[p])
  BY DEF RunsInv
<1>7. QED
  BY <1>1, <1>4, <1>5, <1>6, AloneKeeps

LEMMA AppendPair == ASSUME NEW q \in Updater, NEW r \in Updater PROVE Append(<<q>>, r) = <<q, r>>
<1> DEFINE a == Append(<<q>>, r)
<1> DEFINE b == <<q, r>>
<1>1. <<q>> \in Seq(Updater) /\ Len(<<q>>) = 1 /\ <<q>>[1] = q
  OBVIOUS
<1>2. a \in Seq(Updater) /\ Len(a) = 2 /\ a[1] = q /\ a[2] = r
  BY <1>1
<1>3. b \in Seq(Updater) /\ Len(b) = 2 /\ b[1] = q /\ b[2] = r
  OBVIOUS
<1>4. a = [i \in 1..2 |-> a[i]] /\ b = [i \in 1..2 |-> b[i]]
  BY <1>2, <1>3
<1> HIDE DEF a, b
<1>5. \A i \in 1..2 : a[i] = b[i]
  BY <1>2, <1>3
<1>6. a = b
  BY <1>4, <1>5
<1>7. QED
  BY <1>6 DEF a, b

LEMMA InitRuns == UpdateInit => RunsInv
<1> SUFFICES ASSUME UpdateInit PROVE RunsInv
  OBVIOUS
<1>1. Exe \in Places /\ files[Exe] = "old" /\ \A p \in Backups : p \in Places
  BY DEF UpdateInit, Places
<1>2. \A p \in Backups : p # Exe
  BY DEF Backups, Exe
<1>3. \A i \in Updater : PathsKnown(applied[i])
  BY DEF UpdateInit, PathsKnown, Applied
<1>4. \A r \in Updater : ~Active(r)
  BY DEF UpdateInit, Active, Idle
<1>5. files = [p \in Places |-> files[p]]
  BY DEF UpdateInit
<1>6. \A p \in Backups : files[p] = "none"
  BY <1>1, <1>2 DEF UpdateInit
<1>7. QED
  BY <1>1, <1>3, <1>4, <1>5, <1>6 DEF RunsInv, Runnable

\* A process that ends leaves everything where it was.
LEMMA EndsStand ==
    ASSUME VerifiedInv, RunsInv, NEW r \in Updater, Active(r), Ends(r),
           UNCHANGED <<release, applied>>, ~disturbed' => ~disturbed,
           files' = [p \in Places |-> files'[p]],
           ~disturbed' => /\ \E p \in Places : Runnable(files'[p])
                          /\ \A p \in Backups : files'[p] = "none" \/ Runnable(files'[p])
    PROVE  RunsInv'
<1>1. [Idle EXCEPT !.at = "ended"].at = "ended"
  BY DEF Idle
<1>2. up'[r].at = "ended" /\ \A q \in Updater : q # r => up'[q] = up[q]
  BY <1>1 DEF Ends, VerifiedInv
<1>3. ~Active(r)'
  BY <1>2 DEF Active
<1>4. ~disturbed' => \A i \in Updater : PathsKnown(applied'[i])
  BY DEF RunsInv
<1>5. QED
  BY <1>2, <1>3, <1>4, AloneKeeps

\* A step that moves files but writes no event.
LEMMA RenameStands ==
    ASSUME VerifiedInv, RunsInv, NEW r \in Updater, Active(r), NEW at,
           up' = [up EXCEPT ![r].at = at], UNCHANGED <<release, applied>>,
           ~disturbed' => ~disturbed,
           files' = [p \in Places |-> files'[p]],
           ~disturbed' =>
               /\ \E p \in Places : Runnable(files'[p])
               /\ \A p \in Backups : files'[p] = "none" \/ Runnable(files'[p])
               /\ at \in {"asked", "restored"} => Runnable(files'[up[r].exe])
               /\ at # "loop"
               /\ at \in {"swapping", "swapped"} => Applied(up[r].mine, "prepare_swap")
               /\ at = "swapping" => Runnable(files'[Paths(r).backup])
    PROVE  RunsInv'
<1>1. /\ up'[r].at = at /\ up'[r].exe = up[r].exe /\ up'[r].inst = up[r].inst
      /\ up'[r].mine = up[r].mine /\ \A q \in Updater : q # r => up'[q] = up[q]
  BY AtChanges
<1>2. Paths(r)' = Paths(r)
  BY <1>1 DEF Paths, ValueOf
<1>3. \A b : Runnable(b) <=> b = "old" \/ (b = "new" /\ release.sound)
  BY DEF Runnable
<1>4. ASSUME ~disturbed' PROVE Stands(r)'
  <2>1. Stands(r)
    BY <1>4 DEF RunsInv
  <2>2. up'[r].inst \in Updater /\ up'[r].mine = applied'[up'[r].inst]
    BY <1>1, <2>1 DEF Stands
  <2>3. (up[r].exe \in Places)'
    BY <1>1, <2>1 DEF Stands, Places, Backups, Exe
  <2>4. at \in {"asked", "restored"} => Runnable(files[up[r].exe])'
    BY <1>1, <1>4 DEF Runnable
  <2>5. at = "swapping" => Runnable(files[Paths(r).backup])'
    BY <1>2, <1>4 DEF Runnable
  <2>6. at \in {"swapping", "swapped"} => Applied(up[r].mine, "prepare_swap")'
    BY <1>1, <1>4 DEF Applied
  <2>7. QED
    BY <1>1, <1>4, <2>2, <2>3, <2>4, <2>5, <2>6 DEF Stands
<1>5. ~disturbed' => \A i \in Updater : PathsKnown(applied'[i])
  BY DEF RunsInv
<1>6. QED
  BY <1>1, <1>4, <1>5, AloneKeeps

LEMMA StepRuns == VerifiedInv /\ RunsInv /\ [UpdateNext]_update_vars => RunsInv'
<1> SUFFICES ASSUME VerifiedInv, RunsInv, [UpdateNext]_update_vars PROVE RunsInv'
  OBVIOUS
<1>1. UNCHANGED release
  BY DEF UpdateNext, update_vars, starts, asks_human, human_agrees, check_version, resolve_artifact,
         download_release_asset, verify_signature, prepare_swap, self_check, concludes, run_returns,
         renames_away, renames_new, completes_swap, swap_recorded, rolls_back, rollback_recorded,
         gives_up, killed
<1>2. \A r \in Updater : ~disturbed /\ Active(r) => Stands(r)
  BY DEF RunsInv
<1>3. ~disturbed => /\ \E p \in Places : Runnable(files[p])
                    /\ \A p \in Backups : files[p] = "none" \/ Runnable(files[p])
  BY DEF RunsInv
<1>4. ASSUME NEW r \in Updater
      PROVE  JournalOK(up[r].mine) /\ (~disturbed /\ Active(r) => PathsKnown(up[r].mine))
  <2>1. ~disturbed /\ Active(r) => up[r].inst \in Updater /\ up[r].mine = applied[up[r].inst]
    BY <1>2 DEF Stands
  <2>2. QED
    BY <2>1 DEF VerifiedInv, RunsInv
<1>5. ASSUME NEW r \in Updater, NEW s \in Ready, At(r, s)
      PROVE  Active(r) /\ (~disturbed => Runnable(files[up[r].exe]))
  BY <1>2, <1>5 DEF At, Active, Stands
<1>6. ASSUME NEW r \in Updater, NEW p \in Places, NEW i \in Updater, starts(r, p, i)
      PROVE  RunsInv'
  <2> DEFINE x == [at |-> "loop", exe |-> p, version |-> files[p], inst |-> i, mine |-> applied[i]]
  <2>1. up'[r] = x /\ (\A q \in Updater : q # r => up'[q] = up[q]) /\ UNCHANGED <<files, applied>>
    BY <1>6 DEF starts, VerifiedInv
  <2>2. disturbed' = (disturbed \/ \E q \in Updater : Active(q)) /\ Runnable(files[p])
    BY <1>6 DEF starts
  <2>3. ASSUME ~disturbed' PROVE Stands(r)'
    <3>1. up'[r].inst \in Updater /\ up'[r].mine = applied'[up'[r].inst] /\ up'[r].at = "loop"
      BY <2>1
    <3>2. (up[r].exe \in Places)'
      BY <2>1 DEF Places, Backups, Exe
    <3>3. Runnable(files[up[r].exe])'
      BY <1>1, <2>1, <2>2 DEF Runnable
    <3>4. QED
      BY <3>1, <3>2, <3>3 DEF Stands
  <2>4. \A q \in Updater : ~disturbed' /\ Active(q)' => q = r
    BY <2>1, <2>2 DEF Active
  <2>5. UNCHANGED <<files, applied, release>> /\ (~disturbed' => ~disturbed)
    BY <1>1, <2>1, <2>2
  <2>6. /\ files' = [q \in Places |-> files'[q]]
        /\ ~disturbed' => /\ (\E q \in Places : Runnable(files[q]))'
                          /\ (\A q \in Backups : files[q] = "none" \/ Runnable(files[q]))'
                          /\ (\A q \in Updater : PathsKnown(applied[q]))'
    <3>1. files' = [q \in Places |-> files'[q]]
      BY <2>5 DEF RunsInv
    <3>2. ~disturbed' => (\E q \in Places : Runnable(files[q]))'
      BY <1>3, <2>5 DEF Runnable, Places, Backups, Exe
    <3>3. ~disturbed' => (\A q \in Backups : files[q] = "none" \/ Runnable(files[q]))'
      BY <1>3, <2>5 DEF Runnable, Backups
    <3>4. ~disturbed' => (\A q \in Updater : PathsKnown(applied[q]))'
      BY <2>5 DEF RunsInv, PathsKnown, Applied, Backups
    <3>5. QED
      BY <3>1, <3>2, <3>3, <3>4
  <2>7. (files = [q \in Places |-> files[q]])'
    BY <2>6 DEF Places, Backups, Exe
  <2>8. QED
    BY <2>3, <2>4, <2>6, <2>7 DEF RunsInv
<1>7. ASSUME NEW r \in Updater, asks_human(r) PROVE RunsInv'
  <2>1. /\ At(r, "human_review") /\ up' = [up EXCEPT ![r].at = "asked"]
        /\ UNCHANGED <<files, applied, disturbed>>
    BY <1>7 DEF asks_human
  <2>2. Active(r) /\ (~disturbed => Runnable(files[up[r].exe]))
    BY <1>5, <2>1 DEF Ready
  <2>3. files' = [p \in Places |-> files'[p]]
    BY <2>1 DEF RunsInv
  <2>4. QED
    BY <1>1, <1>3, <2>1, <2>2, <2>3, RenameStands
\* Events of a process whose binary is still the one it started from.
<1>8. ASSUME NEW r \in Updater, NEW s, NEW val, Records(r, s, val), Active(r),
             ~disturbed => Runnable(files[up[r].exe]),
             s = "prepare_swap" => val.backup \in Backups,
             s \notin {"swap", "smoke_test"}, UNCHANGED <<files, disturbed>>
      PROVE  RunsInv'
  BY <1>1, <1>8, RecordStands
<1>9. ASSUME NEW r \in Updater,
             \/ check_version(r) \/ resolve_artifact(r) \/ download_release_asset(r)
             \/ verify_signature(r) \/ human_agrees(r) \/ rollback_recorded(r)
      PROVE  RunsInv'
  <2>1. UNCHANGED <<files, disturbed>>
    BY <1>9 DEF check_version, resolve_artifact, download_release_asset, verify_signature,
                human_agrees, rollback_recorded
  <2>2. Active(r) /\ (~disturbed => Runnable(files[up[r].exe]))
    <3>1. CASE human_agrees(r) \/ rollback_recorded(r)
      BY <1>2, <3>1 DEF human_agrees, rollback_recorded, Active, Stands
    <3>2. CASE check_version(r) \/ resolve_artifact(r) \/ download_release_asset(r) \/ verify_signature(r)
      <4>1. \E s \in Ready : At(r, s)
        BY <3>2 DEF check_version, resolve_artifact, download_release_asset, verify_signature, Ready
      <4>2. QED
        BY <1>5, <4>1
    <3>3. QED
      BY <1>9, <3>1, <3>2
  <2>3. \E s \in {"check_version", "resolve_artifact", "download", "verify", "rollback"} :
            \E val : Records(r, s, val)
    BY <1>9 DEF check_version, resolve_artifact, download_release_asset, verify_signature,
                human_agrees, rollback_recorded
  <2>4. QED
    BY <1>8, <2>1, <2>2, <2>3
<1>10. ASSUME NEW r \in Updater, prepare_swap(r) PROVE RunsInv'
  <2>1. At(r, "prepare_swap") /\ Len(up[r].exe) < 2 /\ UNCHANGED <<files, disturbed>>
    BY <1>10 DEF prepare_swap
  <2>2. Active(r) /\ (~disturbed => Runnable(files[up[r].exe]))
    BY <1>5, <2>1 DEF Ready
  <2>3. PICK val : Records(r, "prepare_swap", val) /\ val.backup = Append(up[r].exe, r)
    BY <1>10 DEF prepare_swap
  <2>4. up[r].exe \in Places => Append(up[r].exe, r) \in Backups
    <3>1. Append(<<>>, r) = <<r>>
      OBVIOUS
    <3>2. \A q \in Updater : Append(<<q>>, r) = <<q, r>>
      BY AppendPair
    <3>3. \A q, p \in Updater : Len(<<q, p>>) = 2
      OBVIOUS
    <3>4. up[r].exe \in Places => up[r].exe = <<>> \/ \E q \in Updater : up[r].exe = <<q>>
      BY <2>1, <3>3 DEF Places, Exe, Backups
    <3>5. CASE up[r].exe = <<>>
      BY <3>1, <3>5 DEF Backups
    <3>6. ASSUME NEW q \in Updater, up[r].exe = <<q>> PROVE Append(up[r].exe, r) \in Backups
      BY <3>2, <3>6 DEF Backups
    <3>7. QED
      BY <3>4, <3>5, <3>6
  <2>5. ~disturbed => val.backup \in Backups
    BY <1>2, <2>2, <2>3, <2>4 DEF Stands
  <2>6. QED
    BY <1>1, <2>1, <2>2, <2>3, <2>5, RecordStands
\* Events of a process behind its swap: what it leads to asks nothing of the binary.
<1>11. ASSUME NEW r \in Updater, self_check(r) PROVE RunsInv'
  <2>1. At(r, "smoke_test") /\ UNCHANGED <<files, disturbed>>
    BY <1>11 DEF self_check
  <2>2. PICK val : Records(r, "smoke_test", val)
    BY <1>11 DEF self_check
  <2>3. Applied(up[r].mine, "swap") /\ Active(r)
    BY <1>4, <2>1, CameFrom DEF At, Active
  <2>4. following(<<[step |-> "smoke_test", val |-> val]>>) \notin Ready
    BY DEF following, step_after, Ready
  <2>5. QED
    BY <1>1, <2>1, <2>2, <2>3, <2>4, RecordStands
<1>12. ASSUME NEW r \in Updater, NEW s \in {"commit_update", "done"}, concludes(r, s) PROVE RunsInv'
  <2>1. Active(r) /\ Records(r, s, TRUE) /\ UNCHANGED <<files, disturbed>>
    BY <1>12 DEF concludes, At, Active
  <2>2. following(<<[step |-> s, val |-> TRUE]>>) \notin Ready
    BY DEF following, step_after, Ready
  <2>3. QED
    BY <1>1, <2>1, <2>2, RecordStands
<1>13. ASSUME NEW r \in Updater, swap_recorded(r) PROVE RunsInv'
  <2>1. Active(r) /\ Records(r, "swap", Paths(r).backup) /\ UNCHANGED <<files, disturbed>>
    BY <1>13 DEF swap_recorded, Active
  <2>2. ~disturbed => Paths(r).backup \in Backups
    BY <1>2, <1>4, <1>13, <2>1, RecordedPath DEF swap_recorded, Stands, Paths
  <2>3. following(<<[step |-> "swap", val |-> Paths(r).backup]>>) \notin Ready
    BY DEF following, step_after, Ready
  <2>4. QED
    BY <1>1, <2>1, <2>2, <2>3, RecordStands
\* Renames.
<1>14. ASSUME NEW r \in Updater, renames_away(r) PROVE RunsInv'
  <2>1. /\ At(r, "swap") /\ Moved(up[r].exe, Paths(r).backup) /\ up' = [up EXCEPT ![r].at = "swapping"]
        /\ UNCHANGED <<applied, disturbed>>
    BY <1>14 DEF renames_away, backs_up
  <2>2. Active(r) /\ (~disturbed => Runnable(files[up[r].exe]))
    BY <1>5, <2>1 DEF Ready
  <2>3. Applied(up[r].mine, "prepare_swap")
    BY <1>4, <2>1, CameFrom DEF At
  <2>4. ~disturbed => Paths(r).backup \in Backups /\ up[r].exe \in Places
    BY <1>2, <1>4, <2>2, <2>3, RecordedPath DEF Paths, Stands
  <2>5. \A p \in Backups : p \in Places
    BY DEF Places
  <2>6. files' = [p \in Places |-> files'[p]]
    BY <2>1 DEF Moved, RunsInv
  <2>7. ASSUME ~disturbed
        PROVE  /\ Runnable(files'[Paths(r).backup])
               /\ \A p \in Backups : files'[p] = "none" \/ Runnable(files'[p])
    BY <1>3, <2>1, <2>2, <2>4, <2>5, <2>7, MovedRuns
  <2>8. QED
    BY <1>1, <2>1, <2>2, <2>3, <2>4, <2>5, <2>6, <2>7, RenameStands
<1>15. ASSUME NEW r \in Updater, renames_new(r) PROVE RunsInv'
  <2>1. Active(r) /\ UNCHANGED applied
    BY <1>15 DEF renames_new, Active
  <2>2. ASSUME ~disturbed
        PROVE  /\ Applied(up[r].mine, "prepare_swap") /\ up[r].exe \in Places
               /\ Paths(r).backup \in Backups /\ Runnable(files[Paths(r).backup])
    <3>1. Applied(up[r].mine, "prepare_swap") /\ up[r].exe \in Places /\ Runnable(files[Paths(r).backup])
      BY <1>2, <1>15, <2>1, <2>2 DEF renames_new, Stands
    <3>2. QED
      BY <1>4, <2>1, <2>2, <3>1, RecordedPath DEF Paths
  <2>3. \A p \in Backups : p \in Places /\ p # Exe
    BY DEF Places, Backups, Exe
  <2>4. CASE /\ files' = [files EXCEPT ![up[r].exe] = "new"]
             /\ up' = [up EXCEPT ![r].at = "swapped"]
             /\ disturbed' = (disturbed \/ up[r].exe # Exe)
    <3>1. files' = [p \in Places |-> files'[p]]
      BY <2>4 DEF RunsInv
    <3>2. ASSUME ~disturbed'
          PROVE  /\ ~disturbed /\ Runnable(files'[Paths(r).backup])
                 /\ \A p \in Backups : files'[p] = "none" \/ Runnable(files'[p])
      <4>1. ~disturbed /\ up[r].exe = Exe
        BY <2>4, <3>2
      <4>2. \A p \in Backups : files'[p] = files[p]
        BY <2>3, <2>4, <4>1 DEF RunsInv
      <4>3. QED
        BY <1>3, <2>2, <4>1, <4>2
    <3>3. QED
      BY <1>1, <2>1, <2>2, <2>3, <2>4, <3>1, <3>2, RenameStands
  <2>5. CASE puts_back(r) /\ Ends(r) /\ UNCHANGED disturbed
    <3>1. files' = [p \in Places |-> files'[p]]
      BY <2>5 DEF puts_back, Moved, RunsInv
    <3>2. ASSUME ~disturbed
          PROVE  /\ \E p \in Places : Runnable(files'[p])
                 /\ \A p \in Backups : files'[p] = "none" \/ Runnable(files'[p])
      <4>1. Moved(Paths(r).backup, up[r].exe)
        BY <2>2, <2>5, <3>2 DEF puts_back, Present, Runnable
      <4>2. QED
        BY <1>3, <2>2, <2>3, <3>2, <4>1, MovedRuns
    <3>3. QED
      BY <1>1, <2>1, <2>5, <3>1, <3>2, EndsStand
  <2>6. QED
    BY <1>15, <2>4, <2>5 DEF renames_new
\* Nothing is missing at the start of a swap but behind a disturbance.
<1>16. ASSUME NEW r \in Updater, completes_swap(r) PROVE RunsInv'
  <2>1. At(r, "swap") /\ files[up[r].exe] = "none" /\ UNCHANGED disturbed
    BY <1>16 DEF completes_swap, Present
  <2>2. disturbed
    BY <1>5, <2>1 DEF Ready, Runnable
  <2>3. files' = [p \in Places |-> files'[p]]
    BY <1>16 DEF completes_swap, Moved, RunsInv
  <2>4. (files = [p \in Places |-> files[p]])'
    BY <2>3 DEF Places, Backups, Exe
  <2>5. QED
    BY <2>1, <2>2, <2>4 DEF RunsInv
<1>17. ASSUME NEW r \in Updater, rolls_back(r) PROVE RunsInv'
  <2>1. /\ At(r, "rollback") /\ files[ValueOf(up[r].mine, "swap")] # "none"
        /\ Moved(ValueOf(up[r].mine, "swap"), up[r].exe)
        /\ up' = [up EXCEPT ![r].at = "restored"] /\ UNCHANGED <<applied, disturbed>>
    BY <1>17 DEF rolls_back, Present, restore_from_checkpoint
  <2>2. Active(r) /\ Applied(up[r].mine, "smoke_test")
    BY <1>4, <2>1, CameFrom DEF At, Active
  <2>3. ASSUME ~disturbed PROVE ValueOf(up[r].mine, "swap") \in Backups /\ up[r].exe \in Places
    <3>1. PathsKnown(up[r].mine) /\ up[r].exe \in Places
      BY <1>2, <1>4, <2>2, <2>3 DEF Stands
    <3>2. Applied(up[r].mine, "swap")
      BY <2>2, <3>1 DEF PathsKnown
    <3>3. QED
      BY <3>1, <3>2, RecordedPath
  <2>4. files' = [p \in Places |-> files'[p]]
    BY <2>1 DEF Moved, RunsInv
  <2>5. \A p \in Backups : p \in Places
    BY DEF Places
  <2>6. ASSUME ~disturbed
        PROVE  /\ Runnable(files'[up[r].exe])
               /\ \A p \in Backups : files'[p] = "none" \/ Runnable(files'[p])
    BY <1>3, <2>1, <2>3, <2>5, <2>6, MovedRuns
  <2>7. QED
    BY <1>1, <2>1, <2>2, <2>3, <2>4, <2>6, RenameStands
<1>18. ASSUME NEW r \in Updater, run_returns(r) \/ gives_up(r) \/ killed(r) PROVE RunsInv'
  <2>1. /\ Active(r) /\ Ends(r) /\ UNCHANGED <<files, applied>>
        /\ ~disturbed' => ~disturbed
    <3>1. CASE run_returns(r)
      BY <3>1 DEF run_returns, At, Active
    <3>2. CASE gives_up(r)
      BY <3>2 DEF gives_up, Active
    <3>3. CASE killed(r)
      BY <3>3 DEF killed, Active
    <3>4. QED
      BY <1>18, <3>1, <3>2, <3>3
  <2>2. files' = [p \in Places |-> files'[p]]
    BY <2>1 DEF RunsInv
  <2>3. QED
    BY <1>1, <1>3, <2>1, <2>2, EndsStand
<1>19. CASE UNCHANGED update_vars
  <2>1. UNCHANGED <<files, applied, up, release, disturbed>>
    BY <1>19 DEF update_vars
  <2>2. /\ (files = [q \in Places |-> files[q]])'
        /\ ~disturbed' => (\E q \in Places : Runnable(files[q]))'
    <3>1. (files = [q \in Places |-> files[q]])'
      BY <2>1 DEF RunsInv, Places, Backups, Exe
    <3>2. ~disturbed' => (\E q \in Places : Runnable(files[q]))'
      BY <1>3, <2>1 DEF Runnable, Places, Backups, Exe
    <3>3. QED
      BY <3>1, <3>2
  <2>3. ~disturbed' => (\A q \in Backups : files[q] = "none" \/ Runnable(files[q]))'
    BY <1>3, <2>1 DEF Runnable, Backups
  <2>4. ~disturbed' => (\A q \in Updater : PathsKnown(applied[q]))'
    BY <2>1 DEF RunsInv, PathsKnown, Applied, Backups
  <2>5. \A q \in Updater : Active(q)' <=> Active(q)
    BY <2>1 DEF Active
  <2>6. \A q \in Updater : Stands(q) => Stands(q)'
    <3> SUFFICES ASSUME NEW q \in Updater, Stands(q) PROVE Stands(q)'
      OBVIOUS
    <3>1. (up[q].exe \in Places)' /\ (up[q].inst \in Updater)' /\ (up[q].mine = applied[up[q].inst])'
      BY <2>1 DEF Stands, Places, Backups, Exe
    <3>2. Runnable(files[up[q].exe])' <=> Runnable(files[up[q].exe])
      BY <2>1 DEF Runnable
    <3>3. Runnable(files[Paths(q).backup])' <=> Runnable(files[Paths(q).backup])
      BY <2>1 DEF Runnable, Paths, ValueOf
    <3>4. Applied(up[q].mine, "prepare_swap")' <=> Applied(up[q].mine, "prepare_swap")
      BY <2>1 DEF Applied
    <3>5. following(up[q].mine)' = following(up[q].mine)
      BY <2>1 DEF following, step_after, major_gate, verify_gate
    <3>6. QED
      BY <2>1, <3>1, <3>2, <3>3, <3>4, <3>5 DEF Stands
  <2>7. QED
    BY <2>1, <2>2, <2>3, <2>4, <2>5, <2>6 DEF RunsInv
<1>20. QED
  BY <1>6, <1>7, <1>9, <1>10, <1>11, <1>12, <1>13, <1>14, <1>15, <1>16, <1>17, <1>18, <1>19
     DEF UpdateNext

\* Nothing that failed verification leaves the archive; a binary that runs
\* stays on disk, and a rollback that is recorded has left one in the place its
\* process runs from - for any number of processes, of instances and of kills.
THEOREM UpdateSafe == Spec => []UpdateIsSafe
<1> DEFINE Inv == part = "update" => VerifiedInv /\ RunsInv
<1>1. Init => Inv
  BY InitVerified, InitRuns DEF Init
<1>2. Inv /\ [Next]_vars => Inv'
  <2> SUFFICES ASSUME Inv, [Next]_vars, part' = "update" PROVE VerifiedInv' /\ RunsInv'
    OBVIOUS
  <2>1. part = "update" /\ [UpdateNext]_update_vars
    BY DEF Next, vars
  <2>2. QED
    BY <2>1, StepVerified, StepRuns
<1>3. Inv => UpdateIsSafe
  <2> SUFFICES ASSUME VerifiedInv, RunsInv PROVE VerifiedOnly /\ SomethingRuns /\ RollbackRuns
    BY DEF UpdateIsSafe
  <2>1. SomethingRuns
    BY DEF RunsInv, SomethingRuns
  <2>2. RollbackRuns
    BY DEF RunsInv, RollbackRuns, At, Active, Stands, Ready
  <2>3. QED
    BY <2>1, <2>2 DEF VerifiedInv
<1>4. QED
  BY <1>1, <1>2, <1>3, PTL DEF Spec

-----------------------------------------------------------------------------
(* plugin install: the journal of an instance begins with what the list said *)

PluginSteps == {"download", "verify", "read_manifest", "install", "done"}
Phases == {"install", "cleared", "moved", "trusting", "installed"}
Ceiling(c) == IF c = "none" THEN offer.proposed ELSE c

\* An event behind check_trust in a journal of i, whose list said c.
EventBehind(yes, c, i, e) ==
    /\ e.step \in PluginSteps
    /\ c = "none" => <<i, "new_repo_review">> \in yes
    /\ e.step = "verify" => e.val = offer.genuine
    /\ e.step \in {"read_manifest", "install", "done"} => offer.genuine
    /\ e.step = "read_manifest" => e.val = P!Covers(Ceiling(c), offer.request)
Listed(yes, events, i) ==
    /\ \E S : events \in Seq(S)
    /\ \A k \in DOMAIN events :
          IF k = 1 THEN events[k].step = "check_trust" ELSE EventBehind(yes, events[1].val, i, events[k])

Reviewed(i) ==
    /\ journalled[i] # <<>> /\ offer.genuine
    /\ P!Covers(Ceiling(journalled[i][1].val), offer.request) \/ <<i, "ceiling_review">> \in agreed

IsInstaller(x) == x = [at |-> x.at, of |-> x.of, mine |-> x.mine]

\* Only the process of an instance's own pid starts it; the journal it reads and
\* the one it writes begin with the same event, whoever else writes there.
Underway(r) ==
    /\ inst[r].of \in Updater /\ Listed(agreed, inst[r].mine, inst[r].of)
    /\ inst[r].at \in {"loop"} \cup Phases
    /\ IF inst[r].mine = <<>>
       THEN inst[r].of = r /\ journalled[r] = <<>>
       ELSE /\ journalled[inst[r].of] # <<>>
            /\ journalled[inst[r].of][1] = inst[r].mine[1]
    /\ inst[r].at \in Phases => Reviewed(inst[r].of) /\ Len(inst[r].mine) > 1
    /\ inst[r].at = "trusting" => inst[r].mine[1].val = "none"

ReviewInv ==
    /\ inst = [r \in Updater |-> inst[r]] /\ \A r \in Updater : IsInstaller(inst[r])
    /\ journalled = [i \in Updater |-> journalled[i]]
    /\ \A i \in Updater : Listed(agreed, journalled[i], i)
    /\ \A r \in Updater : P!Busy(r) => Underway(r)
    /\ plugin_dir.from \in Updater => Reviewed(plugin_dir.from)

Settled == plugin_dir.state = "whole" /\ manifest_copy = plugin_dir.from
Clearing == \E q \in Updater : inst[q].at \in {"cleared", "moved"}

WholeInv ==
    ~hindered =>
      /\ \A r, q \in Updater : P!Busy(r) /\ P!Busy(q) => r = q
      /\ operator = 0 =>
           /\ \/ \E i \in Updater : P!Done(journalled[i], "install")
              \/ \E r \in Updater : inst[r].at \in {"trusting", "installed"}
              => Settled \/ Clearing
           /\ \A r \in Updater : inst[r].at = "moved" => plugin_dir.state = "whole"

PluginInv == ReviewInv /\ operator \in Nat /\ WholeInv

LEMMA FirstIsTrust ==
    ASSUME NEW yes, NEW events, NEW i, Listed(yes, events, i), events # <<>>
    PROVE  /\ 1 \in DOMAIN events /\ events[1].step = "check_trust"
           /\ P!Value(events, "check_trust") = events[1].val
           /\ P!ceiling_of(events) = Ceiling(events[1].val)
           /\ Len(events) \in DOMAIN events
           /\ Len(events) = 1 => events[Len(events)].step = "check_trust"
           /\ Len(events) # 1 => EventBehind(yes, events[1].val, i, events[Len(events)])
<1>1. PICK S : events \in Seq(S)
  BY DEF Listed
<1>2. 1 \in DOMAIN events /\ Len(events) \in DOMAIN events
  BY <1>1
<1>3. \A k \in DOMAIN events : events[k].step = "check_trust" <=> k = 1
  BY DEF Listed, EventBehind, PluginSteps
<1>4. (CHOOSE k \in DOMAIN events : events[k].step = "check_trust") = 1
  BY <1>2, <1>3
<1>5. P!Value(events, "check_trust") = events[1].val
  BY <1>4 DEF P!Value
<1>6. P!ceiling_of(events) = Ceiling(events[1].val)
  BY <1>5 DEF P!ceiling_of, Ceiling
<1>7. QED
  BY <1>2, <1>3, <1>5, <1>6 DEF Listed

LEMMA ListedAppend ==
    ASSUME NEW yes, NEW events, NEW i, Listed(yes, events, i), NEW e,
           IF events = <<>> THEN e.step = "check_trust" ELSE EventBehind(yes, events[1].val, i, e)
    PROVE  Listed(yes, Append(events, e), i)
<1>1. PICK S : events \in Seq(S)
  BY DEF Listed
<1>2. events \in Seq(S \cup {e}) /\ e \in S \cup {e}
  BY <1>1
<1>3. /\ Append(events, e) \in Seq(S \cup {e})
      /\ DOMAIN Append(events, e) = 1..(Len(events) + 1)
      /\ Append(events, e)[Len(events) + 1] = e
      /\ DOMAIN events = 1..Len(events) /\ Len(events) \in Nat
      /\ \A k \in 1..Len(events) : Append(events, e)[k] = events[k]
      /\ events = <<>> <=> Len(events) = 0
  BY <1>2
<1>4. ASSUME NEW k \in DOMAIN Append(events, e)
      PROVE  IF k = 1 THEN Append(events, e)[k].step = "check_trust"
                      ELSE EventBehind(yes, Append(events, e)[1].val, i, Append(events, e)[k])
  <2>1. CASE k = Len(events) + 1
    BY <1>3, <2>1
  <2>2. CASE k \in 1..Len(events)
    BY <1>3, <2>2 DEF Listed
  <2>3. QED
    BY <1>3, <2>1, <2>2
<1>5. QED
  BY <1>3, <1>4 DEF Listed

\* What the human agreed to is never taken back.
LEMMA AgreedGrows ==
    ASSUME agreed \subseteq agreed', UNCHANGED offer
    PROVE  /\ \A events, i : Listed(agreed, events, i) => Listed(agreed', events, i)
           /\ \A events, i : Listed(agreed', events, i) => Listed(agreed, events, i)'
           /\ \A c, i, e : EventBehind(agreed, c, i, e) => EventBehind(agreed', c, i, e)
           /\ \A i : Reviewed(i) /\ journalled'[i] # <<>> /\ journalled'[i][1] = journalled[i][1]
                       => Reviewed(i)'
<1>1. \A c, i, e : EventBehind(agreed, c, i, e) => EventBehind(agreed', c, i, e)
  BY DEF EventBehind
<1>2. \A events, i : Listed(agreed, events, i) => Listed(agreed', events, i)
  BY <1>1 DEF Listed
<1>3. \A events, i : Listed(agreed', events, i) => Listed(agreed, events, i)'
  BY DEF Listed, EventBehind, Ceiling
<1>4. \A i : Reviewed(i) /\ journalled'[i] # <<>> /\ journalled'[i][1] = journalled[i][1]
               => Reviewed(i)'
  BY DEF Reviewed, Ceiling
<1>5. QED
  BY <1>1, <1>2, <1>3, <1>4

LEMMA AtSet ==
    ASSUME NEW x, IsInstaller(x), NEW y
    PROVE  /\ IsInstaller([x EXCEPT !.at = y]) /\ [x EXCEPT !.at = y].at = y
           /\ [x EXCEPT !.at = y].of = x.of /\ [x EXCEPT !.at = y].mine = x.mine
<1> DEFINE b == x.of
<1> DEFINE c == x.mine
<1>1. x = [at |-> x.at, of |-> b, mine |-> c]
  BY DEF IsInstaller
<1> HIDE DEF b, c
<1>2. [x EXCEPT !.at = y] = [at |-> y, of |-> b, mine |-> c]
  BY <1>1
<1>3. x.mine = c /\ x.of = b
  BY <1>1
<1>4. QED
  BY <1>2, <1>3 DEF IsInstaller

LEMMA MineSet ==
    ASSUME NEW x, IsInstaller(x), NEW y
    PROVE  /\ IsInstaller([x EXCEPT !.mine = y]) /\ [x EXCEPT !.mine = y].mine = y
           /\ [x EXCEPT !.mine = y].of = x.of
<1> DEFINE a == x.at
<1> DEFINE b == x.of
<1>1. x = [at |-> a, of |-> b, mine |-> x.mine]
  BY DEF IsInstaller
<1> HIDE DEF a, b
<1>2. [x EXCEPT !.mine = y] = [at |-> a, of |-> b, mine |-> y]
  BY <1>1
<1>3. x.of = b
  BY <1>1
<1>4. QED
  BY <1>2, <1>3 DEF IsInstaller

\* A step of r, where journals only grow and the human only agrees.
LEMMA InstallerMoves ==
    ASSUME ReviewInv, NEW r \in Updater, NEW x, IsInstaller(x), inst' = [inst EXCEPT ![r] = x],
           UNCHANGED offer, agreed \subseteq agreed',
           journalled' = [i \in Updater |-> journalled'[i]],
           \A i \in Updater : Listed(agreed, journalled[i], i)',
           \A i \in Updater : journalled[i] # <<>> =>
               journalled'[i] # <<>> /\ journalled'[i][1] = journalled[i][1],
           \A q \in Updater : q # r /\ P!Busy(q) /\ inst[q].mine = <<>> => journalled'[q] = <<>>,
           P!Busy(r)' => Underway(r)',
           plugin_dir'.from \in Updater => plugin_dir' = plugin_dir \/ Reviewed(plugin_dir'.from)
    PROVE  ReviewInv'
<1>1. inst' = [q \in Updater |-> IF q = r THEN x ELSE inst[q]]
  BY DEF ReviewInv
<1>2. inst' = [q \in Updater |-> inst'[q]] /\ \A q \in Updater : IsInstaller(inst'[q])
  BY <1>1 DEF ReviewInv
<1>3. ASSUME NEW i \in Updater, Reviewed(i) PROVE Reviewed(i)'
  BY <1>3, AgreedGrows DEF Reviewed
<1>4. ASSUME NEW q \in Updater, P!Busy(q)' PROVE Underway(q)'
  <2>1. CASE q = r
    BY <1>4, <2>1
  <2>2. CASE q # r
    <3>1. inst'[q] = inst[q]
      BY <1>1, <2>2
    <3>2. P!Busy(q) /\ Underway(q)
      BY <1>4, <3>1 DEF P!Busy, ReviewInv
    <3>3. inst[q].of \in Updater /\ Listed(agreed, inst[q].mine, inst[q].of)'
      BY <3>1, <3>2, AgreedGrows DEF Underway
    <3>4. inst[q].at \in Phases => Reviewed(inst[q].of)'
      BY <1>3, <3>1, <3>2 DEF Underway
    <3>5. IF inst[q].mine = <<>>
          THEN inst[q].of = q /\ journalled'[q] = <<>>
          ELSE journalled'[inst[q].of] # <<>> /\ journalled'[inst[q].of][1] = inst[q].mine[1]
      BY <2>2, <3>2 DEF Underway
    <3>6. QED
      BY <3>1, <3>2, <3>3, <3>4, <3>5 DEF Underway
  <2>3. QED
    BY <2>1, <2>2
<1>5. plugin_dir'.from \in Updater => Reviewed(plugin_dir.from)'
  <2> SUFFICES ASSUME plugin_dir'.from \in Updater PROVE Reviewed(plugin_dir.from)'
    OBVIOUS
  <2>1. CASE plugin_dir' = plugin_dir
    <3>1. plugin_dir.from \in Updater /\ Reviewed(plugin_dir.from)
      BY <2>1 DEF ReviewInv
    <3>2. QED
      BY <1>3, <2>1, <3>1 DEF Reviewed
  <2>2. CASE Reviewed(plugin_dir'.from)
    BY <2>2, AgreedGrows DEF Reviewed
  <2>3. QED
    BY <2>1, <2>2
<1>6. QED
  BY <1>2, <1>4, <1>5 DEF ReviewInv

LEMMA JournalsKeep ==
    ASSUME ReviewInv, NEW r \in Updater, P!Busy(r), NEW s, NEW val, P!Journals(r, s, val),
           UNCHANGED <<offer, plugin_dir>>, agreed \subseteq agreed',
           IF inst[r].mine = <<>> THEN s = "check_trust"
           ELSE \/ EventBehind(agreed, inst[r].mine[1].val, inst[r].of, [step |-> s, val |-> val])
                \/ s = "download" /\ <<inst[r].of, "new_repo_review">> \in agreed'
    PROVE  ReviewInv'
<1> DEFINE e == [step |-> s, val |-> val]
<1> DEFINE read == [inst[r] EXCEPT !.mine = Append(@, e)]
<1> DEFINE x == [read EXCEPT !.at = "loop"]
<1>1. /\ journalled' = [journalled EXCEPT ![inst[r].of] = Append(@, e)]
      /\ inst' = [inst EXCEPT ![r].mine = Append(@, e), ![r].at = "loop"]
  BY DEF P!Journals
<1>2. Underway(r) /\ IsInstaller(inst[r])
  BY DEF ReviewInv
<1>3. PICK i \in Updater : i = inst[r].of
  BY <1>2 DEF Underway
<1>4. PICK mine : mine = inst[r].mine
  OBVIOUS
<1>5. IF mine = <<>> THEN e.step = "check_trust" ELSE EventBehind(agreed', mine[1].val, i, e)
  BY <1>3, <1>4, AgreedGrows DEF EventBehind, PluginSteps
<1> HIDE DEF e
<1>6. Listed(agreed', mine, i) /\ \A q \in Updater : Listed(agreed, journalled[q], q)
  <2>1. Listed(agreed, mine, i)
    BY <1>2, <1>3, <1>4 DEF Underway
  <2>2. QED
    BY <2>1, AgreedGrows DEF ReviewInv
<1>7. Listed(agreed', Append(mine, e), i)
  BY <1>5, <1>6, ListedAppend
<1>8. PICK old : old = journalled[i]
  OBVIOUS
<1>9. IF mine = <<>> THEN i = r /\ old = <<>> ELSE old # <<>> /\ old[1] = mine[1]
  BY <1>2, <1>3, <1>4, <1>8 DEF Underway
<1>10. Listed(agreed', old, i)
  BY <1>6, <1>8, AgreedGrows
<1>11. Listed(agreed', Append(old, e), i)
  BY <1>5, <1>9, <1>10, ListedAppend
<1>12. \A events : Listed(agreed, events, i) =>
           /\ Append(events, e) # <<>>
           /\ events # <<>> => Append(events, e)[1] = events[1]
           /\ events = <<>> => Append(events, e)[1] = e
  <2> SUFFICES ASSUME NEW events, Listed(agreed, events, i)
               PROVE  /\ Append(events, e) # <<>>
                      /\ events # <<>> => Append(events, e)[1] = events[1]
                      /\ events = <<>> => Append(events, e)[1] = e
    OBVIOUS
  <2>1. PICK S : events \in Seq(S)
    BY DEF Listed
  <2>2. events \in Seq(S \cup {e}) /\ e \in S \cup {e}
    BY <2>1
  <2>3. QED
    BY <2>2
<1>13. journalled' = [q \in Updater |-> IF q = i THEN Append(old, e) ELSE journalled[q]]
  BY <1>1, <1>3, <1>8 DEF ReviewInv
<1>14. journalled' = [q \in Updater |-> journalled'[q]]
  BY <1>13
<1>15. ASSUME NEW q \in Updater PROVE Listed(agreed, journalled[q], q)'
  <2>1. CASE q = i
    BY <1>11, <1>13, <2>1, AgreedGrows
  <2>2. CASE q # i
    <3>1. journalled'[q] = journalled[q]
      BY <1>13, <2>2
    <3>2. QED
      BY <1>6, <3>1, AgreedGrows
  <2>3. QED
    BY <2>1, <2>2
<1>16. Listed(agreed, old, i) /\ Listed(agreed, mine, i)
  BY <1>2, <1>3, <1>4, <1>6, <1>8 DEF Underway
<1>17. ASSUME NEW q \in Updater, journalled[q] # <<>>
       PROVE  journalled'[q] # <<>> /\ journalled'[q][1] = journalled[q][1]
  BY <1>8, <1>12, <1>13, <1>16, <1>17
<1>18. ASSUME NEW q \in Updater, q # r, P!Busy(q), inst[q].mine = <<>> PROVE journalled'[q] = <<>>
  <2>1. journalled[q] = <<>>
    BY <1>18 DEF ReviewInv, Underway
  <2>2. q # i
    BY <1>8, <1>9, <1>18, <2>1
  <2>3. QED
    BY <1>13, <2>1, <2>2
<1>19. IsInstaller(read) /\ read.mine = Append(mine, e) /\ read.of = i
  <2>1. IsInstaller(inst[r])
    BY <1>2
  <2>2. IsInstaller(read) /\ read.mine = Append(inst[r].mine, e) /\ read.of = inst[r].of
    BY <2>1, MineSet, Zenon
  <2>3. QED
    BY <1>3, <1>4, <2>2
<1>20. inst' = [inst EXCEPT ![r] = x]
  <2>1. inst = [q \in Updater |-> inst[q]]
    BY DEF ReviewInv
  <2> DEFINE first == [inst EXCEPT ![r].mine = Append(@, e)]
  <2>2. first = [q \in Updater |-> IF q = r THEN read ELSE inst[q]]
    BY <2>1
  <2>3. inst' = [first EXCEPT ![r].at = "loop"]
    BY <1>1
  <2> HIDE DEF first, read
  <2>4. QED
    BY <2>1, <2>2, <2>3
<1> HIDE DEF read
<1>21. IsInstaller(x) /\ x.at = "loop" /\ x.mine = Append(mine, e) /\ x.of = i
  <2>1. IsInstaller(read)
    BY <1>19
  <2>2. IsInstaller(x) /\ x.at = "loop" /\ x.of = read.of /\ x.mine = read.mine
    BY <2>1, AtSet, Zenon
  <2>3. QED
    BY <1>19, <2>2
<1> HIDE DEF x
<1>22. Underway(r)'
  <2>1. inst'[r] = x
    BY <1>20 DEF ReviewInv
  <2>2. Append(mine, e) # <<>> /\ journalled'[i] # <<>> /\ journalled'[i][1] = Append(mine, e)[1]
    BY <1>9, <1>12, <1>13, <1>16
  <2>3. QED
    BY <1>7, <1>21, <2>1, <2>2, AgreedGrows DEF Underway, Phases
<1>23. QED
  BY <1>14, <1>15, <1>17, <1>18, <1>20, <1>21, <1>22, InstallerMoves

\* A step of r that writes no event.
LEMMA GoesKeep ==
    ASSUME ReviewInv, NEW r \in Updater, P!Busy(r), NEW at, P!Goes(r, at),
           UNCHANGED <<offer, journalled>>, agreed \subseteq agreed', at \in Phases,
           Reviewed(inst[r].of)', Len(inst[r].mine) > 1,
           at = "trusting" => inst[r].mine[1].val = "none",
           plugin_dir'.from \in Updater => plugin_dir' = plugin_dir \/ Reviewed(plugin_dir'.from)
    PROVE  ReviewInv'
<1> DEFINE x == [inst[r] EXCEPT !.at = at]
<1>1. Underway(r) /\ IsInstaller(inst[r])
  BY DEF ReviewInv
<1>2. IsInstaller(x) /\ x.at = at /\ x.mine = inst[r].mine /\ x.of = inst[r].of
  <2>1. IsInstaller(inst[r])
    BY <1>1
  <2>2. QED
    BY <2>1, AtSet, Zenon
<1>3. inst' = [inst EXCEPT ![r] = x]
  BY DEF P!Goes, ReviewInv
<1> HIDE DEF x
<1>4. inst'[r] = x
  BY <1>3 DEF ReviewInv
<1>5. Underway(r)'
  <2>1. Listed(agreed, inst[r].mine, inst[r].of)'
    BY <1>1, <1>2, <1>4, AgreedGrows DEF Underway
  <2>2. QED
    BY <1>1, <1>2, <1>4, <2>1 DEF Underway
<1>6. \A i \in Updater : Listed(agreed, journalled[i], i)'
  BY AgreedGrows DEF ReviewInv
<1>7. \A q \in Updater : q # r /\ P!Busy(q) /\ inst[q].mine = <<>> => journalled'[q] = <<>>
  BY DEF ReviewInv, Underway
<1>8. journalled' = [i \in Updater |-> journalled'[i]]
  BY DEF ReviewInv
<1>9. QED
  BY <1>2, <1>3, <1>5, <1>6, <1>7, <1>8, InstallerMoves

\* A process that begins or ends.
LEMMA TurnsKeep ==
    ASSUME ReviewInv, NEW r \in Updater, NEW at, NEW of, NEW mine,
           inst' = [inst EXCEPT ![r] = [at |-> at, of |-> of, mine |-> mine]],
           UNCHANGED <<offer, journalled, agreed>>,
           \/ at = "ended"
           \/ /\ at = "loop" /\ of \in Updater /\ mine = journalled[of]
              /\ of = r \/ journalled[of] # <<>>,
           plugin_dir'.from \in Updater => plugin_dir' = plugin_dir \/ Reviewed(plugin_dir'.from)
    PROVE  ReviewInv'
<1> DEFINE x == [at |-> at, of |-> of, mine |-> mine]
<1>1. IsInstaller(x)
  BY DEF IsInstaller
<1>2. inst'[r] = x
  BY DEF ReviewInv
<1>3. \A i \in Updater : Listed(agreed, journalled[i], i)'
  BY AgreedGrows DEF ReviewInv
<1>4. P!Busy(r)' => Underway(r)'
  <2> SUFFICES ASSUME at # "ended" PROVE Underway(r)'
    BY <1>2 DEF P!Busy
  <2>1. inst'[r].at = "loop" /\ inst'[r].of = of /\ inst'[r].mine = journalled'[of] /\ of \in Updater
    BY <1>2
  <2>2. of = r \/ journalled'[of] # <<>>
    OBVIOUS
  <2>3. QED
    BY <1>3, <2>1, <2>2 DEF Underway, Phases
<1>5. \A q \in Updater : q # r /\ P!Busy(q) /\ inst[q].mine = <<>> => journalled'[q] = <<>>
  BY DEF ReviewInv, Underway
<1>6. journalled' = [i \in Updater |-> journalled'[i]]
  BY DEF ReviewInv
<1> HIDE DEF x
<1>7. inst' = [inst EXCEPT ![r] = x]
  BY DEF x
<1>8. QED
  BY <1>1, <1>3, <1>4, <1>5, <1>6, <1>7, InstallerMoves

\* What a process may know of the step it has come to.
LEMMA ComesTo ==
    ASSUME NEW yes, NEW events, NEW i, Listed(yes, events, i)
    PROVE  /\ P!after(events) = "check_trust" => events = <<>>
           /\ P!after(events) = "new_repo_review" => events # <<>>
           /\ P!after(events) = "download" => events # <<>> /\ events[1].val # "none"
           /\ P!after(events) \in {"verify", "read_manifest", "install", "ceiling_review", "done"}
                => /\ Len(events) > 1 /\ events # <<>>
                   /\ events[1].val = "none" => <<i, "new_repo_review">> \in yes
           /\ P!after(events) \in {"read_manifest", "install", "ceiling_review", "done"} => offer.genuine
           /\ P!after(events) = "install" => P!Covers(Ceiling(events[1].val), offer.request)
<1>1. CASE events = <<>>
  BY <1>1 DEF P!after
<1>2. CASE events # <<>>
  <2> DEFINE e == events[Len(events)]
  <2>1. PICK S : events \in Seq(S)
    BY DEF Listed
  <2>2. Len(events) \in Nat /\ Len(events) > 0
    BY <1>2, <2>1
  <2>3. IF Len(events) = 1 THEN e.step = "check_trust" /\ e = events[1]
                           ELSE EventBehind(yes, events[1].val, i, e)
    BY <1>2, FirstIsTrust
  <2>4. CASE e.step = "check_trust"
    <3>1. Len(events) = 1
      BY <2>3, <2>4 DEF EventBehind, PluginSteps
    <3>2. P!after(events) = P!trust_gate(events[1].val)
      BY <1>2, <2>3, <2>4, <3>1 DEF P!after
    <3>3. QED
      BY <1>2, <3>1, <3>2 DEF P!trust_gate
  <2>5. CASE e.step # "check_trust"
    <3>1. Len(events) > 1 /\ EventBehind(yes, events[1].val, i, e)
      <4>1. Len(events) # 1
        BY <2>3, <2>5
      <4>2. QED
        BY <2>2, <2>3, <4>1
    <3>2. \/ e.step = "download" /\ P!after(events) = "verify"
          \/ e.step = "verify" /\ P!after(events) = P!verify_gate(offer.genuine)
          \/ /\ e.step = "read_manifest" /\ offer.genuine
             /\ P!after(events) = IF P!Covers(Ceiling(events[1].val), offer.request)
                                  THEN "install" ELSE "ceiling_review"
          \/ e.step = "install" /\ P!after(events) = "done" /\ offer.genuine
          \/ e.step = "done" /\ P!after(events) = "finished"
      BY <1>2, <3>1 DEF P!after, EventBehind, PluginSteps
    <3>3. events[1].val = "none" => <<i, "new_repo_review">> \in yes
      BY <3>1 DEF EventBehind
    <3>4. QED
      BY <1>2, <3>1, <3>2, <3>3 DEF P!verify_gate
  <2>6. QED
    BY <2>4, <2>5
<1>3. QED
  BY <1>1, <1>2

LEMMA InitReviewed ==
    ASSUME "none" \notin Updater, P!PluginInit PROVE ReviewInv
<1>1. \A yes, i : Listed(yes, <<>>, i)
  <2>1. <<>> \in Seq({}) /\ DOMAIN <<>> = {}
    OBVIOUS
  <2>2. QED
    BY <2>1 DEF Listed
<1>2. \A r \in Updater : IsInstaller(inst[r]) /\ ~P!Busy(r)
  BY DEF P!PluginInit, P!Waiting, IsInstaller, P!Busy
<1>3. plugin_dir.from \notin Updater
  BY DEF P!PluginInit, P!Missing
<1>4. QED
  BY <1>1, <1>2, <1>3 DEF P!PluginInit, ReviewInv

\* A step that records what it found, behind check_trust.
LEMMA FoundKeeps ==
    ASSUME ReviewInv, NEW r \in Updater, NEW at, P!Next_is(r, at), NEW s, NEW val,
           P!Journals(r, s, val), UNCHANGED <<offer, agreed, plugin_dir>>,
           \/ at = "download" /\ s = "download"
           \/ at = "verify" /\ s = "verify" /\ val = offer.genuine
           \/ at = "read_manifest" /\ s = "read_manifest" /\ val = P!within_ceiling(inst[r].mine)
           \/ at = "done" /\ s = "done"
    PROVE  ReviewInv'
<1>1. P!Busy(r) /\ Underway(r)
  BY DEF P!Busy, P!Next_is, ReviewInv
<1>2. PICK mine, i : mine = inst[r].mine /\ i = inst[r].of
  OBVIOUS
<1>3. Listed(agreed, mine, i) /\ P!after(mine) = at
  BY <1>1, <1>2 DEF Underway, P!Next_is
<1>4. mine # <<>>
  BY <1>3, ComesTo
<1>5. P!within_ceiling(mine) = P!Covers(Ceiling(mine[1].val), offer.request)
  BY <1>3, <1>4, FirstIsTrust DEF P!within_ceiling
<1>6. mine[1].val = "none" => <<i, "new_repo_review">> \in agreed
  BY <1>3, ComesTo
<1>7. s \in {"read_manifest", "install", "done"} => offer.genuine
  BY <1>3, ComesTo
<1>8. EventBehind(agreed, mine[1].val, i, [step |-> s, val |-> val])
  BY <1>2, <1>5, <1>6, <1>7 DEF EventBehind, PluginSteps
<1>9. QED
  BY <1>1, <1>2, <1>4, <1>8, JournalsKeep

LEMMA StepReviewed ==
    ASSUME "none" \notin Updater, "operator" \notin Updater, ReviewInv, [P!PluginNext]_plugin
    PROVE  ReviewInv'
<1>1. \A r \in Updater : P!Busy(r) => Underway(r)
  BY DEF ReviewInv
<1>2. ASSUME UNCHANGED <<inst, offer, journalled, agreed>>,
             plugin_dir'.from \in Updater => plugin_dir'.from = plugin_dir.from
      PROVE  ReviewInv'
  <2>1. (plugin_dir.from \in Updater)' => Reviewed(plugin_dir'.from)
    <3>1. plugin_dir.from \in Updater => Reviewed(plugin_dir.from)
      BY DEF ReviewInv
    <3>2. QED
      BY <1>2, <3>1
  <2>2. (plugin_dir.from \in Updater)' => Reviewed(plugin_dir.from)'
    BY <1>2, <2>1 DEF Reviewed, Ceiling
  <2>3. /\ \A i \in Updater : Listed(agreed, journalled[i], i)'
        /\ \A r \in Updater : P!Busy(r)' => Underway(r)'
    BY <1>2 DEF ReviewInv, Listed, EventBehind, Ceiling, Underway, Reviewed, P!Busy
  <2>4. QED
    BY <1>2, <2>2, <2>3 DEF ReviewInv
<1>3. ASSUME \/ \E c \in P!Ceilings : P!trust_add(c)
             \/ P!trust_remove \/ P!remove \/ P!install_local
      PROVE  ReviewInv'
  BY <1>2, <1>3 DEF P!trust_add, P!trust_remove, P!remove, P!install_local, P!Missing
<1>4. ASSUME NEW r \in Updater, NEW i \in Updater, P!begins(r, i) PROVE ReviewInv'
  BY <1>4, TurnsKeep DEF P!begins
<1>5. ASSUME NEW r \in Updater, P!check_trust(r) PROVE ReviewInv'
  <2>1. P!Busy(r) /\ inst[r].mine = <<>>
    BY <1>1, <1>5, ComesTo DEF P!check_trust, P!Next_is, P!Busy, Underway
  <2>2. QED
    BY <1>5, <2>1, JournalsKeep DEF P!check_trust
<1>6. ASSUME NEW r \in Updater, P!fetches(r) PROVE ReviewInv'
  BY <1>6, FoundKeeps DEF P!fetches
<1>7. ASSUME NEW r \in Updater, P!verify_plugin_signature(r) PROVE ReviewInv'
  BY <1>7, FoundKeeps DEF P!verify_plugin_signature
<1>8. ASSUME NEW r \in Updater, P!extract_and_read_manifest(r) PROVE ReviewInv'
  BY <1>8, FoundKeeps DEF P!extract_and_read_manifest
<1>9. ASSUME NEW r \in Updater, P!human_says_yes(r, "new_repo_review", "download")
      PROVE  ReviewInv'
  <2>1. P!Busy(r) /\ inst[r].mine # <<>>
    BY <1>1, <1>9, ComesTo DEF P!human_says_yes, P!Next_is, P!Busy, Underway
  <2>2. P!Journals(r, "download", r)
    BY <1>9 DEF P!human_says_yes
  <2>3. QED
    BY <1>9, <2>1, <2>2, JournalsKeep DEF P!human_says_yes
\* Phases of install: reviewed before, or by the step that enters it.
<1>10. ASSUME NEW r \in Updater, P!human_says_yes(r, "ceiling_review", "install")
       PROVE  ReviewInv'
  <2>1. /\ P!Busy(r) /\ Underway(r) /\ inst[r].mine # <<>> /\ Len(inst[r].mine) > 1
        /\ offer.genuine
    BY <1>1, <1>10, ComesTo DEF P!human_says_yes, P!Next_is, P!Busy, Underway
  <2>2. P!Goes(r, "install") /\ UNCHANGED <<journalled, offer, plugin_dir>>
    BY <1>10 DEF P!human_says_yes, P!Goes
  <2>3. agreed' = agreed \cup {<<inst[r].of, "ceiling_review">>}
    BY <1>10 DEF P!human_says_yes
  <2>4. inst'[r].of = inst[r].of
    BY <2>2, AtSet DEF P!Goes, ReviewInv
  <2>5. Reviewed(inst[r].of)'
    BY <2>1, <2>2, <2>3, <2>4 DEF Underway, Reviewed
  <2>6. QED
    BY <2>1, <2>2, <2>3, <2>5, GoesKeep DEF Phases
<1>11. ASSUME NEW r \in Updater, NEW at \in Phases, P!Busy(r), P!Goes(r, at),
              Reviewed(inst[r].of), Len(inst[r].mine) > 1,
              at = "trusting" => inst[r].mine[1].val = "none",
              UNCHANGED <<offer, journalled, agreed>>,
              plugin_dir'.from \in Updater => plugin_dir' = plugin_dir \/ plugin_dir'.from = inst[r].of
       PROVE  ReviewInv'
  <2>1. inst'[r].of = inst[r].of
    BY <1>11, AtSet DEF P!Goes, ReviewInv
  <2>2. Reviewed(inst[r].of)'
    BY <1>11, <2>1 DEF Reviewed, Ceiling
  <2>3. QED
    BY <1>11, <2>2, GoesKeep
<1>12. ASSUME NEW r \in Updater, P!install_clears(r) PROVE ReviewInv'
  <2>1. P!Busy(r) /\ Underway(r)
    BY <1>1, <1>12 DEF P!install_clears, P!clears, P!Next_is, P!In, P!Busy
  <2>2. Reviewed(inst[r].of) /\ Len(inst[r].mine) > 1
    <3>1. CASE P!Next_is(r, "install")
      BY <2>1, <3>1, ComesTo DEF P!Next_is, Underway, Reviewed
    <3>2. CASE P!In(r, "install")
      BY <2>1, <3>2 DEF P!In, Underway, Phases
    <3>3. QED
      BY <1>12, <3>1, <3>2 DEF P!install_clears, P!clears
  <2>3. QED
    BY <1>11, <1>12, <2>1, <2>2 DEF P!install_clears, P!clear_dir, P!Missing, Phases
<1>13. ASSUME NEW r \in Updater, inst[r].at \in Phases
       PROVE  P!Busy(r) /\ Underway(r) /\ Reviewed(inst[r].of) /\ Len(inst[r].mine) > 1
  BY <1>1, <1>13 DEF P!Busy, Phases, Underway
<1>14. ASSUME NEW r \in Updater, P!install_moves(r) PROVE ReviewInv'
  <2>1. inst[r].at \in Phases
    BY <1>14 DEF P!install_moves, P!In, Phases
  <2>2. QED
    BY <1>11, <1>13, <1>14, <2>1 DEF P!install_moves, P!moved_dir, Phases
<1>15. ASSUME NEW r \in Updater, P!install_registers(r) PROVE ReviewInv'
  <2>1. inst[r].at \in Phases
    BY <1>15 DEF P!install_registers, P!In, Phases
  <2>2. inst[r].mine # <<>> /\ Listed(agreed, inst[r].mine, inst[r].of)
    BY <1>13, <2>1 DEF Underway
  <2>3. P!Value(inst[r].mine, "check_trust") = inst[r].mine[1].val
    BY <2>2, FirstIsTrust
  <2>4. PICK at \in Phases : P!Goes(r, at) /\ (at = "trusting" => inst[r].mine[1].val = "none")
    BY <1>15, <2>3 DEF P!install_registers, Phases
  <2>5. QED
    BY <1>11, <1>13, <1>15, <2>1, <2>4 DEF P!install_registers
<1>16. ASSUME NEW r \in Updater, P!install_trusts(r) PROVE ReviewInv'
  <2>1. inst[r].at \in Phases
    BY <1>16 DEF P!install_trusts, P!In, Phases
  <2>2. QED
    BY <1>11, <1>13, <1>16, <2>1 DEF P!install_trusts, Phases
<1>17. ASSUME NEW r \in Updater, P!install_recorded(r) PROVE ReviewInv'
  <2>1. CASE P!In(r, "installed")
    <3>1. P!Busy(r) /\ Underway(r) /\ Reviewed(inst[r].of) /\ Len(inst[r].mine) > 1
      BY <1>13, <2>1 DEF P!In, Phases
    <3>2. inst[r].mine # <<>> /\ Listed(agreed, inst[r].mine, inst[r].of)
      BY <3>1 DEF Underway
    <3>3. inst[r].mine[1].val = "none" => <<inst[r].of, "new_repo_review">> \in agreed
      BY <3>1, <3>2, FirstIsTrust DEF EventBehind
    <3>4. EventBehind(agreed, inst[r].mine[1].val, inst[r].of, [step |-> "install", val |-> TRUE])
      BY <3>1, <3>3 DEF EventBehind, Reviewed, PluginSteps
    <3>5. P!Journals(r, "install", TRUE)
      BY <1>17, <2>1 DEF P!install_recorded
    <3>6. QED
      BY <1>17, <3>1, <3>2, <3>4, <3>5, JournalsKeep DEF P!install_recorded
  <2>2. CASE ~P!In(r, "installed")
    BY <1>17, <2>2, FoundKeeps DEF P!install_recorded
  <2>3. QED
    BY <2>1, <2>2
<1>18. ASSUME NEW r \in Updater, P!Stops(r), UNCHANGED <<offer, journalled, agreed>>,
              plugin_dir'.from \in Updater => plugin_dir' = plugin_dir \/ Reviewed(plugin_dir'.from)
       PROVE  ReviewInv'
  <2>1. inst' = [inst EXCEPT ![r] = [at |-> "ended", of |-> "none", mine |-> <<>>]]
    <3>1. [P!Waiting EXCEPT !.at = "ended"] = [at |-> "ended", of |-> "none", mine |-> <<>>]
      BY DEF P!Waiting
    <3>2. QED
      BY <1>18, <3>1 DEF P!Stops
  <2>2. QED
    BY <1>18, <2>1, TurnsKeep
<1>19. ASSUME NEW r \in Updater, P!installer_ends(r) PROVE ReviewInv'
  BY <1>18, <1>19 DEF P!installer_ends
<1>20. ASSUME NEW r \in Updater, P!install_breaks(r) PROVE ReviewInv'
  <2>1. inst[r].at = "cleared" => Reviewed(inst[r].of)
    BY <1>13 DEF Phases
  <2>2. plugin_dir.from \in Updater => Reviewed(plugin_dir.from)
    BY DEF ReviewInv
  <2>3. QED
    BY <1>18, <1>20, <2>1, <2>2 DEF P!install_breaks, P!In
<1>21. CASE UNCHANGED plugin
  BY <1>2, <1>21 DEF plugin
<1>22. QED
  BY <1>3, <1>4, <1>5, <1>6, <1>7, <1>8, <1>9, <1>10, <1>12, <1>14, <1>15, <1>16, <1>17, <1>19,
     <1>20, <1>21 DEF P!PluginNext

LEMMA DoneAppend ==
    ASSUME NEW yes, NEW events, NEW i, Listed(yes, events, i), NEW e,
           P!Done(Append(events, e), "install")
    PROVE  P!Done(events, "install") \/ e.step = "install"
<1>1. PICK S : events \in Seq(S)
  BY DEF Listed
<1>2. events \in Seq(S \cup {e}) /\ e \in S \cup {e}
  BY <1>1
<1>3. /\ DOMAIN Append(events, e) = 1..(Len(events) + 1)
      /\ Append(events, e)[Len(events) + 1] = e
      /\ DOMAIN events = 1..Len(events) /\ Len(events) \in Nat
      /\ \A k \in 1..Len(events) : Append(events, e)[k] = events[k]
  BY <1>2
<1>4. PICK k \in DOMAIN Append(events, e) : Append(events, e)[k].step = "install"
  BY DEF P!Done
<1>5. k \in 1..Len(events) \/ k = Len(events) + 1
  BY <1>3
<1>6. QED
  BY <1>3, <1>4, <1>5 DEF P!Done

\* What the three parts of WholeInv say of a step of r alone, while nobody else
\* installs and the operator keeps away.
Installed ==
    \/ \E i \in Updater : P!Done(journalled[i], "install")
    \/ \E q \in Updater : inst[q].at \in {"trusting", "installed"}

LEMMA RecordIsNoInstall ==
    ASSUME ReviewInv, NEW r \in Updater, P!Busy(r), NEW s, NEW val, P!Journals(r, s, val)
    PROVE  /\ inst'[r].at = "loop" /\ \A q \in Updater : q # r => inst'[q] = inst[q]
           /\ Installed' => Installed \/ s = "install"
<1> DEFINE e == [step |-> s, val |-> val]
<1>1. Underway(r)
  BY DEF ReviewInv
<1>2. /\ journalled' = [journalled EXCEPT ![inst[r].of] = Append(@, e)]
      /\ inst' = [inst EXCEPT ![r].mine = Append(@, e), ![r].at = "loop"]
  BY DEF P!Journals
<1>3. \A q \in Updater : q # r => inst'[q] = inst[q]
  BY <1>2 DEF ReviewInv
<1>4. inst'[r].at = "loop"
  <2> DEFINE first == [inst EXCEPT ![r].mine = Append(@, e)]
  <2>1. IsInstaller([inst[r] EXCEPT !.mine = Append(@, e)])
    BY MineSet DEF ReviewInv
  <2>2. first[r] = [inst[r] EXCEPT !.mine = Append(@, e)] /\ first = [q \in Updater |-> first[q]]
    BY DEF ReviewInv
  <2>3. inst' = [first EXCEPT ![r].at = "loop"] /\ IsInstaller(first[r])
    BY <1>2, <2>1, <2>2
  <2> HIDE DEF first
  <2>4. inst'[r] = [first[r] EXCEPT !.at = "loop"]
    BY <2>2, <2>3
  <2>5. QED
    BY <2>3, <2>4, AtSet
<1>5. ASSUME NEW i \in Updater, P!Done(journalled'[i], "install")
      PROVE  P!Done(journalled[i], "install") \/ s = "install"
  <2>1. CASE i = inst[r].of
    <3>1. journalled'[i] = Append(journalled[i], e)
      BY <1>2, <2>1 DEF ReviewInv
    <3>2. Listed(agreed, journalled[i], i)
      BY DEF ReviewInv
    <3>3. P!Done(journalled[i], "install") \/ e.step = "install"
      BY <1>5, <3>1, <3>2, DoneAppend
    <3>4. QED
      BY <3>3
  <2>2. CASE i # inst[r].of
    <3>1. journalled'[i] = journalled[i]
      BY <1>2, <2>2 DEF ReviewInv
    <3>2. QED
      BY <1>5, <3>1
  <2>3. QED
    BY <2>1, <2>2
<1>6. QED
  BY <1>3, <1>4, <1>5 DEF Installed

LEMMA GoesTo ==
    ASSUME ReviewInv, NEW r \in Updater, NEW at, P!Goes(r, at)
    PROVE  inst'[r].at = at /\ \A q \in Updater : q # r => inst'[q] = inst[q]
<1>1. inst' = [inst EXCEPT ![r] = [inst[r] EXCEPT !.at = at]] /\ IsInstaller(inst[r])
  BY DEF P!Goes, ReviewInv
<1>2. inst'[r] = [inst[r] EXCEPT !.at = at] /\ \A q \in Updater : q # r => inst'[q] = inst[q]
  BY <1>1 DEF ReviewInv
<1>3. [inst[r] EXCEPT !.at = at].at = at
  BY <1>1, AtSet, Zenon
<1>4. QED
  BY <1>2, <1>3

LEMMA InitWhole == P!PluginInit => operator \in Nat /\ WholeInv
<1>1. ASSUME P!PluginInit PROVE \A r \in Updater : inst[r].at = "idle" /\ journalled[r] = <<>>
  BY <1>1 DEF P!PluginInit, P!Waiting
<1>2. QED
  BY <1>1 DEF P!PluginInit, P!Waiting, P!Busy, P!Done, WholeInv

LEMMA StepWhole ==
    ASSUME ReviewInv, operator \in Nat, WholeInv, [P!PluginNext]_plugin
    PROVE  operator' \in Nat /\ WholeInv'
<1>1. WholeInv <=> (~hindered =>
        /\ \A r, q \in Updater : P!Busy(r) /\ P!Busy(q) => r = q
        /\ operator = 0 => /\ Installed => Settled \/ Clearing
                           /\ \A r \in Updater : inst[r].at = "moved" => plugin_dir.state = "whole")
  BY DEF WholeInv, Installed
<1>2. WholeInv' <=> (~hindered' =>
        /\ \A r, q \in Updater : P!Busy(r)' /\ P!Busy(q)' => r = q
        /\ operator' = 0 => /\ Installed' => Settled' \/ Clearing'
                            /\ \A r \in Updater : inst'[r].at = "moved" => plugin_dir'.state = "whole")
  BY DEF WholeInv, Installed
\* The command of an operator ends the claim.
<1>3. ASSUME P!Commands, UNCHANGED <<inst, hindered>> PROVE operator' \in Nat /\ WholeInv'
  <2>1. operator' \in Nat /\ operator' # 0
    BY <1>3 DEF P!Commands
  <2>2. QED
    BY <1>1, <1>2, <1>3, <2>1 DEF P!Busy
<1>4. ASSUME \/ \E c \in P!Ceilings : P!trust_add(c)
             \/ P!trust_remove \/ P!remove \/ P!install_local
      PROVE  operator' \in Nat /\ WholeInv'
  BY <1>3, <1>4 DEF P!trust_add, P!trust_remove, P!remove, P!install_local
<1>5. ASSUME NEW r \in Updater, NEW i \in Updater, P!begins(r, i) PROVE operator' \in Nat /\ WholeInv'
  <2>1. inst'[r].at = "loop" /\ \A q \in Updater : q # r => inst'[q] = inst[q]
    BY <1>5 DEF P!begins, ReviewInv
  <2>2. hindered' = (hindered \/ \E q \in Updater : P!Busy(q)) /\ UNCHANGED <<operator, journalled, plugin_dir, manifest_copy>>
    BY <1>5 DEF P!begins
  <2>3. Installed' => Installed
    BY <2>1, <2>2 DEF Installed
  <2>4. Clearing => \E q \in Updater : P!Busy(q)
    BY DEF Clearing, P!Busy
  <2>5. QED
    BY <1>1, <1>2, <2>1, <2>2, <2>3, <2>4 DEF P!Busy, Settled
\* The other steps are those of one busy process.
<1>6. ASSUME NEW r \in Updater, P!Busy(r), UNCHANGED <<operator, hindered>>,
             \A q \in Updater : q # r => inst'[q] = inst[q],
             WholeInv /\ ~hindered /\ operator = 0 =>
                 /\ Installed' => Settled' \/ inst'[r].at \in {"cleared", "moved"}
                 /\ inst'[r].at = "moved" => plugin_dir'.state = "whole"
      PROVE  operator' \in Nat /\ WholeInv'
  <2> SUFFICES ASSUME ~hindered'
               PROVE  /\ \A p, q \in Updater : P!Busy(p)' /\ P!Busy(q)' => p = q
                      /\ operator' = 0 =>
                           /\ Installed' => Settled' \/ Clearing'
                           /\ \A q \in Updater : inst'[q].at = "moved" => plugin_dir'.state = "whole"
    BY <1>2, <1>6
  <2>1. \A q \in Updater : P!Busy(q) => q = r
    BY <1>1, <1>6
  <2>2. \A q \in Updater : P!Busy(q)' => q = r
    BY <1>6, <2>1 DEF P!Busy
  <2>3. QED
    BY <1>6, <2>2 DEF Clearing, P!Busy
<1>7. ASSUME NEW r \in Updater, NEW s, NEW val, P!Busy(r), P!Journals(r, s, val),
             s = "install" => inst[r].at = "installed",
             inst[r].at \notin {"cleared", "moved"},
             UNCHANGED <<operator, hindered, plugin_dir, manifest_copy>>
      PROVE  operator' \in Nat /\ WholeInv'
  <2>1. /\ inst'[r].at = "loop" /\ \A q \in Updater : q # r => inst'[q] = inst[q]
        /\ Installed' => Installed
    BY <1>7, RecordIsNoInstall DEF Installed
  <2>2. WholeInv /\ ~hindered => ~Clearing
    BY <1>1, <1>7 DEF Clearing, P!Busy
  <2>3. WholeInv /\ ~hindered /\ operator = 0 /\ Installed' => Settled'
    BY <1>1, <1>7, <2>1, <2>2 DEF Settled
  <2>4. QED
    BY <1>6, <1>7, <2>1, <2>3
<1>8. ASSUME NEW r \in Updater,
             \/ P!check_trust(r) \/ P!fetches(r) \/ P!verify_plugin_signature(r)
             \/ P!extract_and_read_manifest(r) \/ P!install_recorded(r)
             \/ P!human_says_yes(r, "new_repo_review", "download")
      PROVE  operator' \in Nat /\ WholeInv'
  <2>1. P!Busy(r) /\ inst[r].at \in {"loop", "installed"}
    BY <1>8 DEF P!check_trust, P!fetches, P!verify_plugin_signature, P!extract_and_read_manifest,
                P!install_recorded, P!human_says_yes, P!Next_is, P!In, P!Busy
  <2>2. UNCHANGED <<operator, hindered, plugin_dir, manifest_copy>>
    BY <1>8 DEF P!check_trust, P!fetches, P!verify_plugin_signature, P!extract_and_read_manifest,
                P!install_recorded, P!human_says_yes
  <2>3. \E s, val : P!Journals(r, s, val) /\ (s = "install" => inst[r].at = "installed")
    <3>1. CASE P!install_recorded(r)
      <4>1. CASE P!In(r, "installed")
        <5>1. P!Journals(r, "install", TRUE) /\ inst[r].at = "installed"
          BY <3>1, <4>1 DEF P!install_recorded, P!In
        <5>2. QED
          BY <5>1
      <4>2. CASE ~P!In(r, "installed")
        <5>1. P!Journals(r, "done", TRUE) /\ "done" # "install"
          BY <3>1, <4>2 DEF P!install_recorded
        <5>2. QED
          BY <5>1
      <4>3. QED
        BY <4>1, <4>2
    <3>2. CASE P!human_says_yes(r, "new_repo_review", "download")
      BY <3>2 DEF P!human_says_yes
    <3>3. CASE P!check_trust(r)
      BY <3>3 DEF P!check_trust
    <3>4. CASE P!fetches(r)
      BY <3>4 DEF P!fetches
    <3>5. CASE P!verify_plugin_signature(r)
      BY <3>5 DEF P!verify_plugin_signature
    <3>6. CASE P!extract_and_read_manifest(r)
      BY <3>6 DEF P!extract_and_read_manifest
    <3>7. QED
      BY <1>8, <3>1, <3>2, <3>3, <3>4, <3>5, <3>6
  <2>4. QED
    BY <1>7, <2>1, <2>2, <2>3
<1>9. ASSUME NEW r \in Updater, P!Busy(r), NEW at, P!Goes(r, at), UNCHANGED <<operator, hindered, journalled>>,
             WholeInv /\ ~hindered /\ operator = 0 =>
                 \/ at \in {"cleared"}
                 \/ at = "moved" /\ plugin_dir'.state = "whole"
                 \/ at \in {"trusting", "installed"} /\ Settled'
                 \/ at = "install" /\ inst[r].at = "loop" /\ UNCHANGED <<plugin_dir, manifest_copy>>
      PROVE  operator' \in Nat /\ WholeInv'
  <2>1. inst'[r].at = at /\ \A q \in Updater : q # r => inst'[q] = inst[q]
    BY <1>9, GoesTo
  <2>2. at = "install" => (Installed' => Installed)
    BY <1>9, <2>1 DEF Installed
  <2>3. WholeInv /\ ~hindered /\ inst[r].at = "loop" => ~Clearing
    BY <1>1, <1>9 DEF Clearing, P!Busy
  <2>4. WholeInv /\ ~hindered /\ operator = 0 =>
                 /\ Installed' => Settled' \/ inst'[r].at \in {"cleared", "moved"}
                 /\ inst'[r].at = "moved" => plugin_dir'.state = "whole"
    BY <1>1, <1>9, <2>1, <2>2, <2>3 DEF Settled
  <2>5. QED
    BY <1>6, <1>9, <2>1, <2>4
<1>10. ASSUME NEW r \in Updater, P!human_says_yes(r, "ceiling_review", "install")
       PROVE  operator' \in Nat /\ WholeInv'
  BY <1>9, <1>10 DEF P!human_says_yes, P!Next_is, P!Busy, P!Goes
<1>11. ASSUME NEW r \in Updater, P!install_clears(r) PROVE operator' \in Nat /\ WholeInv'
  BY <1>9, <1>11 DEF P!install_clears, P!clears, P!Next_is, P!In, P!Busy
<1>12. ASSUME NEW r \in Updater, P!install_moves(r) PROVE operator' \in Nat /\ WholeInv'
  BY <1>9, <1>12 DEF P!install_moves, P!moved_dir, P!In, P!Busy
<1>13. ASSUME NEW r \in Updater, P!install_registers(r) PROVE operator' \in Nat /\ WholeInv'
  <2>1. P!Busy(r) /\ inst[r].at = "moved"
    BY <1>13 DEF P!install_registers, P!In, P!Busy
  <2>2. WholeInv /\ ~hindered /\ operator = 0 => Settled'
    BY <1>1, <1>13, <2>1 DEF P!install_registers, Settled
  <2>3. PICK at \in {"trusting", "installed"} : P!Goes(r, at)
    BY <1>13 DEF P!install_registers
  <2>4. QED
    BY <1>9, <1>13, <2>1, <2>2, <2>3 DEF P!install_registers
<1>14. ASSUME NEW r \in Updater, P!install_trusts(r) PROVE operator' \in Nat /\ WholeInv'
  <2>1. P!Busy(r) /\ inst[r].at = "trusting"
    BY <1>14 DEF P!install_trusts, P!In, P!Busy
  <2>2. WholeInv /\ ~hindered => ~Clearing
    BY <1>1, <2>1 DEF Clearing, P!Busy
  <2>3. WholeInv /\ ~hindered /\ operator = 0 => Settled'
    BY <1>1, <1>14, <2>1, <2>2 DEF P!install_trusts, Settled, Installed
  <2>4. QED
    BY <1>9, <1>14, <2>1, <2>3 DEF P!install_trusts
<1>15. ASSUME NEW r \in Updater, P!Stops(r)
       PROVE  inst'[r].at = "ended" /\ \A q \in Updater : q # r => inst'[q] = inst[q]
  <2>1. [P!Waiting EXCEPT !.at = "ended"].at = "ended"
    BY DEF P!Waiting
  <2>2. QED
    BY <1>15, <2>1 DEF P!Stops, ReviewInv
<1>16. ASSUME NEW r \in Updater, P!installer_ends(r) PROVE operator' \in Nat /\ WholeInv'
  <2>1. P!Busy(r) /\ inst[r].at = "loop"
    BY <1>16 DEF P!installer_ends, P!In, P!Busy
  <2>2. inst'[r].at = "ended" /\ \A q \in Updater : q # r => inst'[q] = inst[q]
    BY <1>15, <1>16 DEF P!installer_ends
  <2>3. UNCHANGED <<operator, hindered, journalled, plugin_dir, manifest_copy>>
    BY <1>16 DEF P!installer_ends
  <2>4. Installed' => Installed
    BY <2>2, <2>3 DEF Installed
  <2>5. WholeInv /\ ~hindered => ~Clearing
    BY <1>1, <2>1 DEF Clearing, P!Busy
  <2>6. QED
    BY <1>1, <1>6, <2>1, <2>2, <2>3, <2>4, <2>5 DEF Settled
<1>17. ASSUME NEW r \in Updater, P!install_breaks(r) PROVE operator' \in Nat /\ WholeInv'
  BY <1>2, <1>17 DEF P!install_breaks
<1>18. CASE UNCHANGED plugin
  BY <1>18 DEF plugin, WholeInv, Settled, Clearing, P!Busy
<1>19. QED
  BY <1>4, <1>5, <1>8, <1>10, <1>11, <1>12, <1>13, <1>14, <1>16, <1>17, <1>18 DEF P!PluginNext

\* Whichever process resumes an instance and whatever the list became since,
\* what stands in the plugin's directory by an installation was reviewed, and
\* an installation that nothing hindered leaves the whole of it.  A pid is none
\* of the two names the model gives a directory nobody's instance filled.
THEOREM PluginSafe ==
    ASSUME "none" \notin Updater, "operator" \notin Updater
    PROVE  Spec => []PluginIsSafe
<1> DEFINE Inv == part = "plugin" => PluginInv
<1>1. Init => Inv
  BY InitReviewed, InitWhole DEF Init, PluginInv
<1>2. Inv /\ [Next]_vars => Inv'
  <2> SUFFICES ASSUME Inv, [Next]_vars, part' = "plugin" PROVE PluginInv'
    OBVIOUS
  <2>1. part = "plugin" /\ [P!PluginNext]_plugin
    BY DEF Next, vars
  <2>2. QED
    BY <2>1, StepReviewed, StepWhole DEF PluginInv
<1>3. Inv => PluginIsSafe
  <2> SUFFICES ASSUME PluginInv PROVE P!InstalledWasReviewed /\ P!InstalledIsWhole
    BY DEF PluginIsSafe
  <2>1. P!InstalledWasReviewed
    <3> SUFFICES ASSUME plugin_dir.from \in Updater
                 PROVE  /\ offer.genuine
                        /\ \/ P!Covers(P!ceiling_of(journalled[plugin_dir.from]), offer.request)
                           \/ <<plugin_dir.from, "ceiling_review">> \in agreed
      BY DEF P!InstalledWasReviewed
    <3>1. Reviewed(plugin_dir.from) /\ Listed(agreed, journalled[plugin_dir.from], plugin_dir.from)
      BY DEF PluginInv, ReviewInv
    <3>2. P!ceiling_of(journalled[plugin_dir.from]) = Ceiling(journalled[plugin_dir.from][1].val)
      BY <3>1, FirstIsTrust DEF Reviewed
    <3>3. QED
      BY <3>1, <3>2 DEF Reviewed
  <2>2. P!InstalledIsWhole
    BY DEF PluginInv, WholeInv, Settled, Clearing, P!InstalledIsWhole
  <2>3. QED
    BY <2>1, <2>2
<1>4. QED
  BY <1>1, <1>2, <1>3, PTL DEF Spec

\* An installer adds its repository to the list only behind the human's yes in
\* its own instance, whichever process the yes was given to.
THEOREM TrustedByConsent ==
    ASSUME "none" \notin Updater, "operator" \notin Updater
    PROVE  Spec => PluginTrustNeedsConsent
<1> DEFINE Inv == part = "plugin" => ReviewInv
<1>1. Init => Inv
  BY InitReviewed DEF Init
<1>2. Inv /\ [Next]_vars => Inv'
  <2> SUFFICES ASSUME Inv, [Next]_vars, part' = "plugin" PROVE ReviewInv'
    OBVIOUS
  <2>1. part = "plugin" /\ [P!PluginNext]_plugin
    BY DEF Next, vars
  <2>2. QED
    BY <2>1, StepReviewed
<1>3. Inv => [part = "plugin" => P!TrustStep]_plugin
  <2> SUFFICES ASSUME ReviewInv, NEW r \in Updater, P!In(r, "trusting")
               PROVE  <<inst[r].of, "new_repo_review">> \in agreed
    BY DEF P!TrustStep
  <2>1. Underway(r)
    BY DEF ReviewInv, P!Busy, P!In
  <2>2. Listed(agreed, inst[r].mine, inst[r].of) /\ Len(inst[r].mine) > 1 /\ inst[r].mine[1].val = "none"
    BY <2>1 DEF Underway, Phases, P!In
  <2>3. inst[r].mine # <<>>
    BY <2>1, <2>2 DEF Underway, P!In
  <2>4. QED
    BY <2>2, <2>3, FirstIsTrust DEF EventBehind
<1>4. QED
  BY <1>1, <1>2, <1>3, PTL DEF Spec, PluginTrustNeedsConsent

-----------------------------------------------------------------------------
(* The npm package: only what passed the sum reaches the cache *)

\* An archive that passed the sum is the genuine one, and only its whole
\* content, or what self-update leaves, ever stands in the cache; a launch that
\* is about to hand over found a binary there, and only self-update takes one away.
PinnedInv ==
    /\ cache \in {"absent", "genuine", "no_binary"}
    /\ launch \in [Updater -> {"idle", "download", "verify", "extract", "unpack", "rename",
                               "delegate", "ran", "nothing_to_run", "failed", "killed"}]
    /\ archive \in [Updater -> {"none", "genuine", "forged"}]
    /\ \A r \in Updater : launch[r] \in {"extract", "unpack", "rename"} => archive[r] = "genuine"
    /\ ~cut => /\ swap = "idle" /\ cache # "no_binary"
               /\ \A r \in Updater : /\ launch[r] = "delegate" => cache = "genuine"
                                     /\ launch[r] # "nothing_to_run"

LEMMA InitPinned == B!BootstrapInit => PinnedInv
BY DEF B!BootstrapInit, PinnedInv

LEMMA StepPinned == PinnedInv /\ [B!BootstrapNext]_npm => PinnedInv'
<1> SUFFICES ASSUME PinnedInv, [B!BootstrapNext]_npm PROVE PinnedInv'
  OBVIOUS
<1> USE DEF PinnedInv, B!To, B!Binary
<1>1. ASSUME NEW r \in Updater, B!starts_launch(r) PROVE PinnedInv'
  BY <1>1 DEF B!starts_launch
<1>2. ASSUME NEW r \in Updater, B!downloadAsset(r) PROVE PinnedInv'
  BY <1>2 DEF B!downloadAsset
<1>3. ASSUME NEW r \in Updater, B!verifyChecksum(r) PROVE PinnedInv'
  BY <1>3 DEF B!verifyChecksum, B!checksum_matches
<1>4. ASSUME NEW r \in Updater, B!extractAtomically(r) PROVE PinnedInv'
  BY <1>4 DEF B!extractAtomically, B!makes_tmp_dir
<1>5. ASSUME NEW r \in Updater, B!extractInto(r) PROVE PinnedInv'
  BY <1>5 DEF B!extractInto, B!unpack_beside
<1>6. ASSUME NEW r \in Updater, B!renameSync(r) PROVE PinnedInv'
  BY <1>6 DEF B!renameSync
<1>7. ASSUME NEW r \in Updater, B!delegate(r) PROVE PinnedInv'
  BY <1>7 DEF B!delegate
<1>8. ASSUME NEW r \in Updater, B!relaunch(r) PROVE PinnedInv'
  BY <1>8 DEF B!relaunch
<1>9. ASSUME NEW r \in Updater, B!launch_killed(r) PROVE PinnedInv'
  BY <1>9 DEF B!launch_killed
<1>10. CASE B!swaps
  BY <1>10 DEF B!swaps, B!self_update_swaps
<1>11. CASE UNCHANGED npm
  BY <1>11 DEF npm
<1>12. QED
  BY <1>1, <1>2, <1>3, <1>4, <1>5, <1>6, <1>7, <1>8, <1>9, <1>10, <1>11 DEF B!BootstrapNext

\* However many launches race, are killed and are repeated, none hands control
\* to a binary that was not checked against the pinned sum, and none finds
\* nothing to run unless self-update is at work in the same directory.
THEOREM NpmSafe == Spec => []NpmIsSafe
<1> DEFINE Inv == part = "npm" => PinnedInv
<1>1. Init => Inv
  BY InitPinned DEF Init
<1>2. Inv /\ [Next]_vars => Inv'
  <2> SUFFICES ASSUME Inv, [Next]_vars, part' = "npm" PROVE PinnedInv'
    OBVIOUS
  <2>1. part = "npm" /\ [B!BootstrapNext]_npm
    BY DEF Next, vars
  <2>2. QED
    BY <2>1, StepPinned
<1>3. Inv => NpmIsSafe
  BY DEF PinnedInv, NpmIsSafe, B!RunsOnlyPinned, B!EnsuredIsThere
<1>4. QED
  BY <1>1, <1>2, <1>3, PTL DEF Spec
==============================================================================
