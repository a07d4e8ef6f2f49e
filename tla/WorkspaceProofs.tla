---------------------------- MODULE WorkspaceProofs ----------------------------
(***************************************************************************)
(* What a workspace keeps, for any number of sessions, importers, writers,      *)
(* processes and files.  A list of todos that is anywhere was validated           *)
(* (TodoInv); a mark's copies are what was remembered as first (FilesInv); a       *)
(* ring that has dropped nothing is all that its process wrote (TerminalInv); a    *)
(* name that one importer has is the beginning of the export (TransferInv); and     *)
(* what was sent or announced is in a box, or was shown (SessionsInv).               *)
(***************************************************************************)
EXTENDS MCWorkspace, SequenceTheorems, TLAPS

-----------------------------------------------------------------------------
(* todos: what the file holds and a call answers with *)

\* Every list there is - in the file, on its way there, or handed out - was validated.
TodoInv ==
    /\ F!allowed(todo.of) /\ F!allowed(answer.of)
    /\ \A w \in Writer : F!allowed(writing[w].of)

LEMMA EmptyAllowed ==
    ASSUME MaxItems \in Nat
    PROVE  F!allowed(<<>>)
BY DEF F!allowed

LEMMA InitTodo ==
    ASSUME MaxItems \in Nat, F!TodoInit
    PROVE  TodoInv
BY EmptyAllowed DEF F!TodoInit, TodoInv, F!Without, F!List, F!NotWriting

LEMMA StepTodo ==
    ASSUME MaxItems \in Nat, TodoInv, F!TodoNext
    PROVE  TodoInv'
<1>1. ASSUME NEW is PROVE F!allowed(F!Without(is).of)
  BY EmptyAllowed DEF F!Without
<1>2. ASSUME NEW list, F!allowed(list) PROVE F!allowed(F!List(list).of)
  BY <1>2 DEF F!List
<1>3. ASSUME NEW w \in Writer, writing' = [writing EXCEPT ![w] = F!NotWriting]
      PROVE  \A v \in Writer : F!allowed(writing'[v].of)
  BY <1>1, <1>3 DEF TodoInv, F!NotWriting
<1>4. CASE F!read
  BY <1>1, <1>2, <1>4 DEF F!read, TodoInv
<1>5. ASSUME NEW w \in Writer, NEW list \in F!Lists, F!write(w, list)
      PROVE  TodoInv'
  <2>1. CASE F!fails
    BY <1>1, <2>1 DEF F!fails, TodoInv
  <2>2. CASE /\ F!allowed(list) /\ todo' = F!Without("cut") /\ UNCHANGED answer
             /\ writing' = [writing EXCEPT ![w] = F!List(list)]
    BY <1>1, <1>2, <2>2 DEF TodoInv
  <2>3. QED
    BY <1>5, <2>1, <2>2 DEF F!write
<1>6. ASSUME NEW w \in Writer, F!written(w) PROVE TodoInv'
  BY <1>1, <1>2, <1>3, <1>6 DEF F!written, F!Filled, TodoInv
<1>7. ASSUME NEW w \in Writer, F!broken_off(w) PROVE TodoInv'
  BY <1>1, <1>2, <1>3, <1>7 DEF F!broken_off, F!Filled, TodoInv
<1>8. QED
  BY <1>4, <1>5, <1>6, <1>7 DEF F!TodoNext

-----------------------------------------------------------------------------
(* files: the copies of a mark *)

\* A content is remembered for exactly the files a mark has, and it is the one copied.
FilesInv ==
    /\ DOMAIN first = UNION {{<<m, path>> : path \in DOMAIN snaps[m]} : m \in DOMAIN snaps}
    /\ \A m \in DOMAIN snaps : \A path \in DOMAIN snaps[m] : snaps[m][path] = first[<<m, path>>]

LEMMA InitFiles ==
    ASSUME F!FilesInit
    PROVE  FilesInv
BY DEF F!FilesInit, FilesInv, F!NoFiles

LEMMA KeptFiles ==
    ASSUME FilesInv
    PROVE  F!MarksKeepTheFirst
BY DEF FilesInv, F!MarksKeepTheFirst, F!Copied

\* What a call writes over is copied and remembered together, and a mark that the rotation
\* takes goes with what is remembered of it.
LEMMA SnapshotKeeps ==
    ASSUME FilesInv, NEW p, NEW path, F!Snapshot(p, path)
    PROVE  FilesInv'
<1> DEFINE m == F!Mark(p)
           skipped == disk[path] \in TooBig \cup {0}
           old == [k \in {k \in DOMAIN first : k[1] \in DOMAIN snaps'} |-> first[k]]
<1>1. /\ snaps' = IF skipped \/ F!Copied(m, path) THEN snaps ELSE F!takes_again(m, path)
      /\ first' = IF skipped \/ <<m, path>> \in DOMAIN old \/ m \notin DOMAIN snaps' THEN old
                  ELSE [k \in DOMAIN old \cup {<<m, path>>} |->
                          IF k = <<m, path>> THEN disk[path] ELSE old[k]]
  BY DEF F!Snapshot, F!remember, F!take, F!Restrict
<1> HIDE DEF m, skipped
<1>0. \A n, q : <<n, q>> \in DOMAIN first <=> n \in DOMAIN snaps /\ q \in DOMAIN snaps[n]
  BY DEF FilesInv
<1>2. CASE skipped \/ F!Copied(m, path)
  <2>1. snaps' = snaps
    BY <1>1, <1>2
  <2>2. DOMAIN old = DOMAIN first
    BY <2>1 DEF FilesInv
  <2>3. F!Copied(m, path) => <<m, path>> \in DOMAIN old
    BY <2>2 DEF FilesInv, F!Copied
  <2>4. first' = old
    BY <1>1, <1>2, <2>1, <2>3 DEF F!Copied
  <2>5. \A k \in DOMAIN first : first'[k] = first[k]
    BY <2>2, <2>4
  <2>6. DOMAIN first' = DOMAIN first
    BY <2>2, <2>4
  <2>7. QED
    BY <1>0, <2>1, <2>5, <2>6 DEF FilesInv
<1>3. CASE ~skipped /\ ~F!Copied(m, path)
  <2> DEFINE had == IF m \in DOMAIN snaps THEN snaps[m] ELSE F!NoFiles
             new == [q \in DOMAIN had \cup {path} |-> IF q = path THEN disk[path] ELSE had[q]]
             all == [n \in DOMAIN snaps \cup {m} |-> IF n = m THEN new ELSE snaps[n]]
  <2>1. PICK kept \in SUBSET (DOMAIN snaps \cup {m}) : snaps' = [n \in kept |-> all[n]]
    <3>1. F!newest(DOMAIN all) \in SUBSET (DOMAIN snaps \cup {m})
      BY DEF F!newest
    <3>2. F!takes_again(m, path) = [n \in F!newest(DOMAIN all) |-> all[n]]
      BY DEF F!takes_again, F!Restrict
    <3>3. QED
      BY <1>1, <1>3, <3>1, <3>2
  <2> HIDE DEF all
  <2>2. /\ DOMAIN snaps' = kept
        /\ \A n \in kept : n # m => n \in DOMAIN snaps /\ snaps'[n] = snaps[n]
        /\ m \in kept => snaps'[m] = new
    BY <2>1 DEF all
  <2>3. <<m, path>> \notin DOMAIN first
    BY <1>3 DEF FilesInv, F!Copied
  <2>4. \A n, q : <<n, q>> \in DOMAIN old <=> n \in DOMAIN snaps /\ n \in kept /\ q \in DOMAIN snaps[n]
    BY <1>0, <2>2
  <2>5. DOMAIN had = IF m \in DOMAIN snaps THEN DOMAIN snaps[m] ELSE {}
    BY DEF F!NoFiles
  <2>6. DOMAIN new = DOMAIN had \cup {path} /\ new[path] = disk[path]
        /\ \A q \in DOMAIN had : q # path => new[q] = snaps[m][q]
    BY <2>5
  <2> HIDE DEF new, had
  <2>7. \A k \in DOMAIN old : \E n, q : k = <<n, q>>
    BY DEF FilesInv
  <2>8. \A n, q : <<n, q>> \in DOMAIN old => old[<<n, q>>] = snaps[n][q]
    BY <2>4 DEF FilesInv
  <2> HIDE DEF old
  <2>9. CASE m \notin kept
    <3>1. first' = old
      BY <1>1, <2>2, <2>9
    <3>2. \A n \in kept : n # m
      BY <2>9
    <3>3. DOMAIN first' = UNION {{<<n, q>> : q \in DOMAIN snaps'[n]} : n \in DOMAIN snaps'}
      BY <2>2, <2>4, <2>7, <3>1, <3>2
    <3>4. \A n \in DOMAIN snaps' : \A q \in DOMAIN snaps'[n] : snaps'[n][q] = first'[<<n, q>>]
      <4> SUFFICES ASSUME NEW n \in DOMAIN snaps', NEW q \in DOMAIN snaps'[n]
                   PROVE  snaps'[n][q] = first'[<<n, q>>]
        OBVIOUS
      <4>1. n \in kept /\ n \in DOMAIN snaps /\ snaps'[n] = snaps[n]
        BY <2>2, <3>2
      <4>2. <<n, q>> \in DOMAIN old
        BY <2>4, <4>1
      <4>3. QED
        BY <2>8, <3>1, <4>1, <4>2
    <3>5. QED
      BY <3>3, <3>4 DEF FilesInv
  <2>10. CASE m \in kept
    <3>1. first' = [k \in DOMAIN old \cup {<<m, path>>} |-> IF k = <<m, path>> THEN disk[path] ELSE old[k]]
      BY <1>1, <1>3, <2>2, <2>3, <2>10 DEF old
    <3>2. /\ DOMAIN first' = DOMAIN old \cup {<<m, path>>}
          /\ first'[<<m, path>>] = disk[path]
          /\ \A k \in DOMAIN old : k # <<m, path>> => first'[k] = old[k]
      BY <3>1
    <3>3. \A n, q : <<n, q>> \in DOMAIN first' <=> n \in kept /\ q \in DOMAIN snaps'[n]
      BY <2>2, <2>4, <2>5, <2>6, <2>10, <3>2
    <3>4. DOMAIN first' = UNION {{<<n, q>> : q \in DOMAIN snaps'[n]} : n \in DOMAIN snaps'}
      BY <2>2, <2>7, <3>2, <3>3
    <3>5. \A n \in kept : \A q \in DOMAIN snaps'[n] : snaps'[n][q] = first'[<<n, q>>]
      <4> SUFFICES ASSUME NEW n \in kept, NEW q \in DOMAIN snaps'[n]
                   PROVE  snaps'[n][q] = first'[<<n, q>>]
        OBVIOUS
      <4>1. CASE n = m /\ q = path
        BY <2>2, <2>6, <3>2, <4>1
      <4>2. CASE ~(n = m /\ q = path)
        <5>1. n \in DOMAIN snaps /\ q \in DOMAIN snaps[n] /\ snaps'[n][q] = snaps[n][q]
          BY <2>2, <2>5, <2>6, <4>2
        <5>2. <<n, q>> \in DOMAIN old /\ <<n, q>> # <<m, path>>
          BY <2>4, <4>2, <5>1
        <5>3. QED
          BY <2>8, <3>2, <5>1, <5>2
      <4>3. QED
        BY <4>1, <4>2
    <3>6. QED
      BY <2>2, <3>4, <3>5 DEF FilesInv
  <2>11. QED
    BY <2>9, <2>10
<1>4. QED
  BY <1>2, <1>3

LEMMA StepFiles ==
    ASSUME FilesInv, F!FilesNext
    PROVE  FilesInv'
<1>1. ASSUME UNCHANGED <<snaps, first>> PROVE FilesInv'
  BY <1>1 DEF FilesInv
<1>2. ASSUME NEW p \in Process, F!edit_snapshot(p) \/ F!restore_takes(p)
             \/ \E path \in Path : \E c \in Content : F!files_write(p, path, c)
      PROVE  FilesInv'
  BY <1>2, SnapshotKeeps DEF F!edit_snapshot, F!restore_takes, F!files_write
<1>3. ASSUME NEW p \in Process,
             \/ F!edit_call(p) \/ F!writes(p) \/ F!restore_copies(p) \/ F!killed(p)
             \/ \E path \in Path : F!files_edit(p, path)
             \/ \E m \in DOMAIN snaps, only \in {Path} \cup {{path} : path \in Path} : F!restore(p, m, only)
      PROVE  FilesInv'
  BY <1>1, <1>3 DEF F!edit_call, F!writes, F!restore_copies, F!killed, F!files_edit, F!restore
<1>4. CASE F!tick
  BY <1>1, <1>4 DEF F!tick
<1>5. QED
  BY <1>2, <1>3, <1>4 DEF F!FilesNext

-----------------------------------------------------------------------------
(* terminals: the ring of a background process *)

\* A ring that has dropped nothing holds all that the process wrote and the reader moved.
RingRight(p) ==
    /\ p = [running |-> p.running, piped |-> p.piped, wrote |-> p.wrote, pushed |-> p.pushed,
            data |-> p.data, truncated |-> p.truncated]
    /\ p.running \in BOOLEAN /\ p.piped \in BOOLEAN /\ p.truncated \in BOOLEAN
    /\ p.wrote \in Nat /\ p.pushed \in Nat
    /\ p.truncated \/ p.data = B!Prefix(p.pushed)

\* An entry that ended with its readers does not change any more.
Settled(p) == ~p.running /\ ~p.piped /\ p.pushed = p.wrote

PageRight ==
    page.id \in B!Registered /\ ~page.truncated =>
      /\ \A k \in DOMAIN page.stdout : page.stdout[k] = page.offset + k
      /\ ~page.running /\ page.waited =>
           /\ Settled(procs[page.id])
           /\ page.offset <= procs[page.id].wrote =>
                page.offset + Len(page.stdout) = procs[page.id].wrote

TerminalInv ==
    /\ counter \in Nat /\ DOMAIN procs = 1..counter /\ procs = [i \in 1..counter |-> procs[i]]
    /\ \A i \in B!Registered : RingRight(procs[i])
    /\ page.id \in 0..counter /\ PageRight

LEMMA InitTerminal ==
    ASSUME B!TerminalInit
    PROVE  TerminalInv
<1>1. DOMAIN procs = {} /\ counter = 0 /\ page.id = 0 /\ procs = <<>>
  BY DEF B!TerminalInit, B!NoPage
<1>2. B!Registered = {}
  BY <1>1 DEF B!Registered
<1>3. procs = [i \in 1..0 |-> procs[i]]
  BY <1>1
<1>4. QED
  BY <1>1, <1>2, <1>3 DEF TerminalInv, PageRight

LEMMA PrefixGrows ==
    ASSUME NEW a \in Nat, NEW n \in Nat
    PROVE  B!Prefix(a) \o [k \in 1..n |-> a + k] = B!Prefix(a + n)
<1>1. B!Prefix(a) \in Seq(Nat) /\ Len(B!Prefix(a)) = a /\ [k \in 1..n |-> a + k] \in Seq(Nat)
      /\ Len([k \in 1..n |-> a + k]) = n /\ B!Prefix(a + n) \in Seq(Nat) /\ Len(B!Prefix(a + n)) = a + n
  BY DEF B!Prefix
<1> DEFINE all == B!Prefix(a) \o [k \in 1..n |-> a + k]
<1>2. /\ all \in Seq(Nat) /\ Len(all) = a + n
      /\ \A k \in 1..a + n : all[k] = IF k <= a THEN B!Prefix(a)[k] ELSE [j \in 1..n |-> a + j][k - a]
  <2> DEFINE s == B!Prefix(a)
             t == [k \in 1..n |-> a + k]
  <2>1. s \in Seq(Nat) /\ Len(s) = a /\ t \in Seq(Nat) /\ Len(t) = n
    BY <1>1
  <2> HIDE DEF s, t
  <2>2. /\ s \o t \in Seq(Nat) /\ Len(s \o t) = a + n
        /\ \A k \in 1..a + n : (s \o t)[k] = IF k <= a THEN s[k] ELSE t[k - a]
    BY <2>1, ConcatProperties
  <2>3. QED
    BY <2>2 DEF s, t
<1>3. ASSUME NEW k \in 1..a + n PROVE all[k] = B!Prefix(a + n)[k]
  BY <1>2 DEF B!Prefix
<1>4. QED
  BY <1>1, <1>2, <1>3, SeqEqual

\* Of a ring that has dropped nothing a page is the rest from its offset on.
IsRest(rest, offset, n) ==
    /\ \A k \in DOMAIN rest : rest[k] = offset + k
    /\ offset <= n => offset + Len(rest) = n

LEMMA TailOfPrefix ==
    ASSUME NEW n \in Nat, NEW offset \in Nat
    PROVE  IsRest(B!tail_from(B!Prefix(n), offset), offset, n)
<1>1. B!Prefix(n) \in Seq(Nat) /\ Len(B!Prefix(n)) = n
  BY DEF B!Prefix
<1> DEFINE s == B!Prefix(n)
           after == SubSeq(s, offset + 1, n)
<1>2. \A k \in 1..n : s[k] = k
  BY DEF B!Prefix
<1> HIDE DEF s
<1>3. /\ after \in Seq(Nat)
      /\ Len(after) = IF offset + 1 <= n THEN n - (offset + 1) + 1 ELSE 0
      /\ \A k \in 1..n - (offset + 1) + 1 : after[k] = s[offset + 1 + k - 1]
  BY <1>2, SubSeqProperties
<1>4. DOMAIN after = 1..Len(after)
  BY <1>3
<1> HIDE DEF after
<1>5. \A k \in DOMAIN after : after[k] = offset + k
  BY <1>2, <1>3, <1>4
<1>6. B!tail_from(B!Prefix(n), offset) = after
  BY <1>1 DEF B!tail_from, after, s
<1>7. QED
  BY <1>3, <1>5, <1>6 DEF IsRest

\* One entry changes, and not the one whose last page is final.
LEMMA ChangeKeeps ==
    ASSUME TerminalInv, NEW i \in B!Registered, NEW p, RingRight(p), B!Change(i, p),
           ~Settled(procs[i]), UNCHANGED <<counter, page>>
    PROVE  TerminalInv'
<1>1. i \in 1..counter /\ procs' = [procs EXCEPT ![i] = p]
  BY DEF B!Registered, B!Change, TerminalInv
<1>2. /\ DOMAIN procs' = 1..counter /\ procs'[i] = p
      /\ \A j \in 1..counter : j # i => procs'[j] = procs[j]
      /\ procs' = [j \in 1..counter |-> procs'[j]]
  BY <1>1 DEF TerminalInv
<1>3. \A j \in B!Registered' : j \in B!Registered /\ RingRight(procs'[j])
  BY <1>1, <1>2 DEF B!Registered, TerminalInv
<1>4. PageRight'
  <2> SUFFICES ASSUME page.id \in B!Registered', ~page.truncated
               PROVE  PageRight!2'
    BY DEF PageRight
  <2>1. page.id \in B!Registered
    BY <1>3
  <2>2. page.id # i => procs'[page.id] = procs[page.id]
    BY <1>2, <2>1 DEF B!Registered, TerminalInv
  <2>3. QED
    BY <2>1, <2>2 DEF PageRight, TerminalInv
<1>5. QED
  BY <1>2, <1>3, <1>4 DEF TerminalInv

LEMMA PushKeeps ==
    ASSUME NEW p, RingRight(p), NEW n \in 1..p.wrote - p.pushed,
           NEW q, q = B!push_capped(p, [k \in 1..n |-> p.pushed + k])
    PROVE  RingRight(q)
<1> DEFINE chunk == [k \in 1..n |-> p.pushed + k]
           all == p.data \o chunk
           over == Len(all) > Cap \/ Len(chunk) >= Cap
           data == IF Len(all) > Cap THEN SubSeq(all, Len(all) - Cap + 1, Len(all)) ELSE all
<1>1. q = [p EXCEPT !.data = data, !.truncated = @ \/ over, !.pushed = @ + Len(chunk)]
  BY DEF B!push_capped
<1>2. Len(chunk) = n /\ over \in BOOLEAN
  OBVIOUS
<1>3. ~(p.truncated \/ over) => data = B!Prefix(p.pushed + n)
  <2> SUFFICES ASSUME ~p.truncated, ~over PROVE data = B!Prefix(p.pushed + n)
    OBVIOUS
  <2>1. p.data = B!Prefix(p.pushed) /\ p.pushed \in Nat /\ n \in Nat
    BY DEF RingRight
  <2>2. data = all
    OBVIOUS
  <2>3. data = B!Prefix(p.pushed) \o [k \in 1..n |-> p.pushed + k]
    BY <2>1, <2>2 DEF all, chunk
  <2> HIDE DEF data
  <2>4. QED
    BY <2>1, <2>3, PrefixGrows
<1> HIDE DEF chunk, all, over, data
<1>4. q = [running |-> p.running, piped |-> p.piped, wrote |-> p.wrote, pushed |-> p.pushed + n,
           data |-> data, truncated |-> p.truncated \/ over]
  BY <1>1, <1>2 DEF RingRight
<1>5. QED
  BY <1>2, <1>3, <1>4 DEF RingRight

\* An entry with one of its two flags cleared.
LEMMA FlagsKeep ==
    ASSUME NEW p, RingRight(p), NEW off, off = FALSE
    PROVE  RingRight([p EXCEPT !.running = off]) /\ RingRight([p EXCEPT !.piped = off])
<1>1. [p EXCEPT !.running = off] =
        [running |-> off, piped |-> p.piped, wrote |-> p.wrote, pushed |-> p.pushed,
         data |-> p.data, truncated |-> p.truncated]
  BY DEF RingRight
<1>2. [p EXCEPT !.piped = off] =
        [running |-> p.running, piped |-> off, wrote |-> p.wrote, pushed |-> p.pushed,
         data |-> p.data, truncated |-> p.truncated]
  BY DEF RingRight
<1>3. QED
  BY <1>1, <1>2 DEF RingRight

LEMMA StepTerminal ==
    ASSUME TerminalInv, MaxOut \in Nat, B!TerminalNext
    PROVE  TerminalInv'
<1> USE DEF B!Registered
<1>1. CASE B!start
  <2>1. CASE UNCHANGED <<counter, procs, page>>
    BY <2>1 DEF TerminalInv, PageRight
  <2>2. CASE \E kept \in SUBSET B!Registered :
               /\ counter' = counter + 1 /\ page' = page
               /\ procs' = Append([i \in DOMAIN procs |-> IF i \in kept THEN procs[i] ELSE <<>>],
                                  B!Spawned)
    <3>1. PICK kept \in SUBSET B!Registered :
               /\ counter' = counter + 1 /\ page' = page
               /\ procs' = Append([i \in 1..counter |-> IF i \in kept THEN procs[i] ELSE <<>>],
                                  B!Spawned)
      BY <2>2 DEF TerminalInv
    <3>2. counter \in Nat
      BY DEF TerminalInv
    <3>3. procs' = [i \in 1..counter + 1 |->
                     IF i = counter + 1 THEN B!Spawned ELSE IF i \in kept THEN procs[i] ELSE <<>>]
      BY <3>1, <3>2
    <3>4. RingRight(B!Spawned)
      BY DEF B!Spawned, RingRight, B!Prefix
    <3>5. \A i \in B!Registered' : i = counter + 1 \/ (i \in B!Registered /\ procs'[i] = procs[i])
      BY <3>2, <3>3
    <3>6. \A i \in B!Registered' : RingRight(procs'[i])
      BY <3>2, <3>3, <3>4, <3>5 DEF TerminalInv
    <3>7. page.id \in B!Registered' => page.id \in B!Registered /\ procs'[page.id] = procs[page.id]
      <4>1. page.id \in 0..counter
        BY DEF TerminalInv
      <4>2. page.id # counter + 1
        BY <3>2, <4>1
      <4>3. QED
        BY <3>5, <4>2
    <3>8. PageRight'
      BY <3>1, <3>7 DEF TerminalInv, PageRight
    <3>9. procs' = [i \in 1..counter' |-> procs'[i]] /\ DOMAIN procs' = 1..counter'
      BY <3>1, <3>3
    <3>10. QED
      BY <3>1, <3>2, <3>6, <3>8, <3>9 DEF TerminalInv
  <2>3. QED
    BY <1>1, <2>1, <2>2 DEF B!start, B!Finished
<1>2. ASSUME NEW i, B!outputs(i) PROVE TerminalInv'
  <2>1. RingRight(procs[i])
    BY <1>2 DEF B!outputs, TerminalInv
  <2>2. RingRight([procs[i] EXCEPT !.wrote = @ + 1])
    <3>1. [procs[i] EXCEPT !.wrote = @ + 1] =
          [running |-> procs[i].running, piped |-> procs[i].piped, wrote |-> procs[i].wrote + 1,
           pushed |-> procs[i].pushed, data |-> procs[i].data, truncated |-> procs[i].truncated]
      BY <2>1 DEF RingRight
    <3>2. QED
      BY <2>1, <3>1 DEF RingRight
  <2>3. QED
    BY <1>2, <2>2, ChangeKeeps DEF B!outputs, Settled
<1>3. ASSUME NEW i, B!ends(i) PROVE TerminalInv'
  <2>1. RingRight(procs[i])
    BY <1>3 DEF B!ends, TerminalInv
  <2>2. RingRight([procs[i] EXCEPT !.running = FALSE])
    BY <2>1, FlagsKeep
  <2>3. QED
    BY <1>3, <2>2, ChangeKeeps DEF B!ends, Settled
<1>4. ASSUME NEW i, B!closes(i) PROVE TerminalInv'
  <2>1. RingRight(procs[i])
    BY <1>4 DEF B!closes, TerminalInv
  <2>2. RingRight([procs[i] EXCEPT !.piped = FALSE])
    BY <2>1, FlagsKeep
  <2>3. QED
    BY <1>4, <2>2, ChangeKeeps DEF B!closes, Settled
<1>5. ASSUME NEW i, B!reads_pipe(i) PROVE TerminalInv'
  <2>1. PICK n \in 1..procs[i].wrote - procs[i].pushed :
          B!Change(i, B!push_capped(procs[i], [k \in 1..n |-> procs[i].pushed + k]))
    BY <1>5 DEF B!reads_pipe
  <2>2. RingRight(procs[i]) /\ ~Settled(procs[i]) /\ i \in B!Registered /\ UNCHANGED <<counter, page>>
    BY <1>5 DEF B!reads_pipe, TerminalInv, Settled, RingRight
  <2>3. RingRight(B!push_capped(procs[i], [k \in 1..n |-> procs[i].pushed + k]))
    BY <2>2, PushKeeps
  <2>4. QED
    BY <2>1, <2>2, <2>3, ChangeKeeps
<1>6. ASSUME NEW i, NEW offset \in 0..MaxOut, B!output(i, offset) PROVE TerminalInv'
  <2>1. PICK waited \in BOOLEAN :
          /\ B!answers(i, offset, waited)
          /\ ~procs[i].running /\ waited => B!Drained(procs[i])
    BY <1>6 DEF B!output, B!Finished
  <2>2. /\ i \in DOMAIN procs /\ procs[i] # <<>> /\ UNCHANGED <<counter, procs>>
        /\ page'.id = i /\ page'.offset = offset /\ page'.running = procs[i].running
        /\ page'.stdout = B!tail_from(procs[i].data, offset)
        /\ page'.truncated = procs[i].truncated /\ page'.waited = waited
    BY <2>1 DEF B!answers
  <2>3. RingRight(procs[i]) /\ i \in 0..counter
    BY <2>2 DEF TerminalInv
  <2>4. PageRight'
    <3> SUFFICES ASSUME ~procs[i].truncated
                 PROVE  /\ \A k \in DOMAIN page'.stdout : page'.stdout[k] = offset + k
                        /\ ~procs[i].running /\ waited =>
                             /\ Settled(procs[i])
                             /\ offset <= procs[i].wrote => offset + Len(page'.stdout) = procs[i].wrote
      BY <2>2 DEF PageRight
    <3>1. page'.stdout = B!tail_from(B!Prefix(procs[i].pushed), offset) /\ procs[i].pushed \in Nat
      BY <2>2, <2>3 DEF RingRight
    <3>2. offset \in Nat
      OBVIOUS
    <3>3. IsRest(page'.stdout, offset, procs[i].pushed)
      BY <3>1, <3>2, TailOfPrefix
    <3>4. ~procs[i].running /\ waited => Settled(procs[i])
      BY <2>1 DEF B!Drained, Settled
    <3>5. Settled(procs[i]) => procs[i].pushed = procs[i].wrote
      BY DEF Settled
    <3>6. QED
      BY <3>3, <3>4, <3>5 DEF IsRest
  <2>5. QED
    BY <2>2, <2>3, <2>4 DEF TerminalInv
<1>7. QED
  BY <1>1, <1>2, <1>3, <1>4, <1>5, <1>6 DEF B!TerminalNext

LEMMA PageFromInv ==
    ASSUME TerminalInv
    PROVE  B!PageIsExact
BY DEF TerminalInv, PageRight, B!PageIsExact

-----------------------------------------------------------------------------
(* transfer: an instance on its way to another journal *)

Event == {"here", "there", "altered"} \X Nat

Pure(events) == \A k \in 1..Len(events) : events[k][1] # "altered"
Numbered(events, from) == \A k \in 1..Len(events) : events[k][2] = from + k
Begins(s, t) == Len(s) <= Len(t) /\ \A k \in 1..Len(s) : s[k] = t[k]

\* A name no import has shared: it begins with what was imported, and is nothing but that
\* while the one importer still writes.
OwnName(n) ==
    /\ Begins(imported[n], journal[n])
    /\ T!Writing(n) => imported[n] = journal[n]
    /\ \A i, j \in Importer :
         (importer[i].at = "writing" /\ importer[j].at = "writing"
            /\ importer[i].to = n /\ importer[j].to = n) => i = j

ImporterRight(i) ==
    /\ importer[i] = [at |-> importer[i].at, to |-> importer[i].to, left |-> importer[i].left]
    /\ importer[i].at \in {"idle", "writing"}
    /\ importer[i].at = "writing" =>
         /\ importer[i].to \in Names
         /\ importer[i].left \in Seq(Event) /\ Pure(importer[i].left)
         /\ shared = {} => Numbered(importer[i].left, Len(journal[importer[i].to]))

EnvelopeRight ==
    /\ envelope = [is |-> envelope.is, instance |-> envelope.instance, events |-> envelope.events,
                   count |-> envelope.count, sha256 |-> envelope.sha256]
    /\ envelope.sha256 \in Seq(Event) /\ Pure(envelope.sha256)
    /\ shared = {} => Numbered(envelope.sha256, 0)

JournalRight(n) == Pure(journal[n]) /\ (shared = {} => Numbered(journal[n], 0))

TransferInv ==
    /\ journal \in [Names -> Seq(Event)] /\ imported \in [Names -> Seq(Event)]
    /\ importer = [i \in Importer |-> importer[i]]
    /\ shared \subseteq Names
    /\ EnvelopeRight
    /\ \A i \in Importer : ImporterRight(i)
    /\ \A n \in Names : JournalRight(n)
    /\ \A n \in Names \ shared : OwnName(n)

LEMMA InitTransfer ==
    ASSUME T!TransferInit
    PROVE  TransferInv
<1>1. PICK had \in {<<>>, <<<<"here", 1>>>>} :
         journal = [n \in Names |-> IF n = T!Original THEN had ELSE <<>>]
  BY DEF T!TransferInit
<1>2. had \in Seq(Event) /\ Pure(had) /\ Numbered(had, 0)
  <2>1. CASE had = <<>>
    BY <2>1, EmptySeq DEF Pure, Numbered
  <2>2. CASE had = <<<<"here", 1>>>>
    BY <2>2 DEF Event, Pure, Numbered
  <2>3. QED
    BY <2>1, <2>2
<1>3. <<>> \in Seq(Event) /\ Pure(<<>>) /\ Numbered(<<>>, 0) /\ Len(<<>>) = 0
  BY DEF Pure, Numbered
<1>4. \A n \in Names : journal[n] \in Seq(Event) /\ Pure(journal[n]) /\ Numbered(journal[n], 0)
  BY <1>1, <1>2, <1>3
<1>5. journal \in [Names -> Seq(Event)] /\ imported \in [Names -> Seq(Event)] /\ shared = {}
  BY <1>1, <1>2, <1>3 DEF T!TransferInit
<1>6. EnvelopeRight
  <2>1. CASE envelope = T!NoEnvelope
    BY <2>1, <1>3 DEF T!NoEnvelope, EnvelopeRight
  <2>2. CASE envelope = T!Envelope(T!Original, <<<<"there", 1>>, <<"there", 2>>>>)
    <3> DEFINE two == <<<<"there", 1>>, <<"there", 2>>>>
    <3>1. two \in Seq(Event) /\ Pure(two) /\ Numbered(two, 0)
      BY DEF Event, Pure, Numbered
    <3> HIDE DEF two
    <3>2. envelope = [is |-> "berimor-journal", instance |-> T!Original, events |-> two,
                      count |-> Len(two), sha256 |-> two]
      BY <2>2 DEF T!Envelope, two
    <3>3. QED
      BY <3>1, <3>2 DEF EnvelopeRight
  <2>3. QED
    BY <2>1, <2>2 DEF T!TransferInit
<1>7. importer = [i \in Importer |-> T!Idle]
  BY DEF T!TransferInit
<1>8. \A i \in Importer : ImporterRight(i) /\ importer[i].at = "idle"
  BY <1>7 DEF T!Idle, ImporterRight
<1>9. \A n \in Names : OwnName(n)
  BY <1>3, <1>5, <1>8 DEF OwnName, Begins, T!Writing, T!TransferInit
<1>10. QED
  BY <1>4, <1>5, <1>6, <1>7, <1>8, <1>9 DEF TransferInv, JournalRight

LEMMA AppendRight ==
    ASSUME NEW s \in Seq(Event), NEW e \in Event
    PROVE  /\ Append(s, e) \in Seq(Event) /\ Len(Append(s, e)) = Len(s) + 1
           /\ Append(s, e)[Len(s) + 1] = e
           /\ \A k \in 1..Len(s) : Append(s, e)[k] = s[k]
BY AppendProperties, LenProperties

\* The events of one name grow by one.
LEMMA JournalGrows ==
    ASSUME TransferInv, NEW n \in Names, NEW e \in Event, e[1] # "altered",
           journal' = [journal EXCEPT ![n] = Append(@, e)],
           shared' = {} => shared = {} /\ e[2] = Len(journal[n]) + 1
    PROVE  /\ journal' \in [Names -> Seq(Event)] /\ \A m \in Names : JournalRight(m)'
           /\ Len(journal'[n]) = Len(journal[n]) + 1
<1>1. /\ journal[n] \in Seq(Event) /\ journal'[n] = Append(journal[n], e)
      /\ \A m \in Names : m # n => journal'[m] = journal[m]
      /\ Len(journal[n]) \in Nat
  BY LenProperties DEF TransferInv
<1>2. journal' \in [Names -> Seq(Event)] /\ Len(journal'[n]) = Len(journal[n]) + 1
  BY <1>1, AppendRight DEF TransferInv
<1>3. JournalRight(n)'
  <2>1. \A k \in 1..Len(journal'[n]) :
           journal'[n][k] = IF k = Len(journal[n]) + 1 THEN e ELSE journal[n][k]
    BY <1>1, <1>2, AppendRight
  <2>2. \A k \in 1..Len(journal'[n]) : k # Len(journal[n]) + 1 => k \in 1..Len(journal[n])
    BY <1>1, <1>2
  <2>3. Pure(journal[n]) /\ (shared' = {} => Numbered(journal[n], 0))
    BY DEF TransferInv, JournalRight
  <2>4. Pure(journal'[n])
    BY <2>1, <2>2, <2>3 DEF Pure
  <2>5. shared' = {} => Numbered(journal'[n], 0)
    BY <1>1, <2>1, <2>2, <2>3 DEF Numbered
  <2>6. QED
    BY <2>4, <2>5 DEF JournalRight
<1>4. \A m \in Names : m # n => JournalRight(m)'
  BY <1>1 DEF TransferInv, JournalRight
<1>5. QED
  BY <1>2, <1>3, <1>4

LEMMA StepEngine ==
    ASSUME TransferInv, NEW n \in Names, T!engine_appends(n)
    PROVE  TransferInv'
<1> DEFINE e == <<"here", Len(journal[n]) + 1>>
<1>1. /\ journal[n] \in Seq(Event) /\ Len(journal[n]) \in Nat
      /\ journal' = [journal EXCEPT ![n] = Append(@, e)]
      /\ UNCHANGED <<envelope, importer, imported, imports>>
      /\ shared' = IF T!Writing(n) THEN shared \cup {n} ELSE shared
  BY LenProperties DEF T!engine_appends, TransferInv
<1>2. e \in Event /\ e[1] # "altered" /\ e[2] = Len(journal[n]) + 1
  BY <1>1 DEF Event
<1> HIDE DEF e
<1>3. /\ journal' \in [Names -> Seq(Event)] /\ \A m \in Names : JournalRight(m)'
      /\ journal'[n] = Append(journal[n], e)
      /\ \A m \in Names : m # n => journal'[m] = journal[m]
  BY <1>1, <1>2, JournalGrows DEF TransferInv
<1>4. ASSUME NEW i \in Importer PROVE ImporterRight(i)'
  BY <1>1, <1>3 DEF TransferInv, ImporterRight, T!Writing
<1>5. EnvelopeRight'
  BY <1>1 DEF TransferInv, EnvelopeRight
<1>6. ASSUME NEW m \in Names \ shared' PROVE OwnName(m)'
  <2>1. CASE m = n
    <3>1. ~T!Writing(n) /\ OwnName(n)
      BY <1>1, <2>1, <1>6 DEF TransferInv
    <3>2. Begins(imported[n], journal'[n])
      BY <1>1, <1>2, <1>3, <3>1, AppendRight, LenProperties DEF OwnName, Begins, TransferInv
    <3>3. QED
      BY <1>1, <2>1, <3>1, <3>2 DEF OwnName, T!Writing
  <2>2. CASE m # n
    BY <1>1, <1>3, <1>6, <2>2 DEF TransferInv, OwnName, T!Writing
  <2>3. QED
    BY <2>1, <2>2
<1>7. QED
  BY <1>1, <1>3, <1>4, <1>5, <1>6 DEF TransferInv

LEMMA StepAppend ==
    ASSUME TransferInv, NEW i \in Importer, T!append_preserved(i)
    PROVE  TransferInv'
<1> DEFINE n == importer[i].to
           q == importer[i].left
           e == Head(q)
<1>1. /\ importer[i].at = "writing" /\ q # <<>>
      /\ journal' = [journal EXCEPT ![n] = Append(@, e)]
      /\ imported' = [imported EXCEPT ![n] = Append(@, e)]
      /\ importer' = [importer EXCEPT ![i].left = Tail(@)]
      /\ UNCHANGED <<envelope, imports, shared>>
  BY DEF T!append_preserved
<1>2. /\ n \in Names /\ q \in Seq(Event) /\ Pure(q)
      /\ shared = {} => Numbered(q, Len(journal[n]))
  BY <1>1 DEF TransferInv, ImporterRight
<1>3. /\ journal[n] \in Seq(Event) /\ Len(journal[n]) \in Nat
      /\ imported[n] \in Seq(Event) /\ Len(imported[n]) \in Nat
  BY <1>2, LenProperties DEF TransferInv
<1>4. /\ Len(q) \in Nat /\ Len(q) > 0 /\ e = q[1] /\ e \in Event
      /\ Tail(q) \in Seq(Event) /\ Len(Tail(q)) = Len(q) - 1
      /\ \A k \in 1..Len(q) - 1 : Tail(q)[k] = q[k + 1]
  BY <1>1, <1>2, HeadTailProperties, EmptySeq, LenProperties
<1> HIDE DEF e, q
<1>5. e[1] # "altered" /\ (shared = {} => e[2] = Len(journal[n]) + 1)
  BY <1>2, <1>4 DEF Pure, Numbered
<1> HIDE DEF n
<1>6. /\ journal' \in [Names -> Seq(Event)] /\ \A m \in Names : JournalRight(m)'
      /\ Len(journal'[n]) = Len(journal[n]) + 1
  BY <1>1, <1>2, <1>4, <1>5, JournalGrows
<1>7. imported' \in [Names -> Seq(Event)]
  BY <1>1, <1>2, <1>3, <1>4, AppendRight DEF TransferInv
<1>8. /\ journal'[n] = Append(journal[n], e) /\ imported'[n] = Append(imported[n], e)
      /\ \A m \in Names : m # n => journal'[m] = journal[m] /\ imported'[m] = imported[m]
  BY <1>1, <1>2 DEF TransferInv
<1>9. /\ importer' = [j \in Importer |-> importer'[j]]
      /\ importer'[i] = [at |-> "writing", to |-> n, left |-> Tail(q)]
      /\ \A j \in Importer : j # i => importer'[j] = importer[j]
  <2>1. importer[i] = [at |-> "writing", to |-> n, left |-> q]
    BY <1>1 DEF TransferInv, ImporterRight, n, q
  <2>2. /\ importer' = [j \in Importer |-> importer'[j]]
        /\ importer'[i] = [importer[i] EXCEPT !.left = Tail(importer[i].left)]
        /\ \A j \in Importer : j # i => importer'[j] = importer[j]
    BY <1>1 DEF TransferInv
  <2>3. importer'[i] = [[at |-> "writing", to |-> n, left |-> q] EXCEPT !.left = Tail(q)]
    BY <2>1, <2>2 DEF q
  <2>4. QED
    BY <2>2, <2>3
<1>10. ImporterRight(i)'
  <2>1. Pure(Tail(q))
    BY <1>2, <1>4 DEF Pure
  <2>2. shared = {} => Numbered(Tail(q), Len(journal[n]) + 1)
    <3> SUFFICES ASSUME shared = {}, NEW k \in 1..Len(Tail(q))
                 PROVE  Tail(q)[k][2] = Len(journal[n]) + 1 + k
      BY DEF Numbered
    <3>1. PICK from \in Nat : from = Len(journal[n])
      BY <1>3
    <3>2. k \in Nat /\ k + 1 \in 1..Len(q) /\ Tail(q)[k] = q[k + 1]
      BY <1>4
    <3>3. Numbered(q, from)
      BY <1>2, <3>1
    <3>4. q[k + 1][2] = from + (k + 1)
      BY <3>2, <3>3 DEF Numbered
    <3>5. from + (k + 1) = from + 1 + k
      BY <3>2
    <3>6. QED
      BY <3>1, <3>2, <3>4, <3>5
  <2>3. /\ importer'[i].at = "writing" /\ importer'[i].to = n /\ importer'[i].left = Tail(q)
        /\ importer'[i] = [at |-> importer'[i].at, to |-> importer'[i].to, left |-> importer'[i].left]
    BY <1>9
  <2>4. shared' = {} => Numbered(importer'[i].left, Len(journal'[importer'[i].to]))
    BY <1>1, <1>6, <2>2, <2>3
  <2>5. n \in Names /\ Tail(q) \in Seq(Event)
    BY <1>2, <1>4
  <2>6. QED
    BY <2>1, <2>3, <2>4, <2>5 DEF ImporterRight
<1>11. ASSUME NEW j \in Importer, j # i PROVE ImporterRight(j)'
  <2>1. importer'[j] = importer[j] /\ ImporterRight(j) /\ shared' = shared
    BY <1>1, <1>9, <1>11 DEF TransferInv
  <2>2. CASE importer[j].at = "writing" /\ shared = {}
    <3>1. OwnName(n)
      BY <1>2, <2>2 DEF TransferInv
    <3>2. importer[j].to # n
      BY <1>1, <1>11, <2>2, <3>1 DEF OwnName, n
    <3>3. journal'[importer[j].to] = journal[importer[j].to]
      BY <1>8, <2>1, <2>2, <3>2 DEF ImporterRight
    <3>4. QED
      BY <2>1, <3>3 DEF ImporterRight
  <2>3. CASE ~(importer[j].at = "writing" /\ shared = {})
    BY <2>1, <2>3 DEF ImporterRight
  <2>4. QED
    BY <2>2, <2>3
<1>12. ASSUME NEW m \in Names \ shared' PROVE OwnName(m)'
  <2>1. OwnName(m) /\ \A j \in Importer : importer'[j].at = importer[j].at /\ importer'[j].to = importer[j].to
    <3>1. OwnName(m)
      BY <1>1, <1>12 DEF TransferInv
    <3>2. importer'[i].at = importer[i].at /\ importer'[i].to = importer[i].to
      BY <1>1, <1>9 DEF n
    <3>3. QED
      BY <1>9, <3>1, <3>2
  <2>2. T!Writing(m)' <=> T!Writing(m)
    BY <2>1 DEF T!Writing
  <2>3. CASE m = n
    <3>1. imported[n] = journal[n]
      BY <1>1, <2>1, <2>3 DEF OwnName, T!Writing, n
    <3>2. imported'[n] = journal'[n]
      BY <1>8, <3>1
    <3>3. Begins(imported'[n], journal'[n])
      BY <1>6, <1>3, <3>2 DEF Begins
    <3>4. QED
      BY <2>1, <2>3, <3>2, <3>3 DEF OwnName
  <2>4. CASE m # n
    BY <1>8, <1>12, <2>1, <2>2, <2>4 DEF OwnName
  <2>5. QED
    BY <2>3, <2>4
<1>13. EnvelopeRight'
  BY <1>1 DEF TransferInv, EnvelopeRight
<1>14. QED
  BY <1>1, <1>6, <1>7, <1>9, <1>10, <1>11, <1>12, <1>13 DEF TransferInv

LEMMA StepImport ==
    ASSUME TransferInv, NEW i \in Importer, T!import(i)
    PROVE  TransferInv'
<1>1. PICK n \in Names :
        /\ importer' = [importer EXCEPT ![i] = [at |-> "writing", to |-> n, left |-> envelope.events]]
        /\ shared' = IF journal[n] # <<>> \/ T!Writing(n) THEN shared \cup {n} ELSE shared
  BY DEF T!import
<1>2. importer[i].at = "idle" /\ UNCHANGED <<journal, envelope, imported>>
  BY DEF T!import, T!Idle
<1>3. envelope.events = envelope.sha256
  BY DEF T!import, T!intact
<1>4. /\ importer' = [j \in Importer |-> importer'[j]]
      /\ importer'[i] = [at |-> "writing", to |-> n, left |-> envelope.sha256]
      /\ \A j \in Importer : j # i => importer'[j] = importer[j]
  BY <1>1, <1>3 DEF TransferInv
<1>5. shared \subseteq shared' /\ shared' \subseteq Names
  BY <1>1 DEF TransferInv
<1>6. ImporterRight(i)'
  <2>1. shared' = {} => Len(journal[n]) = 0
    BY <1>1
  <2>2. QED
    BY <1>1, <1>2, <1>4, <1>5, <2>1 DEF ImporterRight, TransferInv, EnvelopeRight
<1>7. ASSUME NEW j \in Importer, j # i PROVE ImporterRight(j)'
  BY <1>2, <1>4, <1>5, <1>7 DEF ImporterRight, TransferInv
<1>8. EnvelopeRight' /\ \A m \in Names : JournalRight(m)'
  BY <1>2, <1>5 DEF EnvelopeRight, JournalRight, TransferInv
<1>9. ASSUME NEW m \in Names \ shared' PROVE OwnName(m)'
  <2>1. OwnName(m)
    BY <1>5, <1>9 DEF TransferInv
  <2>2. CASE m = n
    <3>1. journal[n] = <<>> /\ ~T!Writing(n)
      BY <1>1, <1>9, <2>2
    <3>2. imported[n] \in Seq(Event) /\ Len(imported[n]) = 0
      BY <2>1, <2>2, <3>1, LenProperties DEF OwnName, Begins, TransferInv
    <3>3. imported[n] = journal[n]
      BY <3>1, <3>2, EmptySeq
    <3>4. \A j \in Importer : importer'[j].at = "writing" /\ importer'[j].to = n => j = i
      BY <1>4, <3>1 DEF T!Writing
    <3>5. QED
      BY <1>2, <2>1, <2>2, <3>3, <3>4 DEF OwnName
  <2>3. CASE m # n
    <3>1. \A j \in Importer : importer'[j].at = "writing" /\ importer'[j].to = m =>
                                importer[j].at = "writing" /\ importer[j].to = m
      BY <1>4, <2>3
    <3>2. T!Writing(m)' => T!Writing(m)
      BY <3>1 DEF T!Writing
    <3>3. QED
      BY <1>2, <2>1, <3>1, <3>2 DEF OwnName
  <2>4. QED
    BY <2>2, <2>3
<1>10. QED
  BY <1>2, <1>4, <1>5, <1>6, <1>7, <1>8, <1>9 DEF TransferInv

LEMMA StepStops ==
    ASSUME TransferInv, NEW i \in Importer, T!stops(i)
    PROVE  TransferInv'
<1>1. /\ importer' = [importer EXCEPT ![i] = T!Idle]
      /\ UNCHANGED <<journal, envelope, imported, imports, shared>>
  BY DEF T!stops
<1>2. /\ importer' = [j \in Importer |-> importer'[j]] /\ importer'[i] = T!Idle
      /\ \A j \in Importer : j # i => importer'[j] = importer[j]
  BY <1>1 DEF TransferInv
<1>3. \A j \in Importer : ImporterRight(j)'
  BY <1>1, <1>2 DEF TransferInv, ImporterRight, T!Idle
<1>4. \A j \in Importer : importer'[j].at = "writing" => importer'[j] = importer[j]
  BY <1>2 DEF T!Idle
<1>5. \A m \in Names \ shared' : OwnName(m)'
  BY <1>1, <1>4 DEF TransferInv, OwnName, T!Writing
<1>6. QED
  BY <1>1, <1>2, <1>3, <1>5 DEF TransferInv, EnvelopeRight, JournalRight

LEMMA StepTransfer ==
    ASSUME TransferInv, T!TransferNext
    PROVE  TransferInv'
<1>1. ASSUME UNCHANGED <<journal, importer, imported, imports, shared>>, EnvelopeRight'
      PROVE  TransferInv'
  BY <1>1 DEF TransferInv, ImporterRight, JournalRight, OwnName, T!Writing
<1>2. CASE T!damaged
  <2>1. envelope' = [is |-> envelope'.is, instance |-> envelope'.instance,
                     events |-> envelope'.events, count |-> envelope'.count,
                     sha256 |-> envelope'.sha256]
        /\ envelope'.sha256 = envelope.sha256
    BY <1>2 DEF T!damaged, TransferInv, EnvelopeRight
  <2>2. UNCHANGED <<journal, importer, imported, imports, shared>>
    BY <1>2 DEF T!damaged
  <2>3. EnvelopeRight'
    BY <2>1, <2>2 DEF TransferInv, EnvelopeRight
  <2>4. QED
    BY <1>1, <2>2, <2>3
<1>3. ASSUME NEW n \in Names, T!export(n) PROVE TransferInv'
  <2>1. UNCHANGED <<journal, importer, imported, imports, shared>>
    BY <1>3 DEF T!export
  <2>2. journal[n] \in Seq(Event) /\ JournalRight(n)
    BY DEF TransferInv
  <2>3. CASE envelope' = T!Envelope(n, journal[n])
    BY <1>1, <2>1, <2>2, <2>3 DEF EnvelopeRight, JournalRight, T!Envelope
  <2>4. CASE envelope' = T!NoEnvelope
    <3>1. <<>> \in Seq(Event) /\ Pure(<<>>) /\ Numbered(<<>>, 0)
      BY DEF Pure, Numbered
    <3>2. QED
      BY <1>1, <2>1, <2>4, <3>1 DEF EnvelopeRight, T!NoEnvelope
  <2>5. QED
    BY <1>3, <2>3, <2>4 DEF T!export
<1>4. QED
  BY <1>2, <1>3, StepEngine, StepImport, StepAppend, StepStops DEF T!TransferNext

LEMMA ImportsFromInv ==
    ASSUME TransferInv
    PROVE  T!ImportIsPrefix /\ T!NothingDamaged
<1>1. ASSUME NEW n \in Names \ shared PROVE T!IsPrefix(imported[n], journal[n])
  <2> DEFINE s == imported[n]
             t == journal[n]
  <2>1. s \in Seq(Event) /\ t \in Seq(Event) /\ Begins(s, t)
    BY DEF TransferInv, OwnName
  <2> HIDE DEF s, t
  <2>2. Len(s) \in Nat /\ Len(t) \in Nat /\ Len(s) <= Len(t)
    BY <2>1, LenProperties DEF Begins
  <2>3. /\ SubSeq(s, 1, Len(s)) \in Seq(Event) /\ Len(SubSeq(s, 1, Len(s))) = Len(s)
        /\ \A k \in 1..Len(s) : SubSeq(s, 1, Len(s))[k] = s[k]
    BY <2>1, <2>2, SubSeqProperties
  <2>4. /\ SubSeq(t, 1, Len(s)) \in Seq(Event) /\ Len(SubSeq(t, 1, Len(s))) = Len(s)
        /\ \A k \in 1..Len(s) : SubSeq(t, 1, Len(s))[k] = t[k]
    BY <2>1, <2>2, SubSeqProperties
  <2>5. SubSeq(s, 1, Len(s)) = SubSeq(t, 1, Len(s))
    BY <2>1, <2>3, <2>4, SeqEqual DEF Begins
  <2>6. QED
    BY <2>2, <2>5 DEF T!IsPrefix, s, t
<1>2. ASSUME NEW n \in Names PROVE DOMAIN journal[n] = 1..Len(journal[n])
  BY LenProperties DEF TransferInv
<1>3. T!NothingDamaged
  <2> SUFFICES ASSUME NEW n \in Names, NEW k \in DOMAIN journal[n]
               PROVE  journal[n][k][1] # "altered" /\ (shared = {} => journal[n][k][2] = k)
    BY DEF T!NothingDamaged
  <2>1. JournalRight(n) /\ k \in 1..Len(journal[n]) /\ Len(journal[n]) \in Nat
    BY <1>2, LenProperties DEF TransferInv
  <2>2. k \in Nat
    BY <2>1
  <2>3. QED
    BY <2>1, <2>2 DEF JournalRight, Pure, Numbered
<1>4. QED
  BY <1>1, <1>3 DEF T!ImportIsPrefix

-----------------------------------------------------------------------------
(* sessions: notices and messages *)

\* A session that is to come or lives; none of the dead returns.
Reached(s) == registry[s] = "none" \/ s \in S!Live

\* What a session has still to read: its undelivered rows and the batch it is draining.
Box(s) == S!Waiting(s) \cup S!Batch(s)
SameBody(r, row) == r.topic = row.topic /\ r.from = row.from /\ r.payload = row.payload
KeptFor(s, from, text) ==
    \/ <<from, text>> \in shown[s]
    \/ \E row \in Box(s) : row.topic = "message" /\ row.from = from /\ row.payload = text

IsRow(row) ==
    /\ row = [id |-> row.id, topic |-> row.topic, from |-> row.from, to |-> row.to,
              payload |-> row.payload, delivered |-> row.delivered]
    /\ row.id = <<row.topic, row.from, row.to, row.id[4],
                  IF row.topic = "file.changed" THEN row.payload ELSE 0>>

\* The id of a row of this millisecond cannot be met again once its batch was shown.
RowRight(row) ==
    /\ IsRow(row) /\ row.to \in Session /\ row.id[4] \in 0..ms
    /\ row.delivered =>
         /\ registry[row.to] # "none"
         /\ row.to \in S!Live /\ row.id[4] = ms => \E r \in S!Batch(row.to) : SameBody(r, row)

BusyRight(s) ==
    /\ busy[s].at # "idle" => s \in S!Live
    /\ busy[s].at \in {"reading", "touching", "notifying"} => busy[s].file \in File
    /\ busy[s].at = "reading" => busy[s].saw \in Nat
    /\ busy[s].at = "notifying" =>
         /\ busy[s] = [at |-> "notifying", file |-> busy[s].file, left |-> busy[s].left]
         /\ busy[s].left \subseteq Session
    /\ busy[s].at = "broadcasting" =>
         /\ busy[s] = [at |-> "broadcasting", text |-> busy[s].text, left |-> busy[s].left,
                       to |-> busy[s].to]
         /\ busy[s].text \in Text /\ busy[s].left \subseteq busy[s].to /\ busy[s].to \subseteq Session
         /\ \A o \in busy[s].to \ busy[s].left : Reached(o) => KeptFor(o, s, busy[s].text)
    /\ busy[s].at = "draining" =>
         /\ busy[s] = [at |-> "draining", got |-> busy[s].got, left |-> busy[s].left]
         /\ busy[s].left \subseteq busy[s].got
         /\ \A row \in busy[s].got : IsRow(row) /\ row.to = s /\ ~row.delivered /\ row.id[4] \in 0..ms

\* A version of the file that is not the disk's is in the history, or about to be.
Outdated(s, f) ==
    IF busy[s].at = "reading" /\ busy[s].file = f
      THEN busy[s].saw < content[f]
      ELSE S!Stale(s, f) /\ <<s, f>> \in noted

\* A writer of the file has yet to list its observers, or s is on its list.
Pending(s, f) ==
    \E w \in Session \ {s} :
      /\ busy[w].at \in {"touching", "notifying"} /\ busy[w].file = f
      /\ busy[w].at = "notifying" => s \in busy[w].left

Hushed(s, f) == S!Unsaid(s, f, {"race", "killed", "edit"})

SessionTypes ==
    /\ registry \in [Session -> {"none", "open", "closed"}]
    /\ content \in [File -> Nat] /\ known \in [Session -> [File -> Nat]]
    /\ busy = [s \in Session |-> busy[s]] /\ shown = [s \in Session |-> shown[s]]
    /\ sent \subseteq Session \X Session \X Text /\ ms \in Nat
    /\ \A s \in Session : registry[s] = "none" => s \notin alive /\ \A f \in File : known[s][f] = 0

Told(s, f) == Outdated(s, f) => Hushed(s, f) \/ S!ToldOf(s, f) \/ Pending(s, f)

SessionsInv ==
    /\ SessionTypes
    /\ \A s \in Session : BusyRight(s)
    /\ \A row \in mail : RowRight(row)
    /\ \A s \in S!Live, f \in File : Told(s, f)
    /\ \A m \in sent : Reached(m[2]) => KeptFor(m[2], m[1], m[3])

LEMMA InitSessions ==
    ASSUME S!SessionInit
    PROVE  SessionsInv
<1>1. SessionTypes /\ S!Live = {} /\ mail = {} /\ sent = {}
  BY DEF S!SessionInit, SessionTypes, S!Live
<1>2. \A s \in Session : busy[s].at = "idle"
  BY DEF S!SessionInit, S!Idle
<1>3. \A s \in Session : BusyRight(s)
  BY <1>2 DEF BusyRight
<1>4. QED
  BY <1>1, <1>3 DEF SessionsInv

LEMMA SessionsFromInv ==
    ASSUME SessionsInv
    PROVE  S!WritesAreAnnounced /\ S!SentIsNotLost
<1>1. S!WritesAreAnnounced
  <2> SUFFICES ASSUME NEW s \in S!Live, NEW f \in File, S!Stale(s, f), <<s, f>> \in noted,
                      busy[s].at # "reading", ~S!Announcing(f), ~Hushed(s, f)
               PROVE  S!ToldOf(s, f)
    BY DEF S!WritesAreAnnounced, Hushed
  <2>1. Outdated(s, f)
    BY DEF Outdated
  <2>2. ~Pending(s, f)
    BY DEF Pending, S!Announcing
  <2>3. QED
    BY <2>1, <2>2 DEF SessionsInv, Told
<1>2. S!SentIsNotLost
  BY DEF S!SentIsNotLost, SessionsInv, Reached, KeptFor, Box
<1>3. QED
  BY <1>1, <1>2

-----------------------------------------------------------------------------
\* What stays in a box, or is shown instead, keeps its message.
LEMMA BoxKeeps ==
    ASSUME NEW s, NEW from, NEW text, KeptFor(s, from, text),
           \A row \in Box(s) : \/ \E r \in Box(s)' : SameBody(r, row)
                               \/ row.topic = "message" => <<row.from, row.payload>> \in shown'[s],
           <<from, text>> \in shown[s] => <<from, text>> \in shown'[s]
    PROVE  KeptFor(s, from, text)'
BY DEF KeptFor, SameBody

LEMMA BoxTells ==
    ASSUME NEW s, NEW f, S!ToldOf(s, f),
           \A row \in Box(s) : \/ \E r \in Box(s)' : SameBody(r, row)
                               \/ row.topic = "file.changed" => row.payload \in shown'[s],
           f \in shown[s] => f \in shown'[s]
    PROVE  S!ToldOf(s, f)'
BY DEF S!ToldOf, Box, SameBody

\* A box in which nothing changes.
SameBox(s) == \A row \in Box(s) : \E r \in Box(s)' : SameBody(r, row)

\* The promises to senders in a step that adds none.
LEMMA SentStays ==
    ASSUME SessionsInv, sent' = sent,
           \A s \in Session : Reached(s)' => Reached(s) /\ SameBox(s),
           \A s \in Session : \A from \in Session, text \in Text :
             <<from, text>> \in shown[s] => <<from, text>> \in shown'[s]
    PROVE  /\ \A m \in sent' : Reached(m[2])' => KeptFor(m[2], m[1], m[3])'
           /\ \A o, from \in Session, text \in Text :
                Reached(o)' /\ KeptFor(o, from, text) => KeptFor(o, from, text)'
<1>1. ASSUME NEW o \in Session, NEW from \in Session, NEW text \in Text,
             Reached(o)', KeptFor(o, from, text)
      PROVE  KeptFor(o, from, text)'
  BY <1>1, BoxKeeps DEF SameBox
<1>2. ASSUME NEW m \in sent, Reached(m[2])' PROVE KeptFor(m[2], m[1], m[3])'
  <2>1. m[1] \in Session /\ m[2] \in Session /\ m[3] \in Text
    BY DEF SessionsInv, SessionTypes
  <2>2. KeptFor(m[2], m[1], m[3])
    BY <1>2, <2>1 DEF SessionsInv
  <2>3. QED
    BY <1>1, <1>2, <2>1, <2>2
<1>3. QED
  BY <1>1, <1>2

LEMMA RowsStay ==
    ASSUME SessionsInv, mail' = mail, ms \in Nat, ms' \in {ms, ms + 1},
           \A s \in Session : registry[s] # "none" => registry'[s] # "none",
           \A s \in S!Live' : s \in S!Live \/ registry[s] = "none",
           \A s \in S!Live' : ms' = ms => S!Batch(s) \subseteq S!Batch(s)'
    PROVE  \A row \in mail' : RowRight(row)'
<1> SUFFICES ASSUME NEW row \in mail PROVE RowRight(row)'
  OBVIOUS
<1>1. RowRight(row)
  BY DEF SessionsInv
<1>2. row.id[4] \in 0..ms' /\ (row.id[4] = ms' => ms' = ms)
  BY <1>1 DEF RowRight
<1>3. ASSUME row.delivered, row.to \in S!Live', row.id[4] = ms'
      PROVE  \E r \in S!Batch(row.to)' : SameBody(r, row)
  <2>1. row.to \in S!Live /\ row.id[4] = ms
    BY <1>1, <1>2, <1>3 DEF RowRight
  <2>2. PICK r \in S!Batch(row.to) : SameBody(r, row)
    BY <1>1, <1>3, <2>1 DEF RowRight
  <2>3. QED
    BY <1>2, <1>3, <2>2
<1>4. QED
  BY <1>1, <1>2, <1>3 DEF RowRight

\* Nothing was put into a box or taken out: the mail is the same, and no batch is lost but
\* that of a session that died.
LEMMA QuietStep ==
    ASSUME SessionsInv, mail' = mail, sent' = sent,
           \A s \in Session : Reached(s)' => Reached(s) /\ S!Batch(s) \subseteq S!Batch(s)',
           \A s \in Session : \A from \in Session, text \in Text :
             <<from, text>> \in shown[s] => <<from, text>> \in shown'[s]
    PROVE  /\ \A m \in sent' : Reached(m[2])' => KeptFor(m[2], m[1], m[3])'
           /\ \A o, from \in Session, text \in Text :
                Reached(o)' /\ KeptFor(o, from, text) => KeptFor(o, from, text)'
           /\ \A s \in Session : Reached(s)' => SameBox(s)
<1>1. ASSUME NEW s \in Session, Reached(s)' PROVE SameBox(s)
  BY <1>1 DEF SameBox, Box, S!Waiting, SameBody
<1>2. QED
  BY <1>1, SentStays

LEMMA BusyStays ==
    ASSUME NEW s \in Session, BusyRight(s), busy'[s] = busy[s], ms \in Nat, ms' \in {ms, ms + 1},
           s \in S!Live => s \in S!Live' \/ busy[s].at = "idle",
           \A o \in Session, text \in Text :
             Reached(o)' => Reached(o) /\ (KeptFor(o, s, text) => KeptFor(o, s, text)')
    PROVE  BusyRight(s)'
<1>1. ASSUME busy[s].at = "broadcasting", NEW o \in busy[s].to \ busy[s].left, Reached(o)'
      PROVE  KeptFor(o, s, busy[s].text)'
  BY <1>1 DEF BusyRight
<1>2. \A t \in 0..ms : t \in 0..ms'
  OBVIOUS
<1>3. QED
  BY <1>1, <1>2 DEF BusyRight

LEMMA ToldStays ==
    ASSUME NEW s, NEW f, Told(s, f), Outdated(s, f)' => Outdated(s, f), SameBox(s),
           f \in shown[s] => f \in shown'[s], Hushed(s, f) => Hushed(s, f)',
           Pending(s, f) => Pending(s, f)' \/ Hushed(s, f)' \/ S!ToldOf(s, f)'
    PROVE  Told(s, f)'
<1>1. S!ToldOf(s, f) => S!ToldOf(s, f)'
  BY BoxTells DEF SameBox
<1>2. QED
  BY <1>1 DEF Told

LEMMA HushedGrows ==
    ASSUME NEW s, NEW f, unsaid \subseteq unsaid'
    PROVE  Hushed(s, f) => Hushed(s, f)'
BY DEF Hushed, S!Unsaid, S!Forgotten

-----------------------------------------------------------------------------
LEMMA StepTick ==
    ASSUME SessionsInv, S!tick
    PROVE  SessionsInv'
<1>1. /\ ms' = ms + 1 /\ ms \in Nat
      /\ UNCHANGED <<registry, alive, noted, content, mail, known, busy, shown, sent, unsaid>>
  BY DEF S!tick, SessionsInv, SessionTypes
<1>2. /\ S!Live' = S!Live /\ \A s : S!Batch(s)' = S!Batch(s) /\ (Reached(s)' <=> Reached(s))
  BY <1>1 DEF S!Live, S!Batch, Reached
<1>3. SessionTypes'
  BY <1>1 DEF SessionsInv, SessionTypes
<1>4. \A row \in mail' : RowRight(row)'
  BY <1>1, <1>2, RowsStay
<1>5. /\ \A m \in sent' : Reached(m[2])' => KeptFor(m[2], m[1], m[3])'
      /\ \A o, from \in Session, text \in Text :
           Reached(o)' /\ KeptFor(o, from, text) => KeptFor(o, from, text)'
      /\ \A s \in Session : Reached(s)' => SameBox(s)
  BY <1>1, <1>2, QuietStep
<1>6. \A s \in Session : BusyRight(s)'
  BY <1>1, <1>2, <1>5, BusyStays DEF SessionsInv
<1>7. ASSUME NEW s \in S!Live', NEW f \in File PROVE Told(s, f)'
  BY <1>1, <1>2 DEF SessionsInv, Told, Outdated, Hushed, S!Unsaid, S!Forgotten, S!ToldOf,
       S!Waiting, Pending, S!Stale
<1>8. QED
  BY <1>3, <1>4, <1>5, <1>6, <1>7 DEF SessionsInv

LEMMA StepOpen ==
    ASSUME SessionsInv, NEW s \in Session, S!record_open(s)
    PROVE  SessionsInv'
<1>1. /\ registry[s] = "none" /\ registry' = [registry EXCEPT ![s] = "open"]
      /\ alive' = alive \cup {s} /\ ms \in Nat /\ s \notin alive
      /\ UNCHANGED <<noted, content, mail, known, busy, shown, sent, unsaid, ms>>
  BY DEF S!record_open, SessionsInv, SessionTypes
<1>2. /\ registry'[s] = "open" /\ \A o \in Session : o # s => registry'[o] = registry[o]
      /\ S!Live' = S!Live \cup {s}
  BY <1>1 DEF SessionsInv, SessionTypes, S!Live
<1>3. \A o \in Session : S!Batch(o)' = S!Batch(o) /\ (Reached(o)' <=> Reached(o))
  BY <1>1, <1>2 DEF S!Batch, Reached
<1>4. SessionTypes'
  BY <1>1, <1>2 DEF SessionsInv, SessionTypes
<1>5. \A row \in mail' : RowRight(row)'
  <2>1. S!Live' \subseteq Session
    BY DEF S!Live
  <2>2. QED
    BY <1>1, <1>2, <1>3, <2>1, RowsStay
<1>6. /\ \A m \in sent' : Reached(m[2])' => KeptFor(m[2], m[1], m[3])'
      /\ \A o, from \in Session, text \in Text :
           Reached(o)' /\ KeptFor(o, from, text) => KeptFor(o, from, text)'
      /\ \A o \in Session : Reached(o)' => SameBox(o)
  BY <1>1, <1>3, QuietStep
<1>7. \A o \in Session : BusyRight(o)'
  BY <1>1, <1>2, <1>3, <1>6, BusyStays DEF SessionsInv
<1>8. ASSUME NEW o \in S!Live', NEW f \in File PROVE Told(o, f)'
  <2>1. CASE o = s
    <3>1. busy[s].at = "idle"
      BY <1>1 DEF SessionsInv, BusyRight, S!Live
    <3>2. known[s][f] = 0
      BY <1>1 DEF SessionsInv, SessionTypes
    <3>3. QED
      BY <1>1, <2>1, <3>1, <3>2 DEF Told, Outdated, S!Stale
  <2>2. CASE o # s
    <3>1. Told(o, f)
      BY <1>2, <2>2 DEF SessionsInv
    <3>2. QED
      BY <1>1, <3>1 DEF Told, Outdated, Hushed, S!Unsaid, S!Forgotten, S!ToldOf, S!Batch,
         S!Waiting, Pending, S!Stale
  <2>3. QED
    BY <2>1, <2>2
<1>9. QED
  BY <1>4, <1>5, <1>6, <1>7, <1>8 DEF SessionsInv

LEMMA StepClosed ==
    ASSUME SessionsInv, NEW s \in Session, S!record_closed(s)
    PROVE  SessionsInv'
<1>1. /\ s \in S!Live /\ busy[s].at = "idle" /\ registry' = [registry EXCEPT ![s] = "closed"]
      /\ alive' = alive \ {s} /\ ms \in Nat
      /\ UNCHANGED <<noted, content, mail, known, busy, shown, sent, unsaid, ms>>
  BY DEF S!record_closed, SessionsInv, SessionTypes, S!Idle
<1>2. /\ registry'[s] = "closed" /\ \A o \in Session : o # s => registry'[o] = registry[o]
      /\ S!Live' = S!Live \ {s}
  BY <1>1 DEF SessionsInv, SessionTypes, S!Live
<1>3. \A o \in Session : S!Batch(o)' = S!Batch(o) /\ (Reached(o)' => Reached(o))
  BY <1>1, <1>2 DEF S!Batch, Reached
<1>4. SessionTypes'
  BY <1>1, <1>2 DEF SessionsInv, SessionTypes
<1>5. \A row \in mail' : RowRight(row)'
  <2>1. S!Live' \subseteq Session
    BY DEF S!Live
  <2>2. QED
    BY <1>1, <1>2, <1>3, <2>1, RowsStay
<1>6. /\ \A m \in sent' : Reached(m[2])' => KeptFor(m[2], m[1], m[3])'
      /\ \A o, from \in Session, text \in Text :
           Reached(o)' /\ KeptFor(o, from, text) => KeptFor(o, from, text)'
      /\ \A o \in Session : Reached(o)' => SameBox(o)
  BY <1>1, <1>3, QuietStep
<1>7. \A o \in Session : BusyRight(o)'
  BY <1>1, <1>2, <1>3, <1>6, BusyStays DEF SessionsInv
<1>8. ASSUME NEW o \in S!Live', NEW f \in File PROVE Told(o, f)'
  <2>1. Told(o, f)
    BY <1>2 DEF SessionsInv
  <2>2. QED
    BY <1>1, <2>1 DEF Told, Outdated, Hushed, S!Unsaid, S!Forgotten, S!ToldOf, S!Batch,
         S!Waiting, Pending, S!Stale
<1>9. QED
  BY <1>4, <1>5, <1>6, <1>7, <1>8 DEF SessionsInv

LEMMA StepKill ==
    ASSUME SessionsInv, NEW s \in Session, S!kill(s)
    PROVE  SessionsInv'
<1>1. /\ s \in alive /\ busy' = [busy EXCEPT ![s] = S!Idle]
      /\ alive' = alive \ {s} /\ ms \in Nat /\ unsaid \subseteq unsaid'
      /\ busy[s].at \in {"touching", "notifying"} =>
           \A o \in Session : <<o, busy[s].file, "killed">> \in unsaid'
      /\ UNCHANGED <<registry, noted, content, mail, known, shown, sent, ms>>
  BY DEF S!kill, SessionsInv, SessionTypes
<1>2. /\ S!Live' = S!Live \ {s}
      /\ busy' = [o \in Session |-> busy'[o]] /\ busy'[s] = S!Idle
      /\ \A o \in Session : o # s => busy'[o] = busy[o]
  BY <1>1 DEF SessionsInv, SessionTypes, S!Live
<1>3. ~Reached(s)' /\ \A o \in Session : o # s => S!Batch(o)' = S!Batch(o) /\ (Reached(o)' <=> Reached(o))
  BY <1>1, <1>2 DEF S!Batch, Reached, SessionsInv, SessionTypes
<1>4. SessionTypes'
  BY <1>1, <1>2 DEF SessionsInv, SessionTypes
<1>5. \A row \in mail' : RowRight(row)'
  <2>1. S!Live' \subseteq Session /\ s \notin S!Live'
    BY <1>2 DEF S!Live
  <2>2. QED
    BY <1>1, <1>2, <1>3, <2>1, RowsStay
<1>6. /\ \A m \in sent' : Reached(m[2])' => KeptFor(m[2], m[1], m[3])'
      /\ \A o, from \in Session, text \in Text :
           Reached(o)' /\ KeptFor(o, from, text) => KeptFor(o, from, text)'
      /\ \A o \in Session : Reached(o)' => SameBox(o)
  BY <1>1, <1>3, QuietStep
<1>7. ASSUME NEW o \in Session PROVE BusyRight(o)'
  <2>1. CASE o = s
    BY <1>2, <2>1 DEF BusyRight, S!Idle
  <2>2. CASE o # s
    BY <1>1, <1>2, <1>3, <1>6, <2>2, BusyStays DEF SessionsInv
  <2>3. QED
    BY <2>1, <2>2
<1>8. ASSUME NEW o \in S!Live', NEW f \in File PROVE Told(o, f)'
  <2>1. Told(o, f) /\ o # s /\ o \in Session /\ busy'[o] = busy[o] /\ Reached(o)'
    BY <1>2 DEF SessionsInv, S!Live, Reached
  <2>2. Outdated(o, f)' => Outdated(o, f)
    BY <1>1, <2>1 DEF Outdated, S!Stale
  <2>3. Hushed(o, f) => Hushed(o, f)'
    BY <1>1, HushedGrows
  <2>4. Pending(o, f) => Pending(o, f)' \/ Hushed(o, f)'
    <3> SUFFICES ASSUME NEW w \in Session \ {o},
                        busy[w].at \in {"touching", "notifying"}, busy[w].file = f,
                        busy[w].at = "notifying" => o \in busy[w].left
                 PROVE  Pending(o, f)' \/ Hushed(o, f)'
      BY DEF Pending
    <3>1. CASE w = s
      <4>1. <<o, f, "killed">> \in unsaid'
        BY <1>1, <2>1, <3>1
      <4>2. QED
        BY <4>1 DEF Hushed, S!Unsaid, S!Forgotten
    <3>2. CASE w # s
      BY <1>2, <3>2 DEF Pending
    <3>3. QED
      BY <3>1, <3>2
  <2>5. SameBox(o)
    BY <1>6, <2>1
  <2>6. QED
    BY <1>1, <2>1, <2>2, <2>3, <2>4, <2>5, ToldStays
<1>9. QED
  BY <1>4, <1>5, <1>6, <1>7, <1>8 DEF SessionsInv

-----------------------------------------------------------------------------
\* A step of one session on a file: nobody's mail changes.
LEMMA FileStep ==
    ASSUME SessionsInv, SessionTypes', NEW s \in Session,
           UNCHANGED <<registry, alive, mail, sent, ms>>,
           busy[s].at # "draining", busy'[s].at # "draining", BusyRight(s)',
           \A o \in Session : o # s => busy'[o] = busy[o],
           \A o \in Session : \A from \in Session, text \in Text :
             <<from, text>> \in shown[o] => <<from, text>> \in shown'[o],
           \A o \in S!Live, f \in File : Told(o, f)'
    PROVE  SessionsInv'
<1>1. S!Live' = S!Live /\ \A o \in Session : S!Batch(o)' = S!Batch(o) /\ (Reached(o)' <=> Reached(o))
  BY DEF S!Live, S!Batch, Reached
<1>2. ms \in Nat
  BY DEF SessionsInv, SessionTypes
<1>3. \A row \in mail' : RowRight(row)'
  <2>1. S!Live' \subseteq Session
    BY DEF S!Live
  <2>2. QED
    BY <1>1, <1>2, <2>1, RowsStay
<1>4. /\ \A m \in sent' : Reached(m[2])' => KeptFor(m[2], m[1], m[3])'
      /\ \A o, from \in Session, text \in Text :
           Reached(o)' /\ KeptFor(o, from, text) => KeptFor(o, from, text)'
  BY <1>1, QuietStep
<1>5. \A o \in Session : BusyRight(o)'
  BY <1>1, <1>2, <1>4, BusyStays DEF SessionsInv
<1>6. QED
  BY <1>1, <1>3, <1>4, <1>5 DEF SessionsInv

\* Whom such a step leaves told, and of what.
LEMMA FileTold ==
    ASSUME UNCHANGED mail, NEW s, busy[s].at # "draining", busy'[s].at # "draining",
           NEW o, NEW f, Told(o, f), o # s => busy'[o] = busy[o],
           Outdated(o, f)' => Outdated(o, f), f \in shown[o] => f \in shown'[o],
           Hushed(o, f) => Hushed(o, f)', Pending(o, f) => Pending(o, f)' \/ Hushed(o, f)'
    PROVE  Told(o, f)'
<1>1. SameBox(o)
  BY DEF SameBox, Box, S!Waiting, S!Batch, SameBody
<1>2. QED
  BY <1>1, ToldStays

LEMMA Forgets ==
    ASSUME NEW s, NEW f, NEW o, NEW g, o # s \/ g # f, unsaid \ S!Forgotten(s, f) \subseteq unsaid'
    PROVE  Hushed(o, g) => Hushed(o, g)'
BY DEF Hushed, S!Unsaid, S!Forgotten

LEMMA StepRead ==
    ASSUME SessionsInv, NEW s \in Session, NEW f \in File, S!files_read(s, f),
           f \notin Session \X Text
    PROVE  SessionsInv'
<1>1. /\ s \in S!Live /\ busy[s].at = "idle"
      /\ busy' = [busy EXCEPT ![s] = [at |-> "reading", file |-> f, saw |-> content[f]]]
      /\ shown' = [shown EXCEPT ![s] = @ \ {f}]
      /\ unsaid' = unsaid \ S!Forgotten(s, f)
      /\ UNCHANGED <<registry, alive, noted, content, mail, known, sent, ms>>
  BY DEF S!files_read, S!Idle
<1>2. /\ busy' = [o \in Session |-> busy'[o]] /\ shown' = [o \in Session |-> shown'[o]]
      /\ busy'[s] = [at |-> "reading", file |-> f, saw |-> content[f]]
      /\ shown'[s] = shown[s] \ {f} /\ content[f] \in Nat
      /\ \A o \in Session : o # s => busy'[o] = busy[o] /\ shown'[o] = shown[o]
  BY <1>1 DEF SessionsInv, SessionTypes
<1>3. SessionTypes'
  BY <1>1, <1>2 DEF SessionsInv, SessionTypes
<1>4. S!Live' = S!Live
  BY <1>1 DEF S!Live
<1>5. BusyRight(s)'
  BY <1>1, <1>2, <1>4 DEF BusyRight
<1>6. ASSUME NEW o \in S!Live, NEW g \in File PROVE Told(o, g)'
  <2>1. o \in Session /\ Told(o, g)
    BY DEF S!Live, SessionsInv
  <2>2. CASE o = s /\ g = f
    BY <1>1, <1>2, <2>2 DEF Told, Outdated
  <2>3. CASE o # s \/ g # f
    <3>1. Outdated(o, g)' => Outdated(o, g)
      BY <1>1, <1>2, <2>1, <2>3 DEF Outdated, S!Stale
    <3>2. g \in shown[o] => g \in shown'[o]
      BY <1>2, <2>1, <2>3
    <3>3. Pending(o, g) => Pending(o, g)'
      BY <1>1, <1>2 DEF Pending
    <3>4. Hushed(o, g) => Hushed(o, g)'
      BY <1>1, <2>3, Forgets
    <3>5. QED
      BY <1>1, <1>2, <2>1, <3>1, <3>2, <3>3, <3>4, FileTold
  <2>4. QED
    BY <2>2, <2>3
<1>7. \A o \in Session : \A from \in Session, text \in Text :
        <<from, text>> \in shown[o] => <<from, text>> \in shown'[o]
  BY <1>2
<1>8. QED
  BY <1>1, <1>2, <1>3, <1>5, <1>6, <1>7, FileStep

LEMMA StepNote ==
    ASSUME SessionsInv, NEW s \in Session, S!note_observed(s)
    PROVE  SessionsInv'
<1> DEFINE f == busy[s].file
<1>1. /\ busy[s].at = "reading" /\ noted' = noted \cup {<<s, f>>}
      /\ known' = [known EXCEPT ![s][f] = busy[s].saw]
      /\ busy' = [busy EXCEPT ![s] = S!Idle]
      /\ UNCHANGED <<registry, alive, content, mail, shown, sent, unsaid, ms>>
  BY DEF S!note_observed
<1>2. f \in File /\ busy[s].saw \in Nat /\ s \in S!Live
  BY <1>1 DEF SessionsInv, BusyRight
<1> HIDE DEF f
<1>3. /\ busy' = [o \in Session |-> busy'[o]] /\ busy'[s] = S!Idle
      /\ \A o \in Session : o # s => busy'[o] = busy[o] /\ known'[o] = known[o]
      /\ known'[s][f] = busy[s].saw /\ \A g \in File : g # f => known'[s][g] = known[s][g]
      /\ known' \in [Session -> [File -> Nat]]
  BY <1>1, <1>2 DEF SessionsInv, SessionTypes
<1>4. registry[s] # "none"
  BY <1>2 DEF S!Live
<1>5. SessionTypes'
  BY <1>1, <1>3, <1>4 DEF SessionsInv, SessionTypes
<1>6. BusyRight(s)'
  BY <1>3 DEF BusyRight, S!Idle
<1>7. ASSUME NEW o \in S!Live, NEW g \in File PROVE Told(o, g)'
  <2>1. o \in Session /\ Told(o, g)
    BY DEF S!Live, SessionsInv
  <2>2. Outdated(o, g)' => Outdated(o, g)
    <3>1. CASE o = s /\ g = f
      <4>1. busy'[s].at # "reading" /\ known'[s][g] = busy[s].saw /\ content' = content
        BY <1>1, <1>3, <3>1 DEF S!Idle
      <4>2. Outdated(o, g)' => busy[s].saw < content[g]
        BY <3>1, <4>1 DEF Outdated, S!Stale
      <4>3. busy[s].at = "reading" /\ busy[s].file = g
        BY <1>1, <3>1 DEF f
      <4>4. QED
        BY <3>1, <4>2, <4>3 DEF Outdated
    <3>2. CASE o = s /\ g # f
      BY <1>1, <1>3, <3>2 DEF Outdated, S!Stale, f, S!Idle
    <3>3. CASE o # s
      BY <1>1, <1>3, <2>1, <3>3 DEF Outdated, S!Stale
    <3>4. QED
      BY <3>1, <3>2, <3>3
  <2>3. Pending(o, g) => Pending(o, g)'
    BY <1>1, <1>3 DEF Pending
  <2>4. Hushed(o, g) => Hushed(o, g)'
    BY <1>1, HushedGrows
  <2>5. busy'[s].at = "idle"
    BY <1>3 DEF S!Idle
  <2>6. QED
    BY <1>1, <1>3, <2>1, <2>2, <2>3, <2>4, <2>5, FileTold
<1>8. busy'[s].at = "idle"
  BY <1>3 DEF S!Idle
<1>9. QED
  BY <1>1, <1>3, <1>5, <1>6, <1>7, <1>8, FileStep

\* A tool of s has written the file: s knows it, and the others are to be told.
LEMMA StepChanged ==
    ASSUME SessionsInv, NEW s \in Session, NEW f \in File, S!files_write(s, f) \/ S!files_edit(s, f)
    PROVE  SessionsInv'
<1>1. /\ s \in S!Live /\ busy[s].at = "idle" /\ content' = [content EXCEPT ![f] = @ + 1]
      /\ known' = [known EXCEPT ![s][f] = content[f] + 1]
      /\ unsaid \ S!Forgotten(s, f) \subseteq unsaid'
      /\ UNCHANGED <<registry, alive, noted, mail, shown, sent, ms>>
  BY DEF S!files_write, S!files_edit, S!changed, S!Idle
<1>2. /\ content[f] \in Nat /\ content' \in [File -> Nat] /\ content'[f] = content[f] + 1
      /\ known' \in [Session -> [File -> Nat]] /\ known'[s][f] = content[f] + 1
      /\ \A g \in File : g # f => content'[g] = content[g] /\ known'[s][g] = known[s][g]
      /\ \A o \in Session : o # s => known'[o] = known[o]
  BY <1>1 DEF SessionsInv, SessionTypes
<1>3. \/ busy' = busy /\ \A o \in Session \ {s} : <<o, f, "edit">> \in unsaid'
      \/ busy' = [busy EXCEPT ![s] = [at |-> "touching", file |-> f]]
  BY DEF S!files_write, S!files_edit
<1>4. /\ busy' = [o \in Session |-> busy'[o]] /\ \A o \in Session : o # s => busy'[o] = busy[o]
      /\ busy'[s].at = "idle" \/ (busy'[s].at = "touching" /\ busy'[s].file = f)
      /\ busy'[s].at = "idle" => \A o \in Session \ {s} : <<o, f, "edit">> \in unsaid'
  <2>1. CASE busy' = busy /\ \A o \in Session \ {s} : <<o, f, "edit">> \in unsaid'
    BY <1>1, <2>1 DEF SessionsInv, SessionTypes
  <2>2. CASE busy' = [busy EXCEPT ![s] = [at |-> "touching", file |-> f]]
    <3>1. busy'[s] = [at |-> "touching", file |-> f]
      BY <2>2 DEF SessionsInv, SessionTypes
    <3>2. QED
      BY <2>2, <3>1 DEF SessionsInv, SessionTypes
  <2>3. QED
    BY <1>3, <2>1, <2>2
<1>5. registry[s] # "none" /\ S!Live' = S!Live
  BY <1>1 DEF S!Live
<1>6. SessionTypes'
  BY <1>1, <1>2, <1>4, <1>5 DEF SessionsInv, SessionTypes
<1>7. BusyRight(s)'
  BY <1>1, <1>4, <1>5 DEF BusyRight
<1>8. ASSUME NEW o \in S!Live, NEW g \in File PROVE Told(o, g)'
  <2>1. o \in Session /\ Told(o, g)
    BY DEF S!Live, SessionsInv
  <2>2. CASE o = s /\ g = f
    <3>1. ~S!Stale(s, f)'
      BY <1>2 DEF S!Stale
    <3>2. QED
      BY <1>4, <2>2, <3>1 DEF Told, Outdated
  <2>3. CASE o # s /\ g = f
    <3>1. CASE busy'[s].at = "idle"
      <4>1. <<o, f, "edit">> \in unsaid'
        BY <1>4, <2>1, <2>3, <3>1
      <4>2. Hushed(o, f)'
        BY <4>1 DEF Hushed, S!Unsaid, S!Forgotten
      <4>3. QED
        BY <2>3, <4>2 DEF Told
    <3>2. CASE busy'[s].at = "touching" /\ busy'[s].file = f
      <4>1. Pending(o, f)'
        BY <2>3, <3>2 DEF Pending
      <4>2. QED
        BY <2>3, <4>1 DEF Told
    <3>3. QED
      BY <1>4, <3>1, <3>2
  <2>4. CASE g # f
    <3>1. Outdated(o, g)' => Outdated(o, g)
      BY <1>1, <1>2, <1>4, <2>1, <2>4 DEF Outdated, S!Stale
    <3>2. Pending(o, g) => Pending(o, g)'
      BY <1>1, <1>4 DEF Pending
    <3>3. Hushed(o, g) => Hushed(o, g)'
      BY <1>1, <2>4, Forgets
    <3>4. QED
      BY <1>1, <1>4, <2>1, <3>1, <3>2, <3>3, FileTold
  <2>5. QED
    BY <2>2, <2>3, <2>4
<1>9. QED
  BY <1>1, <1>4, <1>6, <1>7, <1>8, FileStep

LEMMA StepTouched ==
    ASSUME SessionsInv, NEW s \in Session, S!note_touched(s)
    PROVE  SessionsInv'
<1> DEFINE f == busy[s].file
           observers == S!sessions_observing(f, s)
<1>1. /\ busy[s].at = "touching"
      /\ busy' = [busy EXCEPT ![s] = [at |-> "notifying", file |-> f, left |-> observers]]
      /\ unsaid \subseteq unsaid'
      /\ \A o \in Session : busy[o].at = "reading" /\ busy[o].file = f /\ <<o, f>> \notin noted =>
                              <<o, f, "race">> \in unsaid'
      /\ UNCHANGED <<registry, alive, noted, content, mail, known, shown, sent, ms>>
  BY DEF S!note_touched
<1>2. f \in File /\ s \in S!Live /\ S!Live' = S!Live
  BY <1>1 DEF SessionsInv, BusyRight, S!Live
<1>3. \A o \in S!Live \ {s} : <<o, f>> \in noted => o \in observers
  BY DEF S!sessions_observing
<1> HIDE DEF observers
<1>4. /\ busy' = [o \in Session |-> busy'[o]]
      /\ busy'[s] = [at |-> "notifying", file |-> f, left |-> observers]
      /\ \A o \in Session : o # s => busy'[o] = busy[o]
  BY <1>1 DEF SessionsInv, SessionTypes
<1>5. SessionTypes'
  BY <1>1, <1>4 DEF SessionsInv, SessionTypes
<1>6. BusyRight(s)'
  <2>1. observers \subseteq Session
    BY DEF observers, S!sessions_observing, S!Live
  <2>2. QED
    BY <1>2, <1>4, <2>1 DEF BusyRight
<1>7. ASSUME NEW o \in S!Live, NEW g \in File PROVE Told(o, g)'
  <2>1. o \in Session /\ Told(o, g)
    BY DEF S!Live, SessionsInv
  <2>2. Outdated(o, g)' <=> Outdated(o, g)
    BY <1>1, <1>4, <2>1 DEF Outdated, S!Stale
  <2>3. Hushed(o, g) => Hushed(o, g)'
    BY <1>1, HushedGrows
  <2>4. CASE o # s /\ g = f /\ Outdated(o, g)
    <3>1. CASE <<o, f>> \in noted
      <4>1. Pending(o, g)'
        BY <1>3, <1>4, <2>4, <3>1 DEF Pending
      <4>2. QED
        BY <2>4, <4>1 DEF Told
    <3>2. CASE <<o, f>> \notin noted
      <4>1. busy[o].at = "reading" /\ busy[o].file = f
        BY <2>4, <3>2 DEF Outdated
      <4>2. <<o, g, "race">> \in unsaid'
        BY <1>1, <2>1, <2>4, <3>2, <4>1
      <4>3. Hushed(o, g)'
        BY <4>2 DEF Hushed, S!Unsaid, S!Forgotten
      <4>4. QED
        BY <2>4, <4>3 DEF Told
    <3>3. QED
      BY <3>1, <3>2
  <2>5. CASE o = s \/ g # f
    <3>1. Pending(o, g) => Pending(o, g)'
      <4> SUFFICES ASSUME NEW w \in Session \ {o}, busy[w].at \in {"touching", "notifying"},
                          busy[w].file = g, busy[w].at = "notifying" => o \in busy[w].left
                   PROVE  Pending(o, g)'
        BY DEF Pending
      <4>1. w # s
        BY <2>5
      <4>2. QED
        BY <1>4, <4>1 DEF Pending
    <3>2. QED
      BY <1>1, <1>4, <2>1, <2>2, <2>3, <3>1, FileTold
  <2>6. QED
    BY <2>2, <2>4, <2>5 DEF Told
<1>8. QED
  BY <1>1, <1>4, <1>5, <1>6, <1>7, FileStep

-----------------------------------------------------------------------------
\* A row is put into a box, unless its id is there: then it is the same row, and has not
\* been shown yet.
LEMMA Persisted ==
    ASSUME SessionsInv, NEW kind \in {"file.changed", "message"}, NEW from \in Session,
           NEW to \in Session, NEW body, S!persist(S!Envelope(kind, from, to, body)),
           UNCHANGED <<registry, alive, shown, ms>>,
           \A s \in Session : S!Batch(s)' = S!Batch(s)
    PROVE  /\ \A row \in mail' : RowRight(row)'
           /\ \A s \in Session : SameBox(s)
           /\ Reached(to) /\ (kind = "file.changed" \/ S!accepted(S!Envelope(kind, from, to, body))) =>
                \E row \in Box(to)' : row.topic = kind /\ row.from = from /\ row.payload = body
<1> DEFINE e == S!Envelope(kind, from, to, body)
<1>1. /\ e.topic = kind /\ e.from = from /\ e.to = to /\ e.payload = body /\ ~e.delivered
      /\ e.id = <<kind, from, to, ms, IF kind = "file.changed" THEN body ELSE 0>>
      /\ IsRow(e) /\ ms \in Nat
  BY DEF S!Envelope, IsRow, SessionsInv, SessionTypes
<1>2. mail' = IF S!Same(e) = {} THEN mail \cup {e} ELSE mail
  BY DEF S!persist
<1> HIDE DEF e
<1>3. S!Live' = S!Live /\ mail \subseteq mail' /\ (S!Same(e) = {} => e \in mail')
  BY <1>2 DEF S!Live
<1>4. ASSUME NEW row \in mail' PROVE RowRight(row)'
  <2>1. CASE row \in mail
    <3>1. RowRight(row)
      BY <2>1 DEF SessionsInv
    <3>2. row.to \in Session
      BY <3>1 DEF RowRight
    <3>3. S!Batch(row.to)' = S!Batch(row.to)
      BY <3>2
    <3>4. QED
      BY <1>3, <3>1, <3>3 DEF RowRight
  <2>2. CASE row = e
    <3>1. ms' = ms /\ ms \in 0..ms'
      BY <1>1
    <3>2. row.id[4] = ms
      BY <1>1, <2>2
    <3>3. QED
      BY <1>1, <2>2, <3>1, <3>2 DEF RowRight
  <2>3. QED
    BY <1>2, <2>1, <2>2
<1>5. ASSUME NEW s \in Session PROVE SameBox(s)
  BY <1>3 DEF SameBox, Box, S!Waiting, SameBody
<1>6. ASSUME Reached(to), kind = "file.changed" \/ S!accepted(e)
      PROVE  \E row \in Box(to)' : row.topic = kind /\ row.from = from /\ row.payload = body
  <2>1. CASE S!Same(e) = {}
    <3>1. e \in S!Waiting(to)'
      BY <1>1, <1>3, <2>1 DEF S!Waiting
    <3>2. QED
      BY <1>1, <3>1 DEF Box
  <2>2. CASE S!Same(e) # {}
    <3>1. PICK row \in mail : row.id = e.id
      BY <2>2 DEF S!Same
    <3>2. RowRight(row)
      BY DEF SessionsInv
    <3>3. row.id[1] = row.topic /\ row.id[2] = row.from /\ row.id[3] = row.to
          /\ row.id[5] = IF row.topic = "file.changed" THEN row.payload ELSE 0
      BY <3>2 DEF RowRight, IsRow
    <3>4. e.id[1] = kind /\ e.id[2] = from /\ e.id[3] = to /\ e.id[4] = ms
          /\ e.id[5] = IF kind = "file.changed" THEN body ELSE 0
      BY <1>1
    <3>5. row.topic = kind /\ row.from = from /\ row.to = to /\ row.id[4] = ms
      BY <3>1, <3>3, <3>4
    <3>6. row.payload = body
      <4>1. CASE kind = "file.changed"
        BY <3>1, <3>3, <3>4, <3>5, <4>1
      <4>2. CASE S!accepted(e)
        BY <1>1, <3>1, <4>2 DEF S!accepted, S!Same
      <4>3. QED
        BY <1>6, <4>1, <4>2
    <3>7. CASE ~row.delivered
      <4>1. row \in S!Waiting(to)'
        BY <1>3, <3>5, <3>7 DEF S!Waiting
      <4>2. QED
        BY <3>5, <3>6, <4>1 DEF Box
    <3>8. CASE row.delivered
      <4>1. to \in S!Live
        BY <1>6, <3>2, <3>5, <3>8 DEF RowRight, Reached
      <4>2. PICK r \in S!Batch(to) : SameBody(r, row)
        BY <3>2, <3>5, <3>8, <4>1 DEF RowRight
      <4>3. r \in Box(to)'
        BY <4>2 DEF Box
      <4>4. QED
        BY <3>5, <3>6, <4>2, <4>3 DEF SameBody
    <3>9. QED
      BY <3>7, <3>8
  <2>3. QED
    BY <2>1, <2>2
<1>7. QED
  BY <1>4, <1>5, <1>6 DEF e

\* What a step with mail leaves as it was.
LEMMA MailStep ==
    ASSUME SessionsInv, SessionTypes', NEW s \in Session,
           UNCHANGED <<registry, alive, noted, content, known, shown, unsaid, ms>>,
           busy[s].at \notin {"draining", "reading"}, busy'[s].at \notin {"draining", "reading"},
           BusyRight(s)', \A o \in Session : o # s => busy'[o] = busy[o],
           \A row \in mail' : RowRight(row)', \A o \in Session : SameBox(o),
           \A m \in sent' : Reached(m[2])' => KeptFor(m[2], m[1], m[3])',
           \A o \in S!Live, f \in File :
             Outdated(o, f) /\ Pending(o, f) => S!ToldOf(o, f)' \/ Pending(o, f)'
    PROVE  SessionsInv'
<1>1. S!Live' = S!Live /\ \A o \in Session : Reached(o)' <=> Reached(o)
  BY DEF S!Live, Reached
<1>2. ASSUME NEW o \in Session, NEW from \in Session, NEW text \in Text, KeptFor(o, from, text)
      PROVE  KeptFor(o, from, text)'
  BY <1>2, BoxKeeps DEF SameBox
<1>3. ASSUME NEW o \in Session PROVE BusyRight(o)'
  <2>1. ms \in Nat
    BY DEF SessionsInv, SessionTypes
  <2>2. QED
    BY <1>1, <1>2, <2>1, BusyStays DEF SessionsInv
<1>4. ASSUME NEW o \in S!Live, NEW f \in File PROVE Told(o, f)'
  <2>1. Told(o, f) /\ o \in Session
    BY DEF SessionsInv, S!Live
  <2>2. Outdated(o, f)' <=> Outdated(o, f)
    <3>1. CASE o = s
      BY <3>1 DEF Outdated, S!Stale
    <3>2. CASE o # s
      BY <2>1, <3>2 DEF Outdated, S!Stale
    <3>3. QED
      BY <3>1, <3>2
  <2>3. Hushed(o, f) => Hushed(o, f)'
    BY HushedGrows
  <2>4. SameBox(o)
    BY <2>1
  <2>5. CASE Outdated(o, f)
    <3>1. Pending(o, f) => Pending(o, f)' \/ Hushed(o, f)' \/ S!ToldOf(o, f)'
      BY <2>5
    <3>2. QED
      BY <2>1, <2>2, <2>3, <2>4, <3>1, ToldStays
  <2>6. CASE ~Outdated(o, f)
    BY <2>2, <2>6 DEF Told
  <2>7. QED
    BY <2>5, <2>6
<1>5. QED
  BY <1>1, <1>3, <1>4 DEF SessionsInv

LEMMA SentGrows ==
    ASSUME SessionsInv, UNCHANGED <<registry, alive, shown>>, \A o \in Session : SameBox(o),
           \A m \in sent' \ sent : Reached(m[2])' => KeptFor(m[2], m[1], m[3])'
    PROVE  \A m \in sent' : Reached(m[2])' => KeptFor(m[2], m[1], m[3])'
<1>1. ASSUME NEW m \in sent, Reached(m[2])' PROVE KeptFor(m[2], m[1], m[3])'
  <2>1. m[1] \in Session /\ m[2] \in Session /\ m[3] \in Text /\ Reached(m[2])
    BY <1>1 DEF SessionsInv, SessionTypes, Reached, S!Live
  <2>2. KeptFor(m[2], m[1], m[3])
    BY <2>1 DEF SessionsInv
  <2>3. QED
    BY <2>1, <2>2, BoxKeeps DEF SameBox
<1>2. QED
  BY <1>1

LEMMA StepNotify ==
    ASSUME SessionsInv, NEW s \in Session, S!notify(s)
    PROVE  SessionsInv'
<1>1. /\ busy[s].at = "notifying" /\ busy[s].file \in File
      /\ busy[s] = [at |-> "notifying", file |-> busy[s].file, left |-> busy[s].left]
      /\ UNCHANGED <<registry, alive, noted, content, known, shown, sent, unsaid, ms>>
      /\ busy[s].left \subseteq Session
  BY DEF S!notify, SessionsInv, BusyRight
<1>2. busy = [o \in Session |-> busy[o]] /\ s \in S!Live /\ S!Live' = S!Live
  BY <1>1 DEF SessionsInv, SessionTypes, BusyRight, S!Live
<1>3. CASE busy[s].left = {} /\ busy' = [busy EXCEPT ![s] = S!Idle] /\ UNCHANGED mail
  <2>1. /\ busy' = [o \in Session |-> busy'[o]] /\ busy'[s] = S!Idle /\ busy'[s].at = "idle"
        /\ \A o \in Session : o # s => busy'[o] = busy[o]
    BY <1>2, <1>3 DEF S!Idle
  <2>2. SessionTypes'
    BY <1>1, <2>1 DEF SessionsInv, SessionTypes
  <2>3. BusyRight(s)'
    BY <2>1 DEF BusyRight, S!Idle
  <2>4. \A o \in Session : S!Batch(o)' = S!Batch(o) /\ SameBox(o)
    BY <1>1, <1>3, <2>1 DEF SameBox, Box, S!Waiting, S!Batch, SameBody
  <2>5. \A row \in mail' : RowRight(row)'
    <3>1. ms \in Nat
      BY DEF SessionsInv, SessionTypes
    <3>2. S!Live' \subseteq Session
      BY DEF S!Live
    <3>3. QED
      BY <1>1, <1>2, <1>3, <2>4, <3>1, <3>2, RowsStay
  <2>6. ASSUME NEW o \in S!Live, NEW f \in File, Pending(o, f) PROVE Pending(o, f)'
    BY <1>1, <1>3, <2>1, <2>6 DEF Pending
  <2>7. \A m \in sent' : Reached(m[2])' => KeptFor(m[2], m[1], m[3])'
    BY <1>1, <2>4, SentGrows
  <2>8. QED
    BY <1>1, <2>1, <2>2, <2>3, <2>4, <2>5, <2>6, <2>7, MailStep
<1>4. ASSUME NEW to \in busy[s].left, busy' = [busy EXCEPT ![s].left = @ \ {to}],
             S!persist(S!Envelope("file.changed", s, to, busy[s].file))
      PROVE  SessionsInv'
  <2>1. /\ busy' = [o \in Session |-> busy'[o]]
        /\ busy'[s] = [at |-> "notifying", file |-> busy[s].file, left |-> busy[s].left \ {to}]
        /\ \A o \in Session : o # s => busy'[o] = busy[o]
    BY <1>1, <1>2, <1>4
  <2>2. SessionTypes'
    BY <1>1, <2>1 DEF SessionsInv, SessionTypes
  <2>3. BusyRight(s)'
    BY <1>1, <1>2, <2>1 DEF BusyRight
  <2>4. \A o \in Session : S!Batch(o)' = S!Batch(o)
    BY <1>1, <2>1 DEF S!Batch
  <2>5. CASE to \in Session
    <3>1. /\ \A row \in mail' : RowRight(row)'
          /\ \A o \in Session : SameBox(o)
          /\ Reached(to) => \E row \in Box(to)' : /\ row.topic = "file.changed" /\ row.from = s
                                                  /\ row.payload = busy[s].file
      BY <1>1, <1>4, <2>4, <2>5, Persisted
    <3>2. ASSUME NEW o \in S!Live, NEW f \in File, Pending(o, f)
          PROVE  S!ToldOf(o, f)' \/ Pending(o, f)'
      <4>1. PICK w \in Session \ {o} : /\ busy[w].at \in {"touching", "notifying"} /\ busy[w].file = f
                                       /\ busy[w].at = "notifying" => o \in busy[w].left
        BY <3>2 DEF Pending
      <4>2. CASE w = s /\ o = to
        <5>1. PICK row \in Box(to)' : row.topic = "file.changed" /\ row.payload = f
          BY <3>1, <4>1, <4>2 DEF Reached
        <5>2. QED
          BY <4>2, <5>1 DEF S!ToldOf, Box
      <4>3. CASE w = s /\ o # to
        BY <1>1, <2>1, <4>1, <4>3 DEF Pending
      <4>4. CASE w # s
        BY <2>1, <4>1, <4>4 DEF Pending
      <4>5. QED
        BY <4>2, <4>3, <4>4
    <3>3. \A m \in sent' : Reached(m[2])' => KeptFor(m[2], m[1], m[3])'
      BY <1>1, <3>1, SentGrows
    <3>4. QED
      BY <1>1, <2>1, <2>2, <2>3, <3>1, <3>2, <3>3, MailStep
  <2>6. QED
    BY <1>1, <1>4, <2>5
<1>5. QED
  BY <1>3, <1>4 DEF S!notify

LEMMA StepSend ==
    ASSUME SessionsInv, NEW s \in Session, NEW to \in Session, NEW text \in Text,
           S!send_message(s, to, text)
    PROVE  SessionsInv'
<1> DEFINE accepts == S!accepted(S!Envelope("message", s, to, text))
<1>1. /\ busy[s].at = "idle" /\ S!persist(S!Envelope("message", s, to, text))
      /\ sent' = IF accepts THEN sent \cup {<<s, to, text>>} ELSE sent
      /\ UNCHANGED <<registry, alive, noted, content, known, busy, shown, unsaid, ms>>
  BY DEF S!send_message, S!Idle
<1>2. \A o \in Session : S!Batch(o)' = S!Batch(o) /\ (Reached(o)' <=> Reached(o))
  BY <1>1 DEF S!Batch, Reached, S!Live
<1>3. /\ \A row \in mail' : RowRight(row)'
      /\ \A o \in Session : SameBox(o)
      /\ Reached(to) /\ accepts => \E row \in Box(to)' : /\ row.topic = "message" /\ row.from = s
                                                         /\ row.payload = text
  BY <1>1, <1>2, Persisted
<1>4. accepts /\ Reached(to)' => KeptFor(to, s, text)'
  BY <1>2, <1>3 DEF KeptFor
<1> HIDE DEF accepts
<1>5. \A m \in sent' : Reached(m[2])' => KeptFor(m[2], m[1], m[3])'
  <2>1. ASSUME NEW m \in sent' \ sent, Reached(m[2])' PROVE KeptFor(m[2], m[1], m[3])'
    <3>1. m = <<s, to, text>> /\ accepts
      BY <1>1, <2>1
    <3>2. m[1] = s /\ m[2] = to /\ m[3] = text
      BY <3>1
    <3>3. QED
      BY <1>4, <2>1, <3>1, <3>2
  <2>2. QED
    BY <1>1, <1>3, <2>1, SentGrows
<1>6. SessionTypes'
  BY <1>1 DEF SessionsInv, SessionTypes
<1>7. BusyRight(s)'
  BY <1>1 DEF BusyRight
<1>8. ASSUME NEW o \in S!Live, NEW f \in File, Pending(o, f) PROVE Pending(o, f)'
  BY <1>1, <1>8 DEF Pending
<1>9. QED
  BY <1>1, <1>3, <1>5, <1>6, <1>7, <1>8, MailStep

LEMMA StepBroadcast ==
    ASSUME SessionsInv, NEW s \in Session, NEW text \in Text, S!broadcast_message(s, text)
    PROVE  SessionsInv'
<1> DEFINE others == S!Live \ {s}
<1>1. /\ busy[s].at = "idle" /\ s \in S!Live /\ S!Live' = S!Live
      /\ busy' = [busy EXCEPT ![s] = [at |-> "broadcasting", text |-> text, left |-> others,
                                      to |-> others]]
      /\ UNCHANGED <<registry, alive, noted, content, mail, known, shown, sent, unsaid, ms>>
  BY DEF S!broadcast_message, S!Idle, S!Live
<1>2. others \subseteq Session
  BY DEF S!Live
<1> HIDE DEF others
<1>3. /\ busy' = [o \in Session |-> busy'[o]]
      /\ busy'[s] = [at |-> "broadcasting", text |-> text, left |-> others, to |-> others]
      /\ \A o \in Session : o # s => busy'[o] = busy[o]
  BY <1>1 DEF SessionsInv, SessionTypes
<1>4. SessionTypes'
  BY <1>1, <1>3 DEF SessionsInv, SessionTypes
<1>5. BusyRight(s)'
  BY <1>1, <1>2, <1>3 DEF BusyRight
<1>6. \A o \in Session : S!Batch(o)' = S!Batch(o) /\ SameBox(o)
  BY <1>1, <1>3 DEF SameBox, Box, S!Waiting, S!Batch, SameBody
<1>7. \A row \in mail' : RowRight(row)'
  <2>1. ms \in Nat /\ S!Live' \subseteq Session
    BY DEF SessionsInv, SessionTypes, S!Live
  <2>2. QED
    BY <1>1, <1>6, <2>1, RowsStay
<1>8. \A m \in sent' : Reached(m[2])' => KeptFor(m[2], m[1], m[3])'
  BY <1>1, <1>6, SentGrows
<1>9. ASSUME NEW o \in S!Live, NEW f \in File, Pending(o, f) PROVE Pending(o, f)'
  BY <1>1, <1>3, <1>9 DEF Pending
<1>10. QED
  BY <1>1, <1>3, <1>4, <1>5, <1>6, <1>7, <1>8, <1>9, MailStep

LEMMA StepBroadcasts ==
    ASSUME SessionsInv, NEW s \in Session, S!broadcasts(s)
    PROVE  SessionsInv'
<1>1. /\ busy[s].at = "broadcasting" /\ BusyRight(s)
      /\ UNCHANGED <<registry, alive, noted, content, known, shown, unsaid, ms>>
  BY DEF S!broadcasts, SessionsInv
<1>2. /\ busy[s] = [at |-> "broadcasting", text |-> busy[s].text, left |-> busy[s].left,
                    to |-> busy[s].to]
      /\ busy[s].text \in Text /\ busy[s].left \subseteq busy[s].to /\ busy[s].to \subseteq Session
      /\ \A o \in busy[s].to \ busy[s].left : Reached(o) => KeptFor(o, s, busy[s].text)
  BY <1>1 DEF BusyRight
<1>3. /\ busy = [o \in Session |-> busy[o]] /\ s \in S!Live /\ S!Live' = S!Live
      /\ \A o \in Session : Reached(o)' <=> Reached(o)
  BY <1>1 DEF SessionsInv, SessionTypes, BusyRight, S!Live, Reached
<1>4. CASE /\ busy[s].left = {} /\ busy' = [busy EXCEPT ![s] = S!Idle] /\ UNCHANGED mail
           /\ sent' = sent \cup {<<s, o, busy[s].text>> : o \in busy[s].to}
  <2>1. /\ busy' = [o \in Session |-> busy'[o]] /\ busy'[s] = S!Idle /\ busy'[s].at = "idle"
        /\ \A o \in Session : o # s => busy'[o] = busy[o]
    BY <1>3, <1>4 DEF S!Idle
  <2>2. SessionTypes'
    BY <1>1, <1>2, <1>4, <2>1 DEF SessionsInv, SessionTypes
  <2>3. BusyRight(s)'
    BY <2>1 DEF BusyRight, S!Idle
  <2>4. \A o \in Session : S!Batch(o)' = S!Batch(o) /\ SameBox(o)
    BY <1>1, <1>4, <2>1 DEF SameBox, Box, S!Waiting, S!Batch, SameBody
  <2>5. \A row \in mail' : RowRight(row)'
    <3>1. ms \in Nat /\ S!Live' \subseteq Session
      BY DEF SessionsInv, SessionTypes, S!Live
    <3>2. QED
      BY <1>1, <1>3, <1>4, <2>4, <3>1, RowsStay
  <2>6. ASSUME NEW o \in S!Live, NEW f \in File, Pending(o, f) PROVE Pending(o, f)'
    BY <1>1, <2>1, <2>6 DEF Pending
  <2>7. ASSUME NEW m \in sent' \ sent, Reached(m[2])' PROVE KeptFor(m[2], m[1], m[3])'
    <3>1. PICK o \in busy[s].to : m = <<s, o, busy[s].text>>
      BY <1>4, <2>7
    <3>2. m[1] = s /\ m[2] = o /\ m[3] = busy[s].text /\ o \in Session
      BY <1>2, <3>1
    <3>3. KeptFor(o, s, busy[s].text)
      BY <1>2, <1>3, <1>4, <2>7, <3>1, <3>2
    <3>4. SameBox(o) /\ shown' = shown
      BY <1>1, <2>4, <3>2
    <3>5. KeptFor(m[2], m[1], m[3])
      BY <3>2, <3>3
    <3>6. QED
      BY <3>2, <3>4, <3>5, BoxKeeps DEF SameBox
  <2>8. \A m \in sent' : Reached(m[2])' => KeptFor(m[2], m[1], m[3])'
    BY <1>1, <2>4, <2>7, SentGrows
  <2>9. QED
    BY <1>1, <2>1, <2>2, <2>3, <2>4, <2>5, <2>6, <2>8, MailStep
<1>5. ASSUME NEW to \in busy[s].left, UNCHANGED sent,
             S!persist(S!Envelope("message", s, to, busy[s].text)),
             busy' = IF S!accepted(S!Envelope("message", s, to, busy[s].text))
                       THEN [busy EXCEPT ![s].left = @ \ {to}] ELSE [busy EXCEPT ![s] = S!Idle]
      PROVE  SessionsInv'
  <2> DEFINE accepts == S!accepted(S!Envelope("message", s, to, busy[s].text))
  <2>1. /\ busy' = [o \in Session |-> busy'[o]]
        /\ busy'[s] = IF accepts
                        THEN [at |-> "broadcasting", text |-> busy[s].text,
                              left |-> busy[s].left \ {to}, to |-> busy[s].to]
                        ELSE S!Idle
        /\ \A o \in Session : o # s => busy'[o] = busy[o]
    <3>1. CASE accepts
      <4>1. busy' = [busy EXCEPT ![s].left = @ \ {to}]
        BY <1>5, <3>1
      <4>2. QED
        BY <1>2, <1>3, <3>1, <4>1
    <3>2. CASE ~accepts
      <4>1. busy' = [busy EXCEPT ![s] = S!Idle]
        BY <1>5, <3>2
      <4>2. QED
        BY <1>3, <3>2, <4>1
    <3>3. QED
      BY <3>1, <3>2
  <2>2. busy'[s].at \in {"idle", "broadcasting"}
    BY <2>1 DEF S!Idle
  <2>3. SessionTypes'
    BY <1>1, <1>5, <2>1 DEF SessionsInv, SessionTypes
  <2>4. \A o \in Session : S!Batch(o)' = S!Batch(o)
    BY <1>1, <2>1, <2>2 DEF S!Batch
  <2>5. to \in Session
    BY <1>2
  <2>6. /\ \A row \in mail' : RowRight(row)'
        /\ \A o \in Session : SameBox(o)
        /\ Reached(to) /\ accepts => \E row \in Box(to)' : /\ row.topic = "message" /\ row.from = s
                                                           /\ row.payload = busy[s].text
    BY <1>1, <1>5, <2>4, <2>5, Persisted
  <2> HIDE DEF accepts
  <2>7. BusyRight(s)'
    <3>1. CASE accepts
      <4>1. busy'[s] = [at |-> "broadcasting", text |-> busy[s].text,
                        left |-> busy[s].left \ {to}, to |-> busy[s].to]
        BY <2>1, <3>1
      <4>2. ASSUME NEW o \in busy[s].to \ (busy[s].left \ {to}), Reached(o)'
            PROVE  KeptFor(o, s, busy[s].text)'
        <5>1. PICK text \in Text : text = busy[s].text
          BY <1>2
        <5>2. busy'[s].text = text /\ o \in Session /\ Reached(o)
          BY <1>2, <1>3, <4>1, <4>2, <5>1
        <5>3. KeptFor(o, s, text)'
          <6>1. CASE o = to
            BY <2>6, <3>1, <5>1, <5>2, <6>1 DEF KeptFor
          <6>2. CASE o # to
            <7>1. KeptFor(o, s, text)
              BY <1>2, <4>2, <5>1, <5>2, <6>2
            <7>2. QED
              BY <1>1, <2>6, <5>2, <7>1, BoxKeeps DEF SameBox
          <6>3. QED
            BY <6>1, <6>2
        <5>4. QED
          BY <5>2, <5>3 DEF KeptFor
      <4>3. QED
        BY <1>2, <1>3, <4>1, <4>2 DEF BusyRight
    <3>2. CASE ~accepts
      <4>1. busy'[s].at = "idle"
        BY <2>1, <3>2 DEF S!Idle
      <4>2. QED
        BY <4>1 DEF BusyRight
    <3>3. QED
      BY <3>1, <3>2
  <2>8. ASSUME NEW o \in S!Live, NEW f \in File, Pending(o, f) PROVE Pending(o, f)'
    BY <1>1, <2>1, <2>8 DEF Pending
  <2>9. \A m \in sent' : Reached(m[2])' => KeptFor(m[2], m[1], m[3])'
    BY <1>1, <1>5, <2>6, SentGrows
  <2>10. QED
    BY <1>1, <2>1, <2>2, <2>3, <2>6, <2>7, <2>8, <2>9, MailStep
<1>6. QED
  BY <1>4, <1>5 DEF S!broadcasts

-----------------------------------------------------------------------------
\* An edge of a turn of s: its own mail changes and nothing else of anyone.
LEMMA TurnStep ==
    ASSUME SessionsInv, SessionTypes', NEW s \in S!Live,
           UNCHANGED <<registry, alive, noted, content, known, sent, unsaid>>, ms' \in {ms, ms + 1},
           busy[s].at \in {"idle", "draining"}, busy'[s].at \in {"idle", "draining"},
           BusyRight(s)', \A o \in Session : o # s => busy'[o] = busy[o] /\ shown'[o] = shown[o],
           shown[s] \subseteq shown'[s], \A row \in mail' : RowRight(row)',
           \A o \in Session : o # s => SameBox(o),
           \A row \in Box(s) :
             \/ \E r \in Box(s)' : SameBody(r, row)
             \/ IF row.topic = "file.changed" THEN row.payload \in shown'[s]
                                              ELSE <<row.from, row.payload>> \in shown'[s]
    PROVE  SessionsInv'
<1>1. S!Live' = S!Live /\ s \in Session /\ \A o \in Session : Reached(o)' <=> Reached(o)
  BY DEF S!Live, Reached
<1>2. ASSUME NEW o \in Session, NEW from, NEW text, KeptFor(o, from, text)
      PROVE  KeptFor(o, from, text)'
  <2>1. CASE o = s
    BY <1>2, <2>1, BoxKeeps
  <2>2. CASE o # s
    BY <1>2, <2>2, BoxKeeps DEF SameBox
  <2>3. QED
    BY <2>1, <2>2
<1>3. ASSUME NEW o \in Session, NEW f, S!ToldOf(o, f) PROVE S!ToldOf(o, f)'
  <2>1. CASE o = s
    BY <1>3, <2>1, BoxTells
  <2>2. CASE o # s
    BY <1>3, <2>2, BoxTells DEF SameBox
  <2>3. QED
    BY <2>1, <2>2
<1>4. ASSUME NEW o \in Session PROVE BusyRight(o)'
  <2>1. ms \in Nat
    BY DEF SessionsInv, SessionTypes
  <2>2. QED
    BY <1>1, <1>2, <2>1, BusyStays DEF SessionsInv
<1>5. ASSUME NEW o \in S!Live, NEW f \in File PROVE Told(o, f)'
  <2>1. Told(o, f) /\ o \in Session
    BY DEF SessionsInv, S!Live
  <2>2. Outdated(o, f)' <=> Outdated(o, f)
    <3>1. CASE o = s
      BY <3>1 DEF Outdated, S!Stale
    <3>2. CASE o # s
      BY <2>1, <3>2 DEF Outdated, S!Stale
    <3>3. QED
      BY <3>1, <3>2
  <2>3. Hushed(o, f) => Hushed(o, f)'
    BY HushedGrows
  <2>4. Pending(o, f) => Pending(o, f)'
    BY <1>1 DEF Pending
  <2>5. QED
    BY <1>3, <2>1, <2>2, <2>3, <2>4 DEF Told
<1>6. ASSUME NEW m \in sent, Reached(m[2])' PROVE KeptFor(m[2], m[1], m[3])'
  <2>1. m[2] \in Session /\ Reached(m[2])
    BY <1>1, <1>6 DEF SessionsInv, SessionTypes
  <2>2. KeptFor(m[2], m[1], m[3])
    BY <2>1 DEF SessionsInv
  <2>3. QED
    BY <1>2, <2>1, <2>2
<1>7. QED
  BY <1>1, <1>4, <1>5, <1>6 DEF SessionsInv

LEMMA StepDrain ==
    ASSUME SessionsInv, NEW s \in Session, S!drain(s)
    PROVE  SessionsInv'
<1> DEFINE got == S!Waiting(s)
<1>1. /\ s \in S!Live /\ busy[s].at = "idle"
      /\ busy' = [busy EXCEPT ![s] = [at |-> "draining", got |-> got, left |-> got]]
      /\ UNCHANGED <<registry, alive, noted, content, mail, known, shown, sent, unsaid, ms>>
  BY DEF S!drain, S!Idle, S!Waiting
<1>2. \A row \in got : IsRow(row) /\ row.to = s /\ ~row.delivered /\ row.id[4] \in 0..ms
  BY DEF S!Waiting, SessionsInv, RowRight
<1> HIDE DEF got
<1>3. /\ busy' = [o \in Session |-> busy'[o]]
      /\ busy'[s] = [at |-> "draining", got |-> got, left |-> got]
      /\ \A o \in Session : o # s => busy'[o] = busy[o]
  BY <1>1 DEF SessionsInv, SessionTypes
<1>4. SessionTypes' /\ S!Live' = S!Live /\ S!Live \subseteq Session /\ ms \in Nat
  BY <1>1, <1>3 DEF SessionsInv, SessionTypes, S!Live
<1>5. BusyRight(s)'
  BY <1>1, <1>2, <1>3, <1>4 DEF BusyRight
<1>6. \A o \in Session : S!Batch(o) \subseteq S!Batch(o)'
  BY <1>1, <1>3 DEF S!Batch
<1>7. \A o \in Session : SameBox(o)
  BY <1>1, <1>6 DEF SameBox, Box, S!Waiting, SameBody
<1>8. \A row \in mail' : RowRight(row)'
  BY <1>1, <1>4, <1>6, RowsStay
<1>9. QED
  BY <1>1, <1>3, <1>4, <1>5, <1>7, <1>8, TurnStep DEF SameBox

LEMMA Delivered ==
    ASSUME NEW row, IsRow(row), NEW on
    PROVE  [row EXCEPT !.delivered = on] =
             [id |-> row.id, topic |-> row.topic, from |-> row.from, to |-> row.to,
              payload |-> row.payload, delivered |-> on]
BY DEF IsRow

LEMMA StepMark ==
    ASSUME SessionsInv, NEW s \in Session, S!mark_delivered(s)
    PROVE  SessionsInv'
<1>1. PICK row \in busy[s].left : /\ mail' = (mail \ {row}) \cup {[row EXCEPT !.delivered = TRUE]}
                                  /\ busy' = [busy EXCEPT ![s].left = @ \ {row}]
  BY DEF S!mark_delivered
<1>2. /\ busy[s].at = "draining" /\ s \in S!Live /\ registry[s] # "none"
      /\ UNCHANGED <<registry, alive, noted, content, known, shown, sent, unsaid, ms>>
  BY DEF S!mark_delivered, SessionsInv, BusyRight, S!Live
<1>3. /\ busy[s] = [at |-> "draining", got |-> busy[s].got, left |-> busy[s].left]
      /\ busy[s].left \subseteq busy[s].got
      /\ \A r \in busy[s].got : IsRow(r) /\ r.to = s /\ ~r.delivered /\ r.id[4] \in 0..ms
  BY <1>2 DEF SessionsInv, BusyRight
<1>4. /\ busy' = [o \in Session |-> busy'[o]]
      /\ busy'[s] = [at |-> "draining", got |-> busy[s].got, left |-> busy[s].left \ {row}]
      /\ \A o \in Session : o # s => busy'[o] = busy[o]
  <2>1. busy = [o \in Session |-> busy[o]]
    BY DEF SessionsInv, SessionTypes
  <2>2. busy'[s] = [busy[s] EXCEPT !.left = @ \ {row}]
    BY <1>1, <2>1
  <2>3. busy'[s] = [at |-> "draining", got |-> busy[s].got, left |-> busy[s].left \ {row}]
    BY <1>3, <2>2
  <2>4. QED
    BY <1>1, <2>1, <2>3
<1>5. SessionTypes' /\ S!Live' = S!Live
  BY <1>2, <1>4 DEF SessionsInv, SessionTypes, S!Live
<1>6. BusyRight(s)'
  BY <1>2, <1>3, <1>4, <1>5 DEF BusyRight
<1>7. \A o \in Session : S!Batch(o)' = S!Batch(o)
  BY <1>2, <1>4 DEF S!Batch
<1>8. /\ row \in busy[s].got /\ IsRow(row) /\ row.to = s /\ ~row.delivered
      /\ row.id[4] \in 0..ms /\ row \in S!Batch(s)'
  BY <1>1, <1>2, <1>3, <1>4 DEF S!Batch
<1>9. PICK on : on = TRUE
  OBVIOUS
<1> DEFINE d == [row EXCEPT !.delivered = on]
<1>10. d = [id |-> row.id, topic |-> row.topic, from |-> row.from, to |-> row.to,
           payload |-> row.payload, delivered |-> on]
  BY <1>8, Delivered
<1>11. mail' = (mail \ {row}) \cup {d}
  BY <1>1, <1>9
<1> HIDE DEF d
<1>12. d.id = row.id /\ d.topic = row.topic /\ d.from = row.from /\ d.to = row.to
       /\ d.payload = row.payload /\ d.delivered /\ IsRow(d)
  BY <1>8, <1>9, <1>10 DEF IsRow
<1>122. ASSUME NEW r \in mail' PROVE RowRight(r)'
  <2>1. CASE r \in mail
    <3>1. RowRight(r) /\ r.to \in Session
      BY <2>1 DEF SessionsInv, RowRight
    <3>2. S!Batch(r.to)' = S!Batch(r.to)
      BY <1>7, <3>1
    <3>3. QED
      BY <1>2, <1>5, <3>1, <3>2 DEF RowRight
  <2>2. CASE r = d
    <3>1. SameBody(row, d)
      BY <1>12 DEF SameBody
    <3>2. QED
      BY <1>2, <1>8, <1>12, <2>2, <3>1 DEF RowRight
  <2>3. QED
    BY <1>11, <2>1, <2>2
<1>123. ASSUME NEW o \in Session PROVE SameBox(o)
  <2>1. ASSUME NEW r \in Box(o) PROVE \E r2 \in Box(o)' : SameBody(r2, r)
    <3>1. CASE r \in S!Batch(o) \/ r = row
      BY <1>7, <1>8, <2>1, <3>1 DEF Box, SameBody, S!Waiting
    <3>2. CASE r \in S!Waiting(o) /\ r # row
      BY <1>11, <3>2 DEF Box, S!Waiting, SameBody
    <3>3. QED
      BY <2>1, <3>1, <3>2 DEF Box
  <2>2. QED
    BY <2>1 DEF SameBox
<1>124. QED
  BY <1>2, <1>4, <1>5, <1>6, <1>122, <1>123, TurnStep DEF SameBox

LEMMA StepShows ==
    ASSUME SessionsInv, NEW s \in Session, S!shows(s)
    PROVE  SessionsInv'
<1>1. /\ busy[s].at = "draining" /\ s \in S!Live /\ ms' = ms + 1 /\ ms \in Nat
      /\ shown' = [shown EXCEPT ![s] = @ \cup
           {IF row.topic = "file.changed" THEN row.payload ELSE <<row.from, row.payload>>
              : row \in busy[s].got}]
      /\ busy' = [busy EXCEPT ![s] = S!Idle]
      /\ UNCHANGED <<registry, alive, noted, content, mail, known, sent, unsaid>>
  BY DEF S!shows, SessionsInv, SessionTypes, BusyRight
<1>2. /\ busy' = [o \in Session |-> busy'[o]] /\ busy'[s] = S!Idle
      /\ shown' = [o \in Session |-> shown'[o]] /\ shown[s] \subseteq shown'[s]
      /\ \A row \in S!Batch(s) :
           IF row.topic = "file.changed" THEN row.payload \in shown'[s]
                                         ELSE <<row.from, row.payload>> \in shown'[s]
      /\ \A o \in Session : o # s => busy'[o] = busy[o] /\ shown'[o] = shown[o]
  BY <1>1 DEF SessionsInv, SessionTypes, S!Batch
<1>3. SessionTypes' /\ S!Live' = S!Live /\ S!Live \subseteq Session
  BY <1>1, <1>2 DEF SessionsInv, SessionTypes, S!Live
<1>4. busy'[s].at = "idle" /\ BusyRight(s)'
  BY <1>2 DEF BusyRight, S!Idle
<1>5. \A row \in mail' : RowRight(row)'
  <2>1. ms' # ms
    BY <1>1
  <2>2. QED
    BY <1>1, <1>3, <2>1, RowsStay
<1>6. ASSUME NEW o \in Session, o # s PROVE SameBox(o)
  <2>1. S!Batch(o)' = S!Batch(o) /\ S!Waiting(o)' = S!Waiting(o)
    BY <1>1, <1>2, <1>6 DEF S!Batch, S!Waiting
  <2>2. QED
    BY <2>1 DEF SameBox, Box, SameBody
<1>7. \A row \in Box(s) :
         \/ \E r \in Box(s)' : SameBody(r, row)
         \/ IF row.topic = "file.changed" THEN row.payload \in shown'[s]
                                          ELSE <<row.from, row.payload>> \in shown'[s]
  <2>1. S!Waiting(s)' = S!Waiting(s)
    BY <1>1 DEF S!Waiting
  <2>2. QED
    BY <1>2, <2>1 DEF Box, SameBody
<1>8. QED
  BY <1>1, <1>2, <1>3, <1>4, <1>5, <1>6, <1>7, TurnStep

LEMMA StepSession ==
    ASSUME SessionsInv, \A f \in File : f \notin Session \X Text, S!SessionNext
    PROVE  SessionsInv'
BY StepTick, StepOpen, StepClosed, StepKill, StepRead, StepNote, StepChanged, StepTouched,
   StepNotify, StepSend, StepBroadcast, StepBroadcasts, StepDrain, StepMark, StepShows
   DEF S!SessionNext

-----------------------------------------------------------------------------
(* The theorems *)

\* An import is the beginning of its instance as long as it has the name to itself, and
\* no altered event reaches a journal; a mark of a snapshot keeps the first content; a
\* list of todos that a call reads or answers with was validated; and a page of a
\* terminal that is not flagged is the process's output from its offset on.
THEOREM DiskKept == Spec => []DiskIsKept
<1> DEFINE Inv == /\ part = "todos" => TodoInv
                  /\ part = "files" => FilesInv
                  /\ part = "terminals" => TerminalInv
                  /\ part = "transfer" => TransferInv
<1>1. Init => Inv
  BY WorkspaceAssumption, InitTodo, InitFiles, InitTerminal, InitTransfer DEF Init
<1>2. Inv /\ [Next]_vars => Inv'
  <2>1. CASE UNCHANGED vars
    <3> USE <2>1 DEF vars, sessions, transfer, files, todos, terminals
    <3>1. TodoInv => TodoInv'
      BY DEF TodoInv
    <3>2. FilesInv => FilesInv'
      BY DEF FilesInv
    <3>3. TerminalInv => TerminalInv'
      BY DEF TerminalInv, PageRight, B!Registered
    <3>4. TransferInv => TransferInv'
      BY DEF TransferInv, EnvelopeRight, ImporterRight, JournalRight, OwnName, T!Writing
    <3>5. QED
      BY <3>1, <3>2, <3>3, <3>4
  <2>2. ASSUME Inv, Next PROVE Inv'
    <3>1. /\ part' = part
          /\ part = "todos" => F!TodoNext
          /\ part = "files" => F!FilesNext
          /\ part = "terminals" => B!TerminalNext
          /\ part = "transfer" => T!TransferNext
      BY <2>2 DEF Next
    <3>2. QED
      BY <2>2, <3>1, WorkspaceAssumption, StepTodo, StepFiles, StepTerminal, StepTransfer
  <2>3. QED
    BY <2>1, <2>2
<1>3. Inv => DiskIsKept
  BY KeptFiles, PageFromInv, ImportsFromInv DEF DiskIsKept, TodoInv, F!AnswersAreAllowed
<1>4. QED
  BY <1>1, <1>2, <1>3, PTL DEF Spec

\* A session whose history holds an older version of a file than the disk has been told,
\* or finds the notice in its box, but for the three gaps the model names; and a message
\* its sender was told is sent is not lost on a session that lives.
THEOREM SessionsTold == Spec => []SessionsAreTold
<1> DEFINE Inv == part = "sessions" => SessionsInv
<1>1. Init => Inv
  BY InitSessions DEF Init
<1>2. Inv /\ [Next]_vars => Inv'
  <2> SUFFICES ASSUME Inv, [Next]_vars, part' = "sessions" PROVE SessionsInv'
    OBVIOUS
  <2>1. part = "sessions" /\ (S!SessionNext \/ UNCHANGED sessions)
    BY DEF Next, vars
  <2>2. CASE UNCHANGED sessions
    <3> USE <2>2 DEF sessions
    <3>1. SessionTypes' /\ S!Live' = S!Live
      BY <2>1 DEF SessionsInv, SessionTypes, S!Live
    <3>2. \A o \in Session : S!Batch(o)' = S!Batch(o) /\ S!Waiting(o)' = S!Waiting(o)
      BY DEF S!Batch, S!Waiting
    <3>3. \A o, from, text : KeptFor(o, from, text)' <=> KeptFor(o, from, text)
      BY DEF KeptFor, Box, S!Batch, S!Waiting
    <3>4. \A row \in mail' : RowRight(row)'
      BY <2>1, <3>1 DEF SessionsInv, RowRight, S!Batch
    <3>5. \A o \in Session : BusyRight(o)'
      BY <2>1, <3>1, <3>3 DEF SessionsInv, BusyRight, Reached
    <3>6. \A o \in S!Live', f \in File : Told(o, f)'
      BY <2>1, <3>1 DEF SessionsInv, Told, Outdated, Hushed, S!Unsaid, S!Forgotten, S!ToldOf,
         S!Waiting, S!Batch, Pending, S!Stale
    <3>7. \A m \in sent' : Reached(m[2])' => KeptFor(m[2], m[1], m[3])'
      BY <2>1, <3>1, <3>3 DEF SessionsInv, Reached
    <3>8. QED
      BY <3>1, <3>4, <3>5, <3>6, <3>7 DEF SessionsInv
  <2>3. QED
    BY <2>1, <2>2, StepSession, WorkspaceAssumption
<1>3. Inv => SessionsAreTold
  BY SessionsFromInv DEF SessionsAreTold
<1>4. QED
  BY <1>1, <1>2, <1>3, PTL DEF Spec
=============================================================================
