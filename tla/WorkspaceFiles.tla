---------------------------- MODULE WorkspaceFiles ----------------------------
(***************************************************************************)
(* The tools that change the files of a workspace: files.write and files.edit   *)
(* with the snapshot they take first, snapshot.restore, and their      *)
(* rotation.  Sessions are processes that share the directory; nothing locks it.   *)
(* A content is a number, 0 for no file; Edit maps    *)
(* a content to what the edit makes of it, or to 0 where its anchor is absent or     *)
(* not unique.  A mark is <<second, process>>, in the order of its name.              *)
(* And todo.read and todo.write (builtin_todo.rs): one file for all sessions,          *)
(* replaced as a whole by every write.  fs::write first cuts the file and then fills    *)
(* it, with nothing between two sessions.  An element of a list is <<id, status>>; one  *)
(* whose content is missing or too long is refused like one whose status is not of      *)
(* the four.                                                                            *)
(***************************************************************************)
EXTENDS Naturals, Sequences, FiniteSets, SequencesExt

CONSTANTS Process, Path, Content, Edit, TooBig, Keep, MaxSecond,
          Writer, Ids, Status, MaxItems,
          MaxLength    \* bound: the lists a caller sends

VARIABLES disk,         \* path -> content
          snaps,        \* mark -> the files copied under it
          tool,         \* process -> the call it is in
          second,
          first,        \* <<mark, path>> -> the first content overwritten under the mark
          todo,         \* the file: "absent", "cut" (empty), "torn" or "list"
          writing,      \* writer -> the list it is about to fill the file with
          answer        \* what the last call answered: "failed" or "list"

files_vars == <<disk, snaps, tool, second, first>>

Idle == [at |-> "idle"]
NoFiles == [p \in {} |-> 0]

FilesInit ==
    /\ disk \in [Path -> {0, CHOOSE c \in Content : Edit[c] # 0}]
    /\ snaps = [m \in {} |-> NoFiles] /\ tool = [p \in Process |-> Idle]
    /\ second = 1 /\ first = [k \in {} |-> 0]

Mark(p) == <<second, p>>
Before(m, n) == m[1] < n[1] \/ (m[1] = n[1] /\ m[2] < n[2])

\* rotate: the last Keep marks in the order of their names stay.
newest(marks) == {m \in marks : Cardinality({n \in marks : Before(m, n)}) < Keep}

Copied(m, path) == m \in DOMAIN snaps /\ path \in DOMAIN snaps[m]

\* Bug: the file copied earlier in the same second is copied over.
takes_again(m, path) ==
    LET had == IF m \in DOMAIN snaps THEN snaps[m] ELSE NoFiles
        all == [n \in DOMAIN snaps \cup {m} |->
                  IF n = m THEN [q \in DOMAIN had \cup {path} |->
                                   IF q = path THEN disk[path] ELSE had[q]]
                           ELSE snaps[n]]
    IN Restrict(all, newest(DOMAIN all))

\* take: the file is copied under the mark of this second unless it was already, and the
\* oldest marks removed.
take(m, path) ==
    IF disk[path] \in TooBig \cup {0} \/ Copied(m, path) THEN snaps
    ELSE takes_again(m, path)

\* What the snapshot is to keep: the content found when the mark was first asked for.
\* A mark the rotation has removed starts afresh.
remember(m, path, kept) ==
    LET old == Restrict(first, {k \in DOMAIN first : k[1] \in DOMAIN kept})
    IN IF disk[path] \in TooBig \cup {0} \/ <<m, path>> \in DOMAIN old \/ m \notin DOMAIN kept
         THEN old ELSE [k \in DOMAIN old \cup {<<m, path>>} |->
                          IF k = <<m, path>> THEN disk[path] ELSE old[k]]

Snapshot(p, path) == /\ snaps' = take(Mark(p), path)
                     /\ first' = remember(Mark(p), path, take(Mark(p), path))

\* files.write: the snapshot, then the write; the two are not one step.
files_write(p, path, c) ==
    /\ tool[p] = Idle /\ Snapshot(p, path)
    /\ tool' = [tool EXCEPT ![p] = [at |-> "writing", path |-> path, new |-> c]]
    /\ UNCHANGED <<disk, second>>

\* files.edit: precheck reads the file, then the snapshot, then call reads it again.
files_edit(p, path) ==
    /\ tool[p] = Idle /\ disk[path] # 0 /\ disk[path] \notin TooBig /\ Edit[disk[path]] # 0
    /\ tool' = [tool EXCEPT ![p] = [at |-> "prechecked", path |-> path]]
    /\ UNCHANGED <<disk, snaps, second, first>>

edit_snapshot(p) ==
    /\ tool[p].at = "prechecked" /\ Snapshot(p, tool[p].path)
    /\ tool' = [tool EXCEPT ![p].at = "editing"]
    /\ UNCHANGED <<disk, second>>

edit_call(p) ==
    LET now == disk[tool[p].path]
        fits == now # 0 /\ now \notin TooBig /\ Edit[now] # 0
    IN /\ tool[p].at = "editing"
       /\ tool' = [tool EXCEPT ![p] = IF fits THEN [at |-> "writing", path |-> tool[p].path,
                                                    new |-> Edit[now]]
                                      ELSE Idle]
       /\ UNCHANGED <<disk, snaps, second, first>>

writes(p) ==
    /\ tool[p].at = "writing" /\ disk' = [disk EXCEPT ![tool[p].path] = tool[p].new]
    /\ tool' = [tool EXCEPT ![p] = Idle]
    /\ UNCHANGED <<snaps, second, first>>

\* snapshot.restore: for each file of the mark the current content is taken first, which
\* may rotate the mark itself away; then the copy, which fails if it is gone.
restore(p, m, only) ==
    /\ tool[p] = Idle /\ m \in DOMAIN snaps
    /\ DOMAIN snaps[m] \cap only # {}
    /\ tool' = [tool EXCEPT ![p] = [at |-> "restoring", mark |-> m,
                                    left |-> DOMAIN snaps[m] \cap only]]
    /\ UNCHANGED <<disk, snaps, second, first>>

restore_takes(p) ==
    /\ tool[p].at = "restoring"
    /\ \E path \in tool[p].left :
         /\ Snapshot(p, path)
         /\ tool' = [tool EXCEPT ![p] = [at |-> "copying", mark |-> @.mark, path |-> path,
                                         left |-> @.left \ {path}]]
    /\ UNCHANGED <<disk, second>>

restore_copies(p) ==
    LET t == tool[p]
    IN /\ t.at = "copying"
       /\ IF Copied(t.mark, t.path)
            THEN /\ disk' = [disk EXCEPT ![t.path] = snaps[t.mark][t.path]]
                 /\ tool' = [tool EXCEPT ![p] = IF t.left = {} THEN Idle
                       ELSE [at |-> "restoring", mark |-> t.mark, left |-> t.left]]
            ELSE /\ tool' = [tool EXCEPT ![p] = Idle] /\ UNCHANGED disk
       /\ UNCHANGED <<snaps, second, first>>

\* The process is killed between two steps of its call.
killed(p) == /\ tool[p] # Idle /\ tool' = [tool EXCEPT ![p] = Idle]
             /\ UNCHANGED <<disk, snaps, second, first>>

tick == /\ second < MaxSecond /\ second' = second + 1
        /\ UNCHANGED <<disk, snaps, tool, first>>

FilesNext ==
    \/ tick
    \/ \E p \in Process :
         \/ edit_snapshot(p) \/ edit_call(p) \/ writes(p)
         \/ restore_takes(p) \/ restore_copies(p) \/ killed(p)
         \/ \E path \in Path : \/ files_edit(p, path)
                               \/ \E c \in Content : files_write(p, path, c)
         \/ \E m \in DOMAIN snaps, only \in {Path} \cup {{path} : path \in Path} : restore(p, m, only)

-----------------------------------------------------------------------------
(* The list of todos *)

todo_vars == <<todo, writing, answer>>

VALID_STATUSES == {"pending", "in_progress", "completed", "cancelled"}

Lists == SeqOf(Ids \X Status, MaxLength)
List(list) == [is |-> "list", of |-> list]
Without(is) == [is |-> is, of |-> <<>>]
NotWriting == Without("idle")

TodoInit ==
    todo = Without("absent") /\ writing = [w \in Writer |-> NotWriting] /\ answer = List(<<>>)

\* The whole list is validated before anything is written.
allowed(list) ==
    /\ Len(list) <= MaxItems
    /\ \A i \in DOMAIN list : list[i][1] # "" /\ list[i][2] \in VALID_STATUSES
    /\ \A i, j \in DOMAIN list : list[i][1] = list[j][1] => i = j
    /\ \A i, j \in DOMAIN list :
         list[i][2] = "in_progress" /\ list[j][2] = "in_progress" => i = j

\* Refused by the validation, or the directory or the file cannot be opened.
fails == answer' = Without("failed") /\ UNCHANGED <<todo, writing>>

write(w, list) ==
    /\ writing[w] = NotWriting
    /\ \/ fails
       \/ /\ allowed(list) /\ todo' = Without("cut") /\ UNCHANGED answer
          /\ writing' = [writing EXCEPT ![w] = List(list)]

\* On a file that another writer has filled since, the end of a longer list stays.
Filled(list) == {List(list)} \cup IF todo.is = "cut" THEN {} ELSE {Without("torn")}

written(w) ==
    /\ writing[w] # NotWriting
    /\ todo' \in Filled(writing[w].of)
    /\ writing' = [writing EXCEPT ![w] = NotWriting] /\ answer' = List(writing[w].of)

\* A disk error or the end of the process, with nothing, a part or all of it written.
broken_off(w) ==
    /\ writing[w] # NotWriting /\ writing' = [writing EXCEPT ![w] = NotWriting]
    /\ todo' \in {todo, Without("torn")} \cup Filled(writing[w].of)
    /\ answer' \in {answer, Without("failed")}

\* An absent file is an empty list; a file that is no list is an error, not an empty list.
read ==
    /\ answer' = IF todo.is \in {"cut", "torn"} THEN Without("failed") ELSE List(todo.of)
    /\ UNCHANGED <<todo, writing>>

TodoNext == read \/ \E w \in Writer : \/ written(w) \/ broken_off(w)
                                      \/ \E list \in Lists : write(w, list)

-----------------------------------------------------------------------------
(* Properties *)

\* A mark keeps the content each of its files had when the first call of that second
\* found it, whatever is written, edited or restored afterwards (take, rotate, restore).
MarksKeepTheFirst ==
    \A k \in DOMAIN first : /\ Copied(k[1], k[2]) /\ snaps[k[1]][k[2]] = first[k]

\* No call ever hands out a list with two elements in progress or one id twice, and a file
\* that a broken-off or overlapping write has left is never taken for a list.
AnswersAreAllowed == answer.is = "list" => allowed(answer.of)
=============================================================================
