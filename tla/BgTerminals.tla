----------------------------- MODULE BgTerminals -----------------------------
(***************************************************************************)
(* Background processes of a session (builtin_terminal_bg.rs): terminal.start,   *)
(* terminal.output and terminal.kill over a registry of at most MaxProcs entries, and   *)
(* the threads that move what a process writes into a ring buffer of Cap bytes.     *)
(* A process writes 1, 2, 3, ...; one stream stands for both.                        *)
(***************************************************************************)
EXTENDS Naturals, Sequences, FiniteSets

CONSTANTS MaxProcs, Cap, MaxIds, MaxOut

VARIABLES counter,      \* ids given out
          procs,        \* id -> the entry
          page          \* the last answer of terminal.output

terminal_vars == <<counter, procs, page>>

NoPage == [id |-> 0, offset |-> 0, stdout |-> <<>>, running |-> TRUE, truncated |-> FALSE,
           waited |-> TRUE]

TerminalInit == counter = 0 /\ procs = <<>> /\ page = NoPage

\* A process and its pipe; a grandchild may keep the pipe open after the process ended.
Spawned == [running |-> TRUE, piped |-> TRUE, wrote |-> 0, pushed |-> 0, data |-> <<>>,
            truncated |-> FALSE]

Registered == {i \in DOMAIN procs : procs[i] # <<>>}
Finished == {i \in Registered : ~procs[i].running}

\* At the cap the finished entries are dropped; if all run, the call is refused.
start ==
    LET full == Cardinality(Registered) >= MaxProcs
        kept == IF full THEN Registered \ Finished ELSE Registered
    IN /\ counter < MaxIds
       /\ IF Cardinality(kept) >= MaxProcs
            THEN UNCHANGED <<counter, procs>>
            ELSE /\ counter' = counter + 1
                 /\ procs' = Append([i \in DOMAIN procs |-> IF i \in kept THEN procs[i] ELSE <<>>],
                                    Spawned)
       /\ UNCHANGED page

Change(i, f) == procs' = [procs EXCEPT ![i] = f]

\* The process, or a child that inherited its pipe, writes; it ends, or terminal.kill ends
\* the shell and keeps the entry; the last holder of the pipe closes it.
outputs(i) ==
    /\ i \in Registered /\ procs[i].piped /\ procs[i].wrote < MaxOut
    /\ Change(i, [procs[i] EXCEPT !.wrote = @ + 1]) /\ UNCHANGED <<counter, page>>
ends(i) ==
    /\ i \in Registered /\ procs[i].running
    /\ Change(i, [procs[i] EXCEPT !.running = FALSE]) /\ UNCHANGED <<counter, page>>
closes(i) ==
    /\ i \in Registered /\ ~procs[i].running /\ procs[i].piped
    /\ Change(i, [procs[i] EXCEPT !.piped = FALSE]) /\ UNCHANGED <<counter, page>>

\* push_capped: a chunk of at least Cap replaces the buffer and counts as a loss; else the
\* head is dropped beyond Cap.
push_capped(p, chunk) ==
    LET all == p.data \o chunk
        over == Len(all) > Cap \/ Len(chunk) >= Cap
    IN [p EXCEPT !.data = IF Len(all) > Cap THEN SubSeq(all, Len(all) - Cap + 1, Len(all)) ELSE all,
                 !.truncated = @ \/ over, !.pushed = @ + Len(chunk)]

reads_pipe(i) ==
    /\ i \in Registered /\ procs[i].pushed < procs[i].wrote
    /\ \E n \in 1..procs[i].wrote - procs[i].pushed :
         Change(i, push_capped(procs[i], [k \in 1..n |-> procs[i].pushed + k]))
    /\ UNCHANGED <<counter, page>>

Drained(p) == ~p.piped /\ p.pushed = p.wrote

tail_from(data, offset) == SubSeq(data, offset + 1, Len(data))

answers(i, offset, waited) ==
    /\ i \in Registered
    /\ page' = [id |-> i, offset |-> offset, stdout |-> tail_from(procs[i].data, offset),
                running |-> procs[i].running, truncated |-> procs[i].truncated,
                waited |-> waited]
    /\ UNCHANGED <<counter, procs>>

\* terminal.output: for an ended process the readers are waited for, a second at most,
\* which a grandchild holding the pipe exceeds.
output(i, offset) ==
    \/ i \in Registered /\ procs[i].running /\ answers(i, offset, TRUE)
    \/ i \in Finished /\ Drained(procs[i]) /\ answers(i, offset, TRUE)
    \/ i \in Finished /\ procs[i].piped /\ answers(i, offset, FALSE)

TerminalNext ==
    \/ start
    \/ \E i \in 1..MaxIds : \/ outputs(i) \/ ends(i) \/ closes(i) \/ reads_pipe(i)
                            \/ \E offset \in 0..MaxOut : output(i, offset)
-----------------------------------------------------------------------------
Prefix(n) == [k \in 1..n |-> k]

\* An answer without the truncated flag is what the process wrote from the offset on,
\* nothing skipped or repeated; from an ended process whose readers ended too it is all of
\* it (terminal.output, spawn_reader).
PageIsExact ==
    (page.id \in Registered /\ ~page.truncated) =>
      /\ \A k \in DOMAIN page.stdout : page.stdout[k] = page.offset + k
      /\ (~page.running /\ page.waited) =>
           (page.offset <= procs[page.id].wrote =>
              page.offset + Len(page.stdout) = procs[page.id].wrote)
=============================================================================
