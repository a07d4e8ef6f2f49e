---------------------------- MODULE JournalTransfer ----------------------------
(***************************************************************************)
(* `berimor journal export` and `import` (journal_xfer.rs): an instance's       *)
(* events travel in one envelope under a checksum and are written to a journal   *)
(* one by one, under a free name.  Engines append to the instances of the journal  *)
(* in the meantime, importers may be killed, and the file may be damaged on the     *)
(* way.  A name is the sequence of its `-imported-N` suffixes, an event               *)
(* <<where, number>>: written here, on another machine, or altered since.              *)
(***************************************************************************)
EXTENDS Naturals, Sequences, SequencesExt

CONSTANTS Importer,
          Names,     \* bound: the names in play
          MaxEvents, MaxSuffix, MaxImports

VARIABLES journal,      \* name -> the events of the instance
          envelope,     \* the file: JournalEnvelope, or something else
          importer,     \* what each importer is doing
          imported,     \* name -> what imports have written there
          imports,      \* importers started so far
          shared        \* names that an import had not to itself while it wrote

transfer_vars == <<journal, envelope, importer, imported, imports, shared>>

Original == <<>>
NoEnvelope == [is |-> "other", instance |-> Original, events |-> <<>>, count |-> 0, sha256 |-> <<>>]
Envelope(n, events) ==
    [is |-> "berimor-journal", instance |-> n, events |-> events,
     count |-> Len(events), sha256 |-> events]
Idle == [at |-> "idle", to |-> Original, left |-> <<>>]

\* The file may be one that another machine exported.
TransferInit ==
    /\ \E had \in {<<>>, <<<<"here", 1>>>>} :
         journal = [n \in Names |-> IF n = Original THEN had ELSE <<>>]
    /\ envelope \in {NoEnvelope, Envelope(Original, <<<<"there", 1>>, <<"there", 2>>>>)}
    /\ importer = [i \in Importer |-> Idle]
    /\ imported = [n \in Names |-> <<>>] /\ imports = 0 /\ shared = {}

list_instance_ids == {n \in Names : journal[n] # <<>>}
Writing(n) == \E i \in Importer : importer[i].at = "writing" /\ importer[i].to = n

\* The engine that runs or resumes an instance, an imported one too.
engine_appends(n) ==
    /\ Len(journal[n]) \in 1..MaxEvents - 1
    /\ journal' = [journal EXCEPT ![n] = Append(@, <<"here", Len(@) + 1>>)]
    /\ shared' = IF Writing(n) THEN shared \cup {n} ELSE shared
    /\ UNCHANGED <<envelope, importer, imported, imports>>

\* An empty instance is refused; the write of the file may stop half way.
export(n) ==
    /\ journal[n] # <<>> /\ envelope' \in {Envelope(n, journal[n]), NoEnvelope}
    /\ UNCHANGED <<journal, importer, imported, imports, shared>>

\* The fingerprint is of the events only.
intact(e) == e.is = "berimor-journal" /\ e.count = Len(e.events) /\ e.sha256 = e.events

\* The list is cut short, two events change places, one is altered or the instance is.
damaged ==
    /\ intact(envelope)
    /\ \/ envelope' = [envelope EXCEPT !.events = Front(@)]
       \/ envelope' = [envelope EXCEPT !.events = Reverse(@)]
       \/ envelope' = [envelope EXCEPT !.events[1][1] = "altered"]
       \/ \E n \in Names : envelope' = [envelope EXCEPT !.instance = n]
    /\ UNCHANGED <<journal, importer, imported, imports, shared>>

\* The envelope's own name, then name-imported-2, name-imported-3, ...
Candidates(e) == <<e.instance>> \o [k \in 1..MaxSuffix - 1 |-> Append(e.instance, k + 1)]
target(e, existing) ==
    LET free == {k \in 1..MaxSuffix : Candidates(e)[k] \notin existing}
    IN IF free = {} THEN {} ELSE {Candidates(e)[CHOOSE k \in free : \A j \in free : k <= j]}

\* The checks, the listing of the instances and the choice of the name.  A listing that
\* fails is taken for an empty journal (unwrap_or_default); a name that another importer
\* has chosen and not yet written to is not listed.
import(i) ==
    /\ importer[i] = Idle /\ imports < MaxImports /\ imports' = imports + 1 /\ intact(envelope)
    /\ \E existing \in {list_instance_ids, {}} : \E n \in target(envelope, existing) \cap Names :
         /\ importer' = [importer EXCEPT ![i] =
              [at |-> "writing", to |-> n, left |-> envelope.events]]
         /\ shared' = IF journal[n] # <<>> \/ Writing(n) THEN shared \cup {n} ELSE shared
    /\ UNCHANGED <<journal, envelope, imported>>

\* append_preserved gives the event the next number of whatever is there.
append_preserved(i) ==
    /\ importer[i].at = "writing" /\ importer[i].left # <<>>
    /\ LET n == importer[i].to  event == Head(importer[i].left)
       IN /\ journal' = [journal EXCEPT ![n] = Append(@, event)]
          /\ imported' = [imported EXCEPT ![n] = Append(@, event)]
    /\ importer' = [importer EXCEPT ![i].left = Tail(@)]
    /\ UNCHANGED <<envelope, imports, shared>>

\* The import ends, is killed, or a write fails, with the event stored or not: what is
\* written stays.
stops(i) ==
    /\ importer[i].at = "writing" /\ importer' = [importer EXCEPT ![i] = Idle]
    /\ UNCHANGED <<journal, envelope, imported, imports, shared>>

TransferNext ==
    \/ damaged \/ (\E n \in Names : engine_appends(n) \/ export(n))
    \/ \E i \in Importer : import(i) \/ append_preserved(i) \/ stops(i)
-----------------------------------------------------------------------------
\* What an import writes stands at the beginning of its instance, nothing before it and
\* nothing between, and an engine goes on behind it, as long as the importer had the name
\* to itself (import).
ImportIsPrefix == \A n \in Names \ shared : IsPrefix(imported[n], journal[n])

\* What was verified is what was exported: no altered event reaches a journal, whatever
\* happened to the file, and where nobody shared a name, the events stand without a gap
\* in the order they were written in, exported and imported again as often as one likes.
NothingDamaged ==
    \A n \in Names : \A k \in DOMAIN journal[n] :
      /\ journal[n][k][1] # "altered"
      /\ shared = {} => journal[n][k][2] = k
=============================================================================
