----------------------------- MODULE MCWorkspace -----------------------------
(***************************************************************************)
(* What a workspace keeps between turns and between processes: a behaviour is  *)
(* one of sessions that write to each other, an instance that is carried to     *)
(* another journal, the tools that change files, the list of todos, background   *)
(* terminals, semantic memory, the entity graph, and the context of a call.       *)
(***************************************************************************)
EXTENDS Integers, Sequences, TLC

CONSTANTS Session, File, Text, MaxVersion, MaxMail, MaxMs,
          Importer, Names, MaxEvents, MaxSuffix, MaxImports,
          Process, Path, Content, Edit, TooBig, Keep, MaxSecond,
          Writer, Ids, Status, MaxItems, MaxLength,
          MaxProcs, Cap, MaxIds, MaxOut,
          Saver, Topic, Object, Mask, Near, MaxSaves, MaxConsolidations,
          NodeType, EdgeType, Ident, Alike, MaxNodes, MaxEdges,
          Budget, MARK, RulesSize, Sizes, StateSizes, RuleSizes, Node, Edge

\* What a session is shown of a file is not taken for a message.
ASSUME WorkspaceAssumption ==
    MaxItems \in Nat /\ MaxOut \in Nat /\ \A f \in File : f \notin Session \X Text

VARIABLES part,
          registry, alive, noted, content, mail, known, busy, shown, sent, unsaid, ms,
          journal, envelope, importer, imported, imports, shared,
          disk, snaps, tool, second, first,
          todo, writing, answer,
          counter, procs, page,
          facts, saver, saved, consol, absorbed, journalled, counts, raced,
          nodes, edges, resolved,
          asked, context, graph

sessions  == <<registry, alive, noted, content, mail, known, busy, shown, sent, unsaid, ms>>
transfer  == <<journal, envelope, importer, imported, imports, shared>>
files     == <<disk, snaps, tool, second, first>>
todos     == <<todo, writing, answer>>
terminals == <<counter, procs, page>>
memory    == <<facts, saver, saved, consol, absorbed, journalled, counts, raced>>
entities  == <<nodes, edges, resolved>>
layers    == <<asked, context, graph>>
vars == <<part, sessions, transfer, files, todos, terminals, memory, entities, layers>>

S == INSTANCE Sessions
T == INSTANCE JournalTransfer
F == INSTANCE WorkspaceFiles
B == INSTANCE BgTerminals
M == INSTANCE Memory
G == INSTANCE EntityGraph WITH Near <- Alike
C == INSTANCE ContextLayers

No_sessions ==
    /\ registry = 0 /\ alive = 0 /\ noted = 0 /\ content = 0 /\ mail = 0 /\ known = 0
    /\ busy = 0 /\ shown = 0 /\ sent = 0 /\ unsaid = 0 /\ ms = 0
No_transfer  == journal = 0 /\ envelope = 0 /\ importer = 0
                /\ imported = 0 /\ imports = 0 /\ shared = 0
No_files     == disk = 0 /\ snaps = 0 /\ tool = 0 /\ second = 0 /\ first = 0
No_todos     == todo = 0 /\ writing = 0 /\ answer = 0
No_terminals == counter = 0 /\ procs = 0 /\ page = 0
No_memory ==
    /\ facts = 0 /\ saver = 0 /\ saved = 0 /\ consol = 0 /\ absorbed = 0 /\ journalled = 0
    /\ counts = 0 /\ raced = 0
No_entities  == nodes = 0 /\ edges = 0 /\ resolved = 0
No_layers    == asked = 0 /\ context = 0 /\ graph = 0

Init ==
    \/ part = "sessions" /\ S!SessionInit /\ No_transfer /\ No_files /\ No_todos
         /\ No_terminals /\ No_memory /\ No_entities /\ No_layers
    \/ part = "transfer" /\ T!TransferInit /\ No_sessions /\ No_files /\ No_todos
         /\ No_terminals /\ No_memory /\ No_entities /\ No_layers
    \/ part = "files" /\ F!FilesInit /\ No_sessions /\ No_transfer /\ No_todos
         /\ No_terminals /\ No_memory /\ No_entities /\ No_layers
    \/ part = "todos" /\ F!TodoInit /\ No_sessions /\ No_transfer /\ No_files
         /\ No_terminals /\ No_memory /\ No_entities /\ No_layers
    \/ part = "terminals" /\ B!TerminalInit /\ No_sessions /\ No_transfer /\ No_files
         /\ No_todos /\ No_memory /\ No_entities /\ No_layers
    \/ part = "memory" /\ M!MemoryInit /\ No_sessions /\ No_transfer /\ No_files
         /\ No_todos /\ No_terminals /\ No_entities /\ No_layers
    \/ part = "entities" /\ G!GraphInit /\ No_sessions /\ No_transfer /\ No_files
         /\ No_todos /\ No_terminals /\ No_memory /\ No_layers
    \/ part = "layers" /\ C!ContextInit /\ No_sessions /\ No_transfer /\ No_files
         /\ No_todos /\ No_terminals /\ No_memory /\ No_entities

Next ==
    \/ part = "sessions" /\ S!SessionNext
         /\ UNCHANGED <<part, transfer, files, todos, terminals, memory, entities, layers>>
    \/ part = "transfer" /\ T!TransferNext
         /\ UNCHANGED <<part, sessions, files, todos, terminals, memory, entities, layers>>
    \/ part = "files" /\ F!FilesNext
         /\ UNCHANGED <<part, sessions, transfer, todos, terminals, memory, entities, layers>>
    \/ part = "todos" /\ F!TodoNext
         /\ UNCHANGED <<part, sessions, transfer, files, terminals, memory, entities, layers>>
    \/ part = "terminals" /\ B!TerminalNext
         /\ UNCHANGED <<part, sessions, transfer, files, todos, memory, entities, layers>>
    \/ part = "memory" /\ M!MemoryNext
         /\ UNCHANGED <<part, sessions, transfer, files, todos, terminals, entities, layers>>
    \/ part = "entities" /\ G!GraphNext
         /\ UNCHANGED <<part, sessions, transfer, files, todos, terminals, memory, layers>>
    \/ part = "layers" /\ C!ContextNext
         /\ UNCHANGED <<part, sessions, transfer, files, todos, terminals, memory, entities>>

Spec == Init /\ [][Next]_vars

Symmetry == Permutations(Session) \cup Permutations(Importer) \cup Permutations(Writer)

-----------------------------------------------------------------------------
(* Values *)

\* An instance, its two imports, and the import of an import.
MCNames == {<<>>, <<2>>, <<3>>, <<2, 2>>}

\* The edit fits one of the contents only; the largest is past the cap of a snapshot.
MCEdit == (1 :> 2) @@ (2 :> 0) @@ (3 :> 0)

\* A secret is stored as its mask; an object is close to one other, the mask to one more.
MCMask == ("a" :> "a") @@ ("b" :> "b") @@ ("key" :> "masked") @@ ("masked" :> "masked")
MCNear == {{"a", "b"}, {"b", "masked"}}

MCNodeType == [batch |-> TRUE]
MCEdgeType == [alias_of |-> [functional |-> FALSE, allowed_pairs |-> {<<"batch", "batch">>}],
               made_by  |-> [functional |-> TRUE, allowed_pairs |-> {<<"batch", "batch">>}]]
MCAlike == {{"b1", "b2"}, {"none"}}
MCEdge == {e \in Node \X Node : e[1] # e[2]}

-----------------------------------------------------------------------------
(* Properties of the parts *)

\* A write is announced to the sessions that have seen the file, and a message that was
\* sent is not lost before its receiver has shown it.
SessionsAreTold == part = "sessions" => S!WritesAreAnnounced /\ S!SentIsNotLost

\* What is on disk is what was asked for: an import is the export's beginning and whole,
\* a snapshot keeps what it was taken for, a todo list is valid, and a page of a terminal
\* is the output it stands for.
DiskIsKept ==
    /\ part = "transfer" => T!ImportIsPrefix /\ T!NothingDamaged
    /\ part = "files" => F!MarksKeepTheFirst
    /\ part = "todos" => F!AnswersAreAllowed
    /\ part = "terminals" => B!PageIsExact

\* A fact is kept or absorbed, masked and without an unreported rival; a candidate node is
\* resolved to one canonical node; a context fits its budget and holds the neighbours.
MemoryIsSound ==
    /\ part = "memory" => M!SavedIsKept /\ M!ConflictsAreReported /\ M!StoredIsMasked
    /\ part = "entities" =>
         G!OneNodePerIdentifier /\ G!ResolvedIsCanonical /\ G!FunctionalHasOneTarget
    /\ part = "layers" => C!BudgetHolds /\ C!NeighboursAreTaken
=============================================================================
