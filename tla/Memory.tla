-------------------------------- MODULE Memory --------------------------------
(***************************************************************************)
(* Semantic memory: the memory.save and memory.search tools of several          *)
(* sessions (builtin_memory.rs), the facts that a finished run brings (run.rs),    *)
(* the resolution of a candidate against the stored facts (semantic.rs), and         *)
(* `berimor memory consolidate` (cli memory.rs) over the same table.  A fact is a topic and an object; Mask maps an object to     *)
(* what is left of it when the registered secrets are out; Near holds the pairs        *)
(* of objects whose embeddings are close.  The table keeps the order of insertion.      *)
(***************************************************************************)
EXTENDS Naturals, Sequences, SequencesExt, FiniteSets, FiniteSetsExt

CONSTANTS Saver, Topic, Object, Mask, Near, MaxSaves, MaxConsolidations

VARIABLES facts,        \* the rows: <<topic, object>>, which is also the id
          saver,        \* the call each session is in
          saved,        \* what a session was told is in memory, as stored
          consol,       \* the consolidation that runs
          absorbed,     \* <<lost fact, survivor>> as decided by a consolidation
          journalled,   \* FactsConsolidated: the pairs on record
          counts,       \* <<saves, consolidations>> so far
          raced         \* writers have decided on one topic before either wrote

memory_vars == <<facts, saver, saved, consol, absorbed, journalled, counts, raced>>

Idle == [at |-> "idle"]
Rows == Range(facts)

MemoryInit ==
    /\ facts = <<>> /\ saver = [s \in Saver |-> Idle] /\ saved = {} /\ consol = Idle
    /\ absorbed = {} /\ journalled = {} /\ counts = <<0, 0>> /\ raced = FALSE

\* resolve: an exact duplicate, then another object under the same topic, then a new fact.
\* The tool gives no embeddings, so nothing is a near duplicate.  The candidate is compared
\* as it came, the stored facts are masked.
resolve(c, rows) ==
    IF c \in rows THEN "duplicate"
    ELSE IF \E r \in rows : r[1] = c[1] /\ r[2] # c[2] THEN "conflict"
    ELSE "new"

\* StoredFact::new: a fact is masked on its way in.
stored(c) == <<c[1], Mask[c[2]]>>

\* A session has resolved a candidate under the topic and not written it yet.
Deciding(s, topic) ==
    \/ saver[s].at = "saving" /\ saver[s].fact[1] = topic
    \/ saver[s].at = "extracting" /\ \E c \in saver[s].batch : c[1] = topic

\* memory.save: the table is read and the candidate resolved ...
save(s, c) ==
    /\ saver[s] = Idle /\ counts[1] < MaxSaves /\ counts' = [counts EXCEPT ![1] = @ + 1]
    /\ LET r == resolve(c, Rows) IN
         /\ saved' = IF r = "duplicate" THEN saved \cup {c} ELSE saved
         /\ saver' = IF r = "new" THEN [saver EXCEPT ![s] = [at |-> "saving", fact |-> c]]
                                  ELSE saver
         /\ raced' = (raced \/ (r = "new" /\ \E q \in Saver : Deciding(q, c[1])))
    /\ UNCHANGED <<facts, consol, absorbed, journalled>>

\* ... and in a second step the masked fact is written under the hash of what is masked.
upsert_fact(s) ==
    LET row == stored(saver[s].fact)
    IN /\ saver[s].at = "saving"
       /\ facts' = IF row \in Rows THEN facts ELSE Append(facts, row)
       /\ saved' = saved \cup {row} /\ saver' = [saver EXCEPT ![s] = Idle]
       /\ UNCHANGED <<consol, absorbed, journalled, counts, raced>>

\* A finished run has a model propose facts about it: the table is read once ...
extract_facts(s, batch) ==
    /\ saver[s] = Idle /\ counts[1] + Cardinality(batch) <= MaxSaves
    /\ counts' = [counts EXCEPT ![1] = @ + Cardinality(batch)]
    /\ saver' = [saver EXCEPT ![s] = [at |-> "extracting", batch |-> batch, existing |-> Rows]]
    /\ raced' = (raced \/ \E c \in batch : \/ \E d \in batch : c[1] = d[1] /\ c # d
                                           \/ \E q \in Saver : Deciding(q, c[1]))
    /\ UNCHANGED <<facts, saved, consol, absorbed, journalled>>

\* ... and every proposal is resolved against it, whatever was written since.  Only a new
\* one is written; one near to a stored fact strengthens that one instead, and a failed
\* comparison or write passes it over.
extract_and_store_facts(s) ==
    /\ saver[s].at = "extracting"
    /\ \E c \in saver[s].batch :
         LET row  == stored(c)
             left == saver[s].batch \ {c}
         IN /\ \/ UNCHANGED <<facts, saved>>
               \/ /\ resolve(c, saver[s].existing) = "new" /\ saved' = saved \cup {row}
                  /\ facts' = IF row \in Rows THEN facts ELSE Append(facts, row)
            /\ saver' = [saver EXCEPT ![s] = IF left = {} THEN Idle ELSE [@ EXCEPT !.batch = left]]
    /\ UNCHANGED <<consol, absorbed, journalled, counts, raced>>

\* The groups: in the order of the table, each fact not taken yet takes the later ones
\* near to it.  A fact whose embedding failed takes no part.
Close(a, b) == a[2] = b[2] \/ {a[2], b[2]} \in Near
taken(rows, embedded) ==
    LET step(pairs, i) ==
          LET a == rows[i]
              free(b) == \A p \in pairs : p[1] # b
          IN IF a \in embedded /\ free(a)
               THEN pairs \cup {<<rows[j], a>> : j \in {k \in i + 1..Len(rows) :
                                  rows[k] \in embedded /\ free(rows[k]) /\ Close(a, rows[k])}}
               ELSE pairs
    IN FoldLeft(step, {}, [i \in DOMAIN rows |-> i])

\* consolidate: the table is read once, then the groups are taken one after another.
consolidate ==
    /\ consol = Idle /\ facts # <<>> /\ counts[2] < MaxConsolidations
    /\ counts' = [counts EXCEPT ![2] = @ + 1]
    /\ \E embedded \in SUBSET Rows : LET pairs == taken(facts, embedded) IN
         /\ pairs # {}
         /\ consol' = [at |-> "groups", left |-> pairs]
    /\ UNCHANGED <<facts, saver, saved, absorbed, journalled, raced>>

\* The survivor is written first, whether it is still there or not.
takes_group ==
    /\ consol.at = "groups"
    /\ \E survivor \in {p[2] : p \in consol.left} :
         LET group == {p \in consol.left : p[2] = survivor} IN
         /\ facts' = IF survivor \in Rows THEN facts ELSE Append(facts, survivor)
         /\ consol' = [at |-> "deleting", left |-> consol.left \ group, group |-> group,
                       gone |-> {}]
         /\ absorbed' = absorbed \cup group
    /\ UNCHANGED <<saver, saved, journalled, counts, raced>>

\* Bug: the survivor is deleted with the group it absorbs.
deletes_all ==
    /\ consol.at = "deleting"
    /\ \E p \in consol.group \ consol.gone :
         /\ facts' = SelectSeq(facts, LAMBDA r : ~Close(r, p[1]))
         /\ consol' = [consol EXCEPT !.gone = @ \cup {p}]
    /\ UNCHANGED <<saver, saved, absorbed, journalled, counts, raced>>

deletes ==
    /\ consol.at = "deleting"
    /\ \E p \in consol.group \ consol.gone :
         /\ facts' = SelectSeq(facts, LAMBDA r : r # p[1])
         /\ consol' = [consol EXCEPT !.gone = @ \cup {p}]
    /\ UNCHANGED <<saver, saved, absorbed, journalled, counts, raced>>

\* The group is journalled after its facts are gone.
journals ==
    /\ consol.at = "deleting" /\ consol.gone = consol.group
    /\ journalled' = journalled \cup consol.group
    /\ consol' = IF consol.left = {} THEN Idle ELSE [at |-> "groups", left |-> consol.left]
    /\ UNCHANGED <<facts, saver, saved, absorbed, counts, raced>>

killed ==
    /\ \/ \E s \in Saver : saver[s] # Idle /\ saver' = [saver EXCEPT ![s] = Idle]
                            /\ UNCHANGED consol
       \/ consol # Idle /\ consol' = Idle /\ UNCHANGED saver
    /\ UNCHANGED <<facts, saved, absorbed, journalled, counts, raced>>

MemoryNext ==
    \/ consolidate \/ takes_group \/ deletes \/ journals \/ killed
    \/ \E s \in Saver : \/ upsert_fact(s) \/ extract_and_store_facts(s)
                        \/ \E batch \in kSubset(2, Topic \X Object) : extract_facts(s, batch)
                        \/ \E t \in Topic, o \in Object : save(s, <<t, o>>)
-----------------------------------------------------------------------------
\* A fact a session was told is in memory is there, or was absorbed by one that is, itself
\* or through others, however far a consolidation got (consolidate_with_embedder, save).
Absorbs[n \in Nat] ==
    IF n = 0 THEN Rows
    ELSE Absorbs[n - 1] \cup {p[1] : p \in {q \in absorbed : q[2] \in Absorbs[n - 1]}}
SavedIsKept == saved \subseteq Absorbs[Cardinality(absorbed)]

\* Two objects under one topic are in memory only if two writers, or two facts of one batch,
\* were decided on before either was written; otherwise the conflict is reported (resolve).
ConflictsAreReported ==
    ~raced => \A a, b \in Rows : a[1] = b[1] => a[2] = b[2]

\* No registered secret is at rest in memory (StoredFact::new).
StoredIsMasked == \A r \in Rows : Mask[r[2]] = r[2]
=============================================================================
