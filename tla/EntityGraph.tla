------------------------------ MODULE EntityGraph ------------------------------
(***************************************************************************)
(* The entity graph of the memory crate (entity_graph.rs): which node and which  *)
(* edge a candidate is, given the graph so far, and what its caller then adds.    *)
(* Identifiers grow with time, so the first of equals is the least.                *)
(***************************************************************************)
EXTENDS Integers, Sequences, FiniteSets

CONSTANTS NodeType,   \* type -> has it an identifier_field
          EdgeType,   \* type -> functional, allowed_pairs; alias_of among them
          Ident,      \* identifiers of the domain, "none" for a candidate without one
          Near,       \* pairs of identifiers whose similarity passes the threshold
          MaxNodes, MaxEdges

VARIABLES nodes,      \* the graph's nodes, by id
          edges,      \* its edges, in the order they were added
          resolved    \* the last resolution of a node candidate

graph_vars == <<nodes, edges, resolved>>

NoNode == [kind |-> "none", node |-> 0]

GraphInit == nodes = <<>> /\ edges = <<>> /\ resolved = NoNode

Least(S) == CHOOSE x \in S : \A y \in S : x <= y

-----------------------------------------------------------------------------
(* Nodes *)

alias_edges(n) == {e \in DOMAIN edges : edges[e].type = "alias_of" /\ edges[e].source = n}

\* The end of the chain of aliases, or the node before the first repetition.
resolve_alias(start) ==
    LET Follow[path \in Seq(DOMAIN nodes)] ==
            LET here == path[Len(path)]
                next == IF alias_edges(here) = {} THEN 0 ELSE edges[Least(alias_edges(here))].target
            IN  IF next = 0 \/ \E i \in DOMAIN path : path[i] = next THEN here
                ELSE Follow[Append(path, next)]
    IN  Follow[<<start>>]

validate_node(candidate) ==
    candidate.type \in DOMAIN NodeType /\ candidate.sound

same_ident(candidate) ==
    {n \in DOMAIN nodes : nodes[n].type = candidate.type /\ nodes[n].ident = candidate.ident}

close(candidate) ==
    {n \in DOMAIN nodes : nodes[n].type = candidate.type /\ {nodes[n].ident, candidate.ident} \in Near}

\* The exact identifier, then an alias of it, then a similar node to ask about, then a new one.
resolve_node(candidate) ==
    IF NodeType[candidate.type] /\ candidate.ident # "none" /\ same_ident(candidate) # {}
      THEN LET matched   == Least(same_ident(candidate))
               canonical == resolve_alias(matched)
           IN  {[node |-> canonical,
                 kind |-> IF canonical = matched THEN "exact" ELSE "alias"]}
    ELSE IF close(candidate) # {}
      THEN {[kind |-> "ambiguous", node |-> resolve_alias(n)]
               : n \in close(candidate)}
    ELSE {[kind |-> "new", node |-> 0]}

\* The caller adds what is new, and what a human has said to be another one.
adds_node(candidate) ==
    /\ validate_node(candidate) /\ resolved' \in resolve_node(candidate)
    /\ nodes' = IF resolved'.kind \in {"new", "ambiguous"} /\ Len(nodes) < MaxNodes
                  THEN Append(nodes, [type |-> candidate.type, ident |-> candidate.ident]) ELSE nodes
    /\ UNCHANGED edges

\* A human has taken the suggestion: nothing is added.
takes_suggestion(candidate) ==
    /\ validate_node(candidate) /\ resolved' \in resolve_node(candidate)
    /\ resolved'.kind = "ambiguous" /\ UNCHANGED <<nodes, edges>>

-----------------------------------------------------------------------------
(* Edges *)

validate_edge(candidate) ==
    /\ {candidate.source, candidate.target} \subseteq DOMAIN nodes
    /\ <<nodes[candidate.source].type, nodes[candidate.target].type>>
         \in EdgeType[candidate.type].allowed_pairs

duplicate(candidate) == \E e \in DOMAIN edges : edges[e] = candidate

detect_edge_conflict(candidate) ==
    /\ EdgeType[candidate.type].functional
    /\ \E e \in DOMAIN edges : /\ edges[e].type = candidate.type /\ edges[e].source = candidate.source
                               /\ edges[e].target # candidate.target

\* A duplicate first, then a conflict, then a new edge.
resolve_edge(candidate) ==
    IF duplicate(candidate) THEN "duplicate"
    ELSE IF detect_edge_conflict(candidate) THEN "conflict" ELSE "new"

adds_edge(candidate) ==
    /\ validate_edge(candidate) /\ resolve_edge(candidate) = "new" /\ Len(edges) < MaxEdges
    /\ edges' = Append(edges, candidate) /\ UNCHANGED nodes /\ resolved' = NoNode

GraphNext ==
    \/ \E type \in DOMAIN NodeType, ident \in Ident \cup {"none"}, sound \in BOOLEAN :
         LET candidate == [type |-> type, ident |-> ident, sound |-> sound]
         IN  adds_node(candidate) \/ takes_suggestion(candidate)
    \/ \E type \in DOMAIN EdgeType, source, target \in DOMAIN nodes, note \in {"p", "q"} :
         adds_edge([type |-> type, source |-> source, target |-> target, note |-> note])

-----------------------------------------------------------------------------
(* Properties *)

\* A domain identifier names one node of its type.
OneNodePerIdentifier ==
    \A m, n \in DOMAIN nodes :
        (nodes[m] = nodes[n] /\ NodeType[nodes[m].type] /\ nodes[m].ident # "none") => m = n

\* What a candidate is resolved to is never itself an alias of another node, unless the
\* aliases run in a circle.
InCircle(n) == \E k \in 1..Len(edges) : \E walk \in [0..k -> DOMAIN nodes] :
    /\ walk[0] = n /\ walk[k] = n
    /\ \A i \in 0..k-1 : \E e \in alias_edges(walk[i]) : edges[e].target = walk[i + 1]
Circular == \E n \in DOMAIN nodes : InCircle(n)
ResolvedIsCanonical ==
    resolved.kind \in {"exact", "alias", "ambiguous"}
        => alias_edges(resolved.node) = {} \/ Circular

\* A functional relation never has two targets.
FunctionalHasOneTarget ==
    \A d, e \in DOMAIN edges :
        (EdgeType[edges[d].type].functional /\ edges[d].type = edges[e].type
            /\ edges[d].source = edges[e].source) => edges[d].target = edges[e].target
===============================================================================
