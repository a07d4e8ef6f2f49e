----------------------------- MODULE ContextLayers -----------------------------
(***************************************************************************)
(* The context of a model call: the layers of a step in their order, each from    *)
(* its source, cut to the budget of the model's tier (lib.rs, memory_builder.rs),   *)
(* and the rules that the front ends lay around the builder (rules.rs).  A layer      *)
(* is its name, its size and whether the end of it is cut off.                        *)
(***************************************************************************)
EXTENDS Integers, Sequences, FiniteSets, SequencesExt

CONSTANTS Budget,      \* the budget of the tier, in bytes
          MARK,        \* the length of TRUNC_MARK
          RulesSize,   \* the length of the system rules
          Sizes,       \* of an optional layer; 0 for one without a source
          StateSizes, RuleSizes,
          Node, Edge

VARIABLES asked,       \* the step: its kind, the sizes of the layers, the project's rules
          context,     \* the layers that the model gets
          graph        \* the nodes of the graph layer: named by the task, taken in

context_vars == <<asked, context, graph>>

Order == <<"system_rules", "skills", "facts", "session", "entity_graph", "task_state">>
layers_for_step(kind) == IF kind \in {"llm_structured", "agent_step", "codeact"} THEN Order ELSE <<>>
Kept == {"system_rules", "task_state"}

total_chars(layers) == FoldSeq(LAMBDA l, sum : l.size + sum, 0, layers)
Layer(name, size) == [name |-> name, size |-> size, cut |-> FALSE]

-----------------------------------------------------------------------------
(* The budget *)

\* Optional layers go whole, from the first, until the rest fits.
dropped(layers) ==
    LET Drop[n \in 0..Len(layers)] ==
            IF n = 0 THEN layers
            ELSE LET l        == Drop[n - 1]
                     optional == {i \in DOMAIN l : l[i].name \notin Kept}
                 IN  IF total_chars(l) <= Budget \/ optional = {} THEN l
                     ELSE RemoveAt(l, CHOOSE i \in optional : \A j \in optional : i <= j)
    IN  Drop[Len(layers)]

\* A layer longer than the room left is cut, with the mark when there is room for it.
truncated(layer, room) ==
    IF layer.size <= room \/ layer.name = "system_rules" THEN layer
    ELSE [layer EXCEPT !.size = room, !.cut = TRUE]

apply_budget(layers) ==
    LET kept == dropped(layers)
        Cut[n \in 0..Len(kept)] ==
            IF n = 0 THEN <<>>
            ELSE LET used == total_chars(Cut[n - 1])
                 IN  Append(Cut[n - 1], truncated(kept[n], IF used > Budget THEN 0 ELSE Budget - used))
    IN  Cut[Len(kept)]

\* MemoryContextBuilder::build: a layer without a source or without hits is left out.
build(kind, sizes) ==
    LET present(name) == name \in Kept \/ sizes[name] > 0
        of(name)      == Layer(name, IF name = "system_rules" THEN RulesSize ELSE sizes[name])
        chosen        == SelectSeq(layers_for_step(kind), present)
    IN  apply_budget([i \in DOMAIN chosen |-> of(chosen[i])])

\* RulesContextBuilder: the rules are put in after the first layer of the inner builder.
with_rules(layers, rules) ==
    LET pos == IF layers = <<>> THEN 0 ELSE 1
    IN  SubSeq(layers, 1, pos) \o [i \in DOMAIN rules |-> Layer("project_rule", rules[i])]
            \o SubSeq(layers, pos + 1, Len(layers))

-----------------------------------------------------------------------------
(* The graph layer *)

\* Edges in their stored order: an edge with one end taken in takes in the other.
neighbours(named, edges) ==
    LET In[n \in 0..Len(edges)] ==
            IF n = 0 THEN named
            ELSE IF {edges[n][1], edges[n][2]} \cap In[n - 1] = {} THEN In[n - 1]
                 ELSE In[n - 1] \cup {edges[n][1], edges[n][2]}
    IN  In[Len(edges)]

-----------------------------------------------------------------------------
(* A step asks for its context; what the graph gives to it is looked at apart *)

Optional == {"skills", "facts", "session", "entity_graph"}
ContextInit ==
    /\ asked = [kind |-> "none", sizes |-> <<>>, rules |-> <<>>] /\ context = <<>>
    /\ graph = [named |-> {}, edges |-> <<>>, taken |-> {}]

ask(kind, sizes, rules) ==
    /\ asked.kind = "none" /\ graph.edges = <<>>
    /\ asked' = [kind |-> kind, sizes |-> sizes, rules |-> rules]
    /\ context' = with_rules(build(kind, sizes), rules) /\ UNCHANGED graph

\* The bound of 32 nodes is not reached here.
entity_layer(named, edges) ==
    /\ asked.kind = "none" /\ graph.edges = <<>>
    /\ graph' = [named |-> named, edges |-> edges, taken |-> neighbours(named, edges)]
    /\ UNCHANGED <<asked, context>>

ContextNext ==
    \/ \E kind \in {"agent_step", "tool"}, rules \in {<<>>} \cup {<<r>> : r \in RuleSizes},
          optional \in [Optional -> Sizes], state \in StateSizes :
         ask(kind, [n \in Optional \cup {"task_state"} |->
                       IF n = "task_state" THEN state ELSE optional[n]], rules)
    \/ \E named \in SUBSET Node, edges \in UNION {[1..n -> Edge] : n \in 1..2} :
         entity_layer(named, edges)

-----------------------------------------------------------------------------
(* Properties *)

Inner == SelectSeq(context, LAMBDA l : l.name # "project_rule")

\* Whatever the sources give, the builder's layers fit the budget as soon as the system
\* rules do, the state stays in, and it is cut only when no layer of memory is left.
BudgetHolds ==
    /\ total_chars(Inner) <= Budget
    /\ Inner # <<>> => Last(context).name = "task_state" /\ Inner[1] = Layer("system_rules", RulesSize)
    /\ (\E i \in DOMAIN Inner : Inner[i].cut) => Len(Inner) = 2

\* A neighbour of a node that the task names is taken in, on either side of its edge.
NeighboursAreTaken ==
    \A i \in DOMAIN graph.edges :
        {graph.edges[i][1], graph.edges[i][2]} \cap graph.named # {}
            => {graph.edges[i][1], graph.edges[i][2]} \subseteq graph.taken
===============================================================================
