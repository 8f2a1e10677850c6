------------------------------ MODULE Lineage ------------------------------
(***************************************************************************)
(* The audit trail of a run: a value or a decision is a node, and an edge  *)
(* says why one node points at another.  Derivation, selection of a record *)
(* by a key, and use as an argument are kept apart (domain/lineage.py);    *)
(* the console lays the graph out by depth (run_detail.py).                *)
(***************************************************************************)
EXTENDS Naturals, FiniteSets

EdgeKind == {"derive", "selection", "arg"}

Edge(from, to, kind) == [from |-> from, to |-> to, kind |-> kind]

ParentsOf(edges, node) == {e.from : e \in {f \in edges : f.to = node}}

\* Everything reachable backwards from a node.  A path has no more edges than
\* there are, so the walk ends even on a cycle.
AncestorsOf(edges, node) ==
    LET reached[n \in 0..Cardinality(edges)] ==
            IF n = 0 THEN ParentsOf(edges, node)
            ELSE LET before == reached[n - 1]
                 IN  before \cup UNION {ParentsOf(edges, m) : m \in before}
    IN  reached[Cardinality(edges)]

RootSources(edges, node) ==
    {m \in AncestorsOf(edges, node) : ParentsOf(edges, m) = {}}

-----------------------------------------------------------------------------
(* _lineage_view.                                                          *)

\* Mistake: only derivation moves a value to the right.
RelaxedByDerivation(edges, depth) ==
    [n \in DOMAIN depth |->
        LET before == {depth[m] + 1 : m \in ParentsOf({e \in edges : e.kind = "derive"}, n) \cap DOMAIN depth}
        IN  CHOOSE d \in before \cup {depth[n]} : \A b \in before \cup {depth[n]} : b <= d]

\* One round over the edges between values: a value not yet right of one
\* that leads to it is moved one column right of it.  The code moves them
\* edge by edge in the order stored, and comes to rest at the same columns.
Relaxed(edges, depth) ==
    [n \in DOMAIN depth |->
        LET columns == {depth[n]} \cup
                {depth[m] + 1 : m \in ParentsOf(edges, n) \cap DOMAIN depth}
        IN  CHOOSE d \in columns : \A c \in columns : c <= d]

\* Rounds stop when nothing moves, or after one for each edge.
ValueDepths(edges, handles) ==
    LET round[n \in 0..Cardinality(edges)] ==
            IF n = 0 THEN [h \in handles |-> 0]
            ELSE LET before == round[n - 1]
                     after  == Relaxed(edges, before)
                 IN  IF after = before THEN before ELSE after
    IN  round[Cardinality(edges)]

\* A decision stands right of every argument of it that could be resolved.
DecisionDepth(depths, args) ==
    LET columns == {0} \cup {depths[h] : h \in args \cap DOMAIN depths}
    IN  1 + CHOOSE d \in columns : \A c \in columns : c <= d
=============================================================================
