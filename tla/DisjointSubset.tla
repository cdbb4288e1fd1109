--------------------------- MODULE DisjointSubset ---------------------------
(***************************************************************************)
(* graphs/disjoint_subset.c: a disjoint-set forest in one array, whose     *)
(* set_union ends the program when its two nodes are connected already.    *)
(***************************************************************************)
EXTENDS Integers, FiniteSets

CONSTANT UNION_SET_SIZE

UnionAssumption == UNION_SET_SIZE \in Nat

VARIABLES
  phase,      \* running or exited
  union_set,  \* the parent of a node, or minus the size of a root's tree
  joined      \* history: the pairs given to set_union

vars == <<phase, union_set, joined>>

Entries == 0 .. UNION_SET_SIZE - 1

Init == phase = "running" /\ union_set = [n \in Entries |-> -1] /\ joined = {}

\* The loop of find ends at the first negative entry.
Path[k \in 0 .. UNION_SET_SIZE] ==
  [n \in Entries |-> IF k = 0 \/ union_set[n] < 0 THEN n ELSE Path[k - 1][union_set[n]]]
find(n) == Path[UNION_SET_SIZE][n]

\* The smaller tree goes below the bigger one; the variant the other way.
SmallerFirst(a, b) == union_set[a] > union_set[b]
BiggerFirst(a, b) == union_set[a] <= union_set[b]

Attach(a, b) ==
  union_set' = [union_set EXCEPT ![a] = @ + union_set[b], ![b] = a]

\* The roots are compared; the variant compares the nodes.
SameNode(a, b) == a = b
Connected(a, b) == find(a) = find(b)

set_union(a, b) ==
  /\ phase = "running"
  /\ joined' = joined \cup {<<a, b>>}
  /\ IF Connected(a, b)
     THEN phase' = "exited" /\ UNCHANGED union_set
     ELSE /\ UNCHANGED phase
          /\ IF BiggerFirst(find(a), find(b))
             THEN Attach(find(a), find(b)) ELSE Attach(find(b), find(a))

Terminated == phase = "exited" /\ UNCHANGED vars

Next == (\E a, b \in Entries : set_union(a, b)) \/ Terminated

Spec == Init /\ [][Next]_vars
-----------------------------------------------------------------------------
TypeOK ==
  /\ phase \in {"running", "exited"}
  /\ union_set \in [Entries -> (-UNION_SET_SIZE .. -1) \cup Entries]
  /\ joined \subseteq Entries \X Entries

Roots == {n \in Entries : union_set[n] < 0}
Tree(r) == {n \in Entries : find(n) = r}
Separate(S) == \A p \in joined : p[1] \in S <=> p[2] \in S

(* The trees are what the calls have joined, their roots hold their sizes. *)
TreesAreSets ==
  /\ \A n \in Entries : find(n) \in Roots
  /\ \A r \in Roots : /\ Cardinality(Tree(r)) = -union_set[r]
                      /\ Separate(Tree(r))
                      /\ \A S \in SUBSET Tree(r) : Separate(S) => S \in {{}, Tree(r)}

(* The program goes on just as long as the pairs form a forest: set_union
   ends it at the first call that closes a cycle.                           *)
EndsAtCycle ==
  phase = "running" => Cardinality(joined) + Cardinality(Roots) = UNION_SET_SIZE

\* The number of passes of find's loop.
Depth(n) == Cardinality({Path[k][n] : k \in 0 .. UNION_SET_SIZE}) - 1

(* The loop of find is short: the smaller tree goes below the bigger one, so
   a tree of depth d has at least 2^d nodes.                                *)
FindIsShort ==
  \A n \in Entries : 2 ^ Depth(n) <= -union_set[find(n)]
=============================================================================
