------------------------------ MODULE Lookups ------------------------------
(***************************************************************************)
(* Two programs that look values up: data-structures/hash-table.c          *)
(* ("table"), whose chains grow at the head, and                           *)
(* data-structures/binary-tree.c ("tree"), whose insertion goes down from  *)
(* the root, a step for each level.  Allocations succeed.                  *)
(***************************************************************************)
EXTENDS Integers, SequencesExt

CONSTANTS
  capacity,  \* of the table
  MaxPairs,  \* bound: insertions into the table
  MaxNodes,  \* bound: nodes of the tree
  Values     \* what is inserted

NULL == 0
Nodes == 1 .. MaxNodes

VARIABLES
  kind,     \* which program it is
  phase,    \* "running", "inserting", "answered", "exited" or "freed"
  buckets,  \* the table's chains
  inserted, \* history: what was inserted, in order; into the tree, values once
  asked,    \* the key table_get looks for ...
  answer,   \* ... and what it returned
  value, left, right,  \* of the tree's nodes
  used,     \* nodes allocated so far
  node,     \* the recursion's root
  new,      \* the value it inserts
  live      \* the nodes that are allocated

tableVars == <<buckets, asked, answer>>
treeVars == <<value, left, right, used, node, new, live>>
vars == <<kind, phase, tableVars, inserted, treeVars>>

\* The keys by the sum of their characters.
CharSum == [Leonor |-> 623, Turing |-> 633, Grace |-> 482]
Keys == DOMAIN CharSum
hash_function(key) == CharSum[key] % capacity

\* The tree begins with one node.
Init ==
  /\ kind \in {"table", "tree"} /\ phase = "running"
  /\ buckets = [b \in 0 .. capacity - 1 |-> <<>>] /\ asked = "" /\ answer = 0
  /\ value \in [Nodes -> {0}] /\ left = value /\ right = value /\ node = NULL /\ new = 0
  /\ used = 0 /\ live = {} /\ inserted = <<>>
-----------------------------------------------------------------------------
(* hash-table.c *)

Table == kind = "table" /\ phase \in {"running", "answered"} /\ UNCHANGED <<kind, treeVars>>

\* Where the pair goes; the variant forgets the rest of the chain.
Alone(chain, pair) == <<pair>>
AtHead(chain, pair) == <<pair>> \o chain

table_insert(key, v) ==
  /\ Table /\ Len(inserted) < MaxPairs
  /\ buckets' = [buckets EXCEPT ![hash_function(key)] = AtHead(@, <<key, v>>)]
  /\ inserted' = Append(inserted, <<key, v>>)
  /\ phase' = "running" /\ UNCHANGED <<asked, answer>>

\* The first pair of the key in its chain; -1 if there is none.
table_get(key) ==
  /\ Table /\ UNCHANGED <<buckets, inserted>>
  /\ asked' = key
  /\ LET chain == buckets[hash_function(key)]
         at == SelectInSeq(chain, LAMBDA pair : pair[1] = key)
     IN /\ phase' = IF chain = <<>> THEN "exited" ELSE "answered"
        /\ answer' = IF chain = <<>> THEN answer ELSE IF at = 0 THEN -1 ELSE chain[at][2]

table_free ==
  /\ Table /\ phase' = "freed"
  /\ buckets' = [b \in DOMAIN buckets |-> <<>>] /\ UNCHANGED <<inserted, asked, answer>>
-----------------------------------------------------------------------------
(* binary-tree.c *)

Tree(p) == kind = "tree" /\ phase = p /\ UNCHANGED <<kind, tableVars>>

tree_create_node(v) ==
  /\ Tree("running") /\ used = 0
  /\ used' = 1 /\ live' = {1} /\ value' = [value EXCEPT ![1] = v] /\ inserted' = <<v>>
  /\ UNCHANGED <<phase, left, right, node, new>>

tree_insert(v) ==
  /\ Tree("running") /\ used \in 1 .. MaxNodes - 1
  /\ phase' = "inserting" /\ node' = 1 /\ new' = v
  /\ inserted' = IF v \in ToSet(inserted) THEN inserted ELSE Append(inserted, v)
  /\ UNCHANGED <<value, left, right, used, live>>

\* Which way the recursion goes; the variant does not ignore duplicates.
NotGreater == new <= value[node]
Less == new < value[node]
Child == IF new > value[node] THEN right[node] ELSE left[node]

Return == node' = NULL /\ new' = 0

Descend ==
  /\ Tree("inserting") /\ (new > value[node] \/ Less) /\ Child # NULL
  /\ node' = Child /\ UNCHANGED <<phase, inserted, value, left, right, used, new, live>>

Attach ==
  /\ Tree("inserting") /\ (new > value[node] \/ Less) /\ Child = NULL
  /\ used' = used + 1 /\ live' = live \cup {used'}
  /\ value' = [value EXCEPT ![used'] = new]
  /\ IF new > value[node] THEN right' = [right EXCEPT ![node] = used'] /\ UNCHANGED left
                          ELSE left' = [left EXCEPT ![node] = used'] /\ UNCHANGED right
  /\ phase' = "running" /\ Return /\ UNCHANGED inserted

Duplicate ==
  /\ Tree("inserting") /\ ~(new > value[node] \/ Less)
  /\ phase' = "running" /\ Return /\ UNCHANGED <<inserted, value, left, right, used, live>>

\* What tree_print_inorder prints, and what tree_free frees.
Inorder(root) ==
  LET from[m \in 0 .. MaxNodes] ==
        IF m = NULL THEN <<>> ELSE from[left[m]] \o <<m>> \o from[right[m]]
  IN from[root]

tree_free ==
  /\ Tree("running") /\ used > 0
  /\ phase' = "freed" /\ live' = live \ ToSet(Inorder(1))
  /\ UNCHANGED <<inserted, value, left, right, used, node, new>>

Terminated == phase \in {"exited", "freed"} /\ UNCHANGED vars

Next ==
  \/ \E key \in Keys, v \in Values : table_insert(key, v)
  \/ \E key \in Keys : table_get(key)
  \/ table_free
  \/ \E v \in Values : tree_create_node(v) \/ tree_insert(v)
  \/ Descend \/ Attach \/ Duplicate \/ tree_free \/ Terminated

Spec == Init /\ [][Next]_vars
-----------------------------------------------------------------------------
TypeOK == /\ phase \in {"running", "inserting", "answered", "exited", "freed"}
          /\ used \in 0 .. MaxNodes /\ live \subseteq 1 .. used

Of(key) == SelectSeq(inserted, LAMBDA pair : pair[1] = key)
SameBucket(key) == SelectSeq(inserted, LAMBDA pair : hash_function(pair[1]) = hash_function(key))

(* table_get answers the value inserted last under a key, whatever else was
   inserted; a key that is not there gets -1, or ends the program if no key
   of its bucket is there.                                                  *)
GetsLast ==
  /\ phase = "answered" /\ Of(asked) # <<>> => answer = Last(Of(asked))[2]
  /\ phase = "answered" /\ Of(asked) = <<>> => answer = -1
  /\ kind = "table" /\ phase = "exited" => SameBucket(asked) = <<>>

(* A chain holds all pairs of its bucket, the newest first.                 *)
ChainsWhole ==
  kind = "table" /\ phase # "freed" =>
    \A key \in Keys : buckets[hash_function(key)] = Reverse(SameBucket(key))

Sorted == Inorder(1)

(* The tree prints every value once, in ascending order, also while another
   one is on its way down to where it belongs; and it is freed whole.       *)
TreeSorted ==
  kind = "tree" /\ used > 0 =>
    /\ \A i \in 1 .. Len(Sorted) - 1 : value[Sorted[i]] < value[Sorted[i + 1]]
    /\ {value[m] : m \in ToSet(Sorted)} =
         ToSet(inserted) \ (IF phase = "inserting" /\ \A m \in live : value[m] # new
                            THEN {new} ELSE {})
    /\ phase = "freed" => live = {}

(* A value that is going down is still on the way to its place: it lies
   between the values that the nodes above have sent it past.               *)
OnTheWay ==
  phase = "inserting" =>
    \A m \in live : value[m] = new => m = node \/ m \in ToSet(Inorder(node))
=============================================================================
