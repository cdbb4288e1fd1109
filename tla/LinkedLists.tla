---------------------------- MODULE LinkedLists -----------------------------
(***************************************************************************)
(* Programs that thread their nodes on pointers: data-structures/          *)
(* linked_list.c, double_linked_list.c and insertion_sort.c, and the slots *)
(* of problems/vending_machine.c, of which one is modelled at a time: they *)
(* share nothing.  Nodes are numbered as they are allocated.               *)
(***************************************************************************)
EXTENDS Integers, SequencesExt

CONSTANTS
  MaxNodes,            \* bound: nodes allocated
  SLOT_ITEM_CAPACITY,  \* of a slot of the vending machine
  Costs                \* of the cards that are added to the deck

NULL == 0
Nodes == 1 .. MaxNodes
Slots == {"snacks", "drinks", "devices"}

VARIABLES
  kind,   \* list, double, deck or one of the Slots
  phase,  \* running, exited, returned, crashed (through NULL) or undefined
  head, tail, size,
  next, prev,
  cost,   \* of a card
  live    \* the nodes that are allocated

vars == <<kind, phase, head, tail, size, next, prev, cost, live>>

\* The deck starts with one card, whose name is a literal.
Literal == 1

Init ==
  /\ kind \in {"list", "double", "deck"} \cup Slots /\ phase = "running"
  /\ tail = NULL /\ size = 0
  /\ next = [n \in Nodes |-> NULL] /\ prev = [n \in Nodes |-> NULL]
  /\ IF kind = "deck"
     THEN head = Literal /\ live = {Literal} /\ cost = [n \in Nodes |-> 10]
     ELSE head = NULL /\ live = {} /\ cost = [n \in Nodes |-> 0]

Runs(program) == phase = "running" /\ kind = program
New == Cardinality(live) + 1

End(how) ==
  /\ phase' = how
  /\ UNCHANGED <<kind, head, tail, size, next, prev, cost, live>>

\* What a walk along next meets: its k-th node, and NULL behind the last.
At[k \in 1 .. MaxNodes + 1] ==
  IF k = 1 THEN head ELSE IF At[k - 1] = NULL THEN NULL ELSE next[At[k - 1]]
Walk == SelectSeq(At, LAMBDA n : n # NULL)

\* The same along prev, from the tail.
BackAt[k \in 1 .. MaxNodes + 1] ==
  IF k = 1 THEN tail ELSE IF BackAt[k - 1] = NULL THEN NULL ELSE prev[BackAt[k - 1]]
WalkBack == SelectSeq(BackAt, LAMBDA n : n # NULL)

Allocate ==
  /\ New \in Nodes
  /\ live' = live \cup {New}
  /\ UNCHANGED <<kind, phase>>
-----------------------------------------------------------------------------
(* linked_list.c and the slots: a new node goes behind the last one *)

\* The variant overwrites what the first node leads to.
BehindFirst == head
LastNode == Last(Walk)

AppendNode ==
  /\ Allocate
  /\ IF head = NULL
     THEN head' = New /\ UNCHANGED next
     ELSE next' = [next EXCEPT ![LastNode] = New] /\ UNCHANGED head
  /\ size' = size + 1
  /\ UNCHANGED <<tail, prev, cost>>

list_append == Runs("list") /\ AppendNode

\* The loop of list_get stops at the last node whatever the index.
Element(index) == Walk[IF index < Len(Walk) THEN index + 1 ELSE Len(Walk)]

list_get(index) == Runs("list") /\ index \notin 0 .. size - 1 /\ End("exited")

\* The test of check_slot_availability; the variant lets one item more in.
SlotFullLate == size > SLOT_ITEM_CAPACITY
SlotFull == size + 1 > SLOT_ITEM_CAPACITY

AddItem == IF SlotFull THEN End("exited") ELSE AppendNode

add_snack == Runs("snacks") /\ AddItem
add_drink == Runs("drinks") /\ AddItem
add_device(has_warranty) ==
  /\ Runs("devices")
  /\ IF has_warranty > 1 THEN End("exited") ELSE AddItem
-----------------------------------------------------------------------------
(* double_linked_list.c *)

dll_append ==
  /\ Runs("double") /\ Allocate
  /\ IF head = NULL
     THEN head' = New /\ UNCHANGED <<next, prev>>
     ELSE /\ prev' = [prev EXCEPT ![New] = tail]
          /\ next' = [next EXCEPT ![tail] = New]
          /\ UNCHANGED head
  /\ tail' = New /\ size' = size + 1
  /\ UNCHANGED cost

\* An empty list has no tail to start from.
dll_print_reverse == Runs("double") /\ tail = NULL /\ End("crashed")
-----------------------------------------------------------------------------
(* insertion_sort.c *)

\* The cards the search passes: those before one that costs more; the variant
\* stops at one of the same cost.
Before(k) == IF k = 0 THEN Walk ELSE SubSeq(Walk, 1, k - 1)
PassesCheaper(c) == Before(SelectInSeq(Walk, LAMBDA n : cost[n] >= c))
Passes(c) == Before(SelectInSeq(Walk, LAMBDA n : cost[n] > c))

AtHead ==
  /\ next' = [next EXCEPT ![New] = head]
  /\ prev' = [prev EXCEPT ![head] = New]
  /\ head' = New

\* A card goes in behind p; the variant leaves the card after it as it was.
AfterForward(p) ==
  next' = [next EXCEPT ![New] = next[p], ![p] = New] /\ prev' = [prev EXCEPT ![New] = p]
After(p) ==
  /\ next' = [next EXCEPT ![New] = next[p], ![p] = New]
  /\ prev' = [n \in Nodes |-> IF n = New THEN p ELSE IF n = next[p] THEN New ELSE prev[n]]

add_card(c, long_name) ==
  /\ Runs("deck")
  /\ IF long_name THEN End("exited")
     ELSE /\ Allocate /\ cost' = [cost EXCEPT ![New] = c]
          /\ IF Passes(c) = <<>> THEN AtHead
             ELSE After(Last(Passes(c))) /\ UNCHANGED head
          /\ UNCHANGED <<tail, size>>
-----------------------------------------------------------------------------
(* list_free, clean_vm, dll_free and free_memory *)

FreeAll ==
  /\ phase = "running"
  /\ CASE kind = "double" /\ tail = NULL -> End("crashed")
       [] kind = "deck" -> End("undefined")  \* frees the literal name
       [] OTHER -> /\ phase' = "returned"
                   /\ live' = live \ ToSet(IF kind = "double" THEN WalkBack ELSE Walk)
                   /\ UNCHANGED <<kind, head, tail, size, next, prev, cost>>

Terminated == phase # "running" /\ UNCHANGED vars

Next ==
  \/ list_append \/ (\E index \in -1 .. MaxNodes : list_get(index))
  \/ add_snack \/ add_drink \/ (\E w \in 0 .. 2 : add_device(w))
  \/ dll_append \/ dll_print_reverse
  \/ (\E c \in Costs, long_name \in BOOLEAN : add_card(c, long_name))
  \/ FreeAll \/ Terminated

Spec == Init /\ [][Next]_vars
-----------------------------------------------------------------------------
Link == Nodes \cup {NULL}
Arrived == [k \in 1 .. Cardinality(live) |-> k]
Used == phase \notin {"returned", "undefined"}

TypeOK ==
  /\ phase \in {"running", "exited", "returned", "crashed", "undefined"}
  /\ head \in Link /\ tail \in Link /\ next \in [Nodes -> Link] /\ prev \in [Nodes -> Link]
  /\ live \subseteq Nodes /\ size \in 0 .. MaxNodes
  /\ kind \in Slots => size <= SLOT_ITEM_CAPACITY

(* Walking a list meets every node once, in the order of the calls, or in the
   deck sorted by cost and, where costs are equal, in that order.           *)
InOrder ==
  Used =>
    IF kind # "deck" THEN Walk = Arrived
    ELSE /\ Len(Walk) = Cardinality(live) /\ ToSet(Walk) = live
         /\ \A i, j \in DOMAIN Walk :
              i < j => \/ cost[Walk[i]] < cost[Walk[j]]
                       \/ cost[Walk[i]] = cost[Walk[j]] /\ Walk[i] < Walk[j]

(* Backward links mirror the forward ones, wherever a card was inserted.    *)
Mirrored ==
  Used /\ kind \in {"double", "deck"} =>
    /\ head # NULL => prev[head] = NULL
    /\ \A n \in live : next[n] # NULL => prev[next[n]] = n
    /\ kind = "double" => WalkBack = Reverse(Walk)

(* list_get answers with the element of that index, because size is the length
   of the list: behind the last node its loop would answer with that node.  *)
GetsElement ==
  kind \notin {"double", "deck"} /\ Used =>
    /\ size = Len(Walk)
    /\ \A index \in 0 .. size - 1 : Element(index) = Arrived[index + 1]

(* At the end every node has been freed; only the walks back over an empty
   list go through NULL, and only the deck frees what was not allocated.    *)
AllFreed ==
  /\ phase = "returned" => live = {}
  /\ phase = "crashed" => kind = "double" /\ live = {}
  /\ phase = "undefined" => kind = "deck"
=============================================================================
