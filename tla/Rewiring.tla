------------------------------ MODULE Rewiring ------------------------------
(***************************************************************************)
(* The programs that rewire lists in place, with their pointers and a step *)
(* for each pass of a rewiring loop: pointer_problems/alternate.c          *)
(* ("merge"), fast_slow.c and problems/sll_traversal.c ("middle"),         *)
(* anchor.c ("remove"), inplace_mutation.c and system-eng/ll.c             *)
(* ("reverse"), memory-physics/ll.c ("physics") and problems/dll_rewiring.c *)
(* ("double").  A caller calls their functions in any order.               *)
(***************************************************************************)
EXTENDS Integers, SequencesExt

CONSTANTS MaxNodes,  \* bound: nodes allocated, at least three
          Values     \* the values of anchor.c's nodes

NULL == 0
Cells == 1 .. MaxNodes
Lists == {1, 2}      \* only "merge" has a second one

VARIABLES
  kind,     \* which program it is
  op,       \* the loop that is running; or "merged", or how the program ended
  head, next, prev, value,
  data,     \* physics: the nodes whose 32 bytes of data are allocated
  live,     \* the nodes that are allocated
  created,  \* nodes allocated so far
  current,  \* the loops' current, fast and c1
  behind,   \* the loops' prev, slow, c2 and last_visited
  target,   \* the value remove_node looks for
  answer,   \* what find_middle has returned
  expected  \* history: the nodes each list should lead to

loop == <<current, behind>>
vars == <<kind, op, head, next, prev, value, data, live, created, loop, target, answer,
          expected>>

Kinds == {"merge", "middle", "remove", "reverse", "physics", "double"}

\* The nodes an init makes: the first one of anchor.c and of memory-physics/ll.c,
\* all three of dll_rewiring.c.
InitialNodes == CASE kind \in {"remove", "physics"} -> 1 [] kind = "double" -> 3 [] OTHER -> 0

Init ==
  /\ kind \in Kinds /\ op = "idle"
  /\ created = InitialNodes /\ live = 1 .. created /\ data = {}
  /\ head = [l \in Lists |-> IF l = 1 /\ created > 0 THEN 1 ELSE NULL]
  /\ next = [n \in Cells |-> IF n < created THEN n + 1 ELSE NULL]
  /\ prev = [n \in Cells |-> IF kind = "double" /\ n <= created THEN n - 1 ELSE NULL]
  /\ value \in [Cells -> Values] /\ value[1] = 1
  /\ kind = "remove" \/ \A n \in Cells : value[n] = 1  \* of no matter to the others
  /\ current = NULL /\ behind = NULL /\ target = 1 /\ answer = NULL
  /\ expected = [l \in Lists |-> IF l = 1 THEN [i \in 1 .. created |-> i] ELSE <<>>]

\* What a walk from a node meets.
Walk(first) ==
  LET at[k \in 1 .. MaxNodes + 1] ==
        IF k = 1 THEN first ELSE IF at[k - 1] = NULL THEN NULL ELSE next[at[k - 1]]
  IN SelectSeq(at, LAMBDA n : n # NULL)

Runs(kinds) == kind \in kinds /\ UNCHANGED <<kind, value>>

\* A function begins: where its loop starts, and what its list should become.
Begin(kinds, function, c, b, becomes) ==
  /\ op = "idle" /\ Runs(kinds)
  /\ op' = function /\ current' = c /\ behind' = b
  /\ expected' = [expected EXCEPT ![1] = becomes]
  /\ UNCHANGED <<head, next, prev, data, live, created, target, answer>>

\* Another pass of its loop, which only moves on.
Pass(c, b) ==
  /\ current' = c /\ behind' = b
  /\ UNCHANGED <<op, head, next, prev, data, live, created, target, answer, expected>>

Free(n) == live' = live \ {n}
-----------------------------------------------------------------------------
(* add, add_node *)

Allocate == created < MaxNodes /\ created' = created + 1 /\ live' = live \cup {created'}

\* Behind the last node.
add(l) ==
  /\ op = "idle" /\ Runs(IF l = 1 THEN Kinds \ {"double"} ELSE {"merge"})
  /\ kind = "remove" => head[1] # NULL
  /\ kind = "physics" => head[1] \in data
  /\ Allocate
  /\ IF head[l] = NULL
     THEN head' = [head EXCEPT ![l] = created'] /\ UNCHANGED next
     ELSE next' = [next EXCEPT ![Last(Walk(head[l]))] = created'] /\ UNCHANGED head
  /\ data' = IF kind = "physics" THEN data \cup {created'} ELSE data
  /\ expected' = [expected EXCEPT ![l] = Append(@, created')]
  /\ answer' = NULL  \* what was the middle need not be it any more
  /\ UNCHANGED <<op, prev, loop, target>>

\* memory-physics/ll.c: the first call fills the node of init.
FillFirst ==
  /\ op = "idle" /\ Runs({"physics"}) /\ head[1] \in live \ data
  /\ data' = data \cup {head[1]} /\ next' = [next EXCEPT ![head[1]] = NULL]
  /\ UNCHANGED <<op, head, prev, live, created, loop, target, answer, expected>>

\* Once remove_node of anchor.c or remove_last of memory-physics/ll.c has emptied
\* the list, add_node reads through NULL; another remove_last exits.
Misuse ==
  /\ op = "idle" /\ Runs({"remove", "physics"}) /\ head[1] = NULL
  /\ op' \in {"crashed"} \cup (IF kind = "physics" THEN {"exited"} ELSE {})
  /\ UNCHANGED <<head, next, prev, data, live, created, loop, target, answer, expected>>
-----------------------------------------------------------------------------
(* reverse_list, reverse_dll *)

reverse_list ==
  Begin({"reverse", "physics", "double"}, "reverse", head[1], NULL, Reverse(expected[1]))

\* What next is overwritten with; the variant leaves the first node's as it is.
KeepsFirst == IF behind = NULL THEN next[current] ELSE behind
Backwards == IF kind = "double" THEN prev[current] ELSE behind

ReversePass ==
  /\ op = "reverse" /\ Runs(Kinds) /\ current # NULL
  /\ next' = [next EXCEPT ![current] = Backwards]
  /\ prev' = IF kind = "double" THEN [prev EXCEPT ![current] = next[current]] ELSE prev
  /\ current' = next[current] /\ behind' = current
  /\ UNCHANGED <<op, head, data, live, created, target, answer, expected>>

ReverseEnd ==
  /\ op = "reverse" /\ Runs(Kinds) /\ current = NULL
  /\ op' = "idle"
  /\ head' = IF kind = "double" /\ behind = NULL THEN head ELSE [head EXCEPT ![1] = behind]
  /\ UNCHANGED <<next, prev, data, live, created, loop, target, answer, expected>>
-----------------------------------------------------------------------------
(* find_middle *)

find_middle == Begin({"middle"}, "middle", head[1], head[1], expected[1])

\* The variant stops a pass early, at the first of two middles.
StopsEarly == current # NULL /\ next[current] # NULL /\ next[next[current]] # NULL
Hurries == current # NULL /\ next[current] # NULL

MiddlePass == op = "middle" /\ Runs(Kinds) /\ Hurries /\ Pass(next[next[current]], next[behind])

MiddleEnd ==
  /\ op = "middle" /\ Runs(Kinds) /\ ~Hurries
  /\ op' = "idle" /\ answer' = behind
  /\ UNCHANGED <<head, next, prev, data, live, created, loop, target, expected>>
-----------------------------------------------------------------------------
(* remove_node, remove_last *)

\* The first of the value, if there is one.
Wanted(t) == SelectInSeq(expected[1], LAMBDA n : value[n] = t)

remove_node(t) ==
  /\ op = "idle" /\ Runs({"remove"})
  /\ op' = "remove" /\ target' = t /\ current' = head[1] /\ behind' = NULL
  /\ expected' = IF Wanted(t) = 0 THEN expected
                 ELSE [expected EXCEPT ![1] = RemoveAt(@, Wanted(t))]
  /\ UNCHANGED <<head, next, prev, data, live, created, answer>>

remove_last ==
  /\ head[1] # NULL
  /\ Begin({"physics"}, "last", head[1], NULL, Front(expected[1]))

Found == IF op = "last" THEN next[current] = NULL ELSE value[current] = target

RemovePass ==
  /\ op \in {"remove", "last"} /\ Runs(Kinds)
  /\ current # NULL /\ ~Found
  /\ Pass(next[current], current)

\* The variant forgets that the first node has nothing behind it.
StitchAlways == next' = [next EXCEPT ![behind] = next[current]] /\ UNCHANGED head
Stitch ==
  IF behind = NULL
  THEN head' = [head EXCEPT ![1] = next[current]] /\ UNCHANGED next
  ELSE next' = [next EXCEPT ![behind] = next[current]] /\ UNCHANGED head

\* The 32 bytes of data of the last node are not freed with it.
RemoveEnd ==
  /\ op \in {"remove", "last"} /\ Runs(Kinds)
  /\ op' = "idle"
  /\ IF current = NULL
     THEN UNCHANGED <<head, next, live>>
     ELSE Found /\ Stitch /\ Free(current)
  /\ UNCHANGED <<prev, data, created, loop, target, answer, expected>>
-----------------------------------------------------------------------------
(* merge_alternating *)

\* One of each in turn; what the second list has too many is left over.
Alternated(s, t) ==
  LET m == Min({Len(s), Len(t)}) IN
  [i \in 1 .. Len(s) + m |-> IF i > 2 * m THEN s[i - m]
                             ELSE IF i % 2 = 1 THEN s[(i + 1) \div 2] ELSE t[i \div 2]]

\* Nothing happens if one of the two lists is empty.
merge_alternating ==
  Begin({"merge"}, "merge", head[1], head[2], Alternated(expected[1], expected[2]))

\* Where the node of the second list leads; the variant forgets the rest of the
\* first one.
LeadsOn == next[behind]
Rejoins == next[current]

MergePass ==
  /\ op = "merge" /\ Runs(Kinds) /\ current # NULL /\ behind # NULL
  /\ next' = [next EXCEPT ![current] = behind, ![behind] = Rejoins]
  /\ current' = next[current] /\ behind' = next[behind]
  /\ UNCHANGED <<op, head, prev, data, live, created, target, answer, expected>>

\* main does no more with the lists than print and clean the first.
MergeEnd ==
  /\ op = "merge" /\ Runs(Kinds) /\ (current = NULL \/ behind = NULL)
  /\ op' = "merged"
  /\ UNCHANGED <<head, next, prev, data, live, created, loop, target, answer, expected>>
-----------------------------------------------------------------------------
(* clean, free_list, free_nodes; dll_rewiring.c frees nothing *)

clean ==
  /\ op = IF kind = "merge" THEN "merged" ELSE "idle"
  /\ Runs(Kinds \ {"double"})
  /\ op' = "clean" /\ current' = head[1]
  /\ UNCHANGED <<head, next, prev, data, live, created, behind, target, answer, expected>>

FreePass ==
  /\ op = "clean" /\ Runs(Kinds)
  /\ IF current = NULL
     THEN op' = "freed" /\ UNCHANGED <<data, live, current>>
     ELSE /\ Free(current) /\ data' = data \ {current}
          /\ current' = next[current] /\ UNCHANGED op
  /\ UNCHANGED <<head, next, prev, created, behind, target, answer, expected>>

Terminated == op \in {"freed", "crashed", "exited"} /\ UNCHANGED vars

Next ==
  \/ \E l \in Lists : add(l)
  \/ FillFirst \/ Misuse
  \/ reverse_list \/ ReversePass \/ ReverseEnd
  \/ find_middle \/ MiddlePass \/ MiddleEnd
  \/ \E t \in Values : remove_node(t)
  \/ remove_last \/ RemovePass \/ RemoveEnd
  \/ merge_alternating \/ MergePass \/ MergeEnd
  \/ clean \/ FreePass \/ Terminated

Spec == Init /\ [][Next]_vars
-----------------------------------------------------------------------------
TypeOK ==
  /\ kind \in Kinds /\ live \subseteq 1 .. created /\ data \subseteq 1 .. created
  /\ op \in {"idle", "reverse", "middle", "remove", "last", "merge", "merged", "clean",
             "freed", "crashed", "exited"}
  /\ head \in [Lists -> Cells \cup {NULL}]
  /\ next \in [Cells -> Cells \cup {NULL}] /\ prev \in [Cells -> Cells \cup {NULL}]
  /\ {current, behind, answer} \subseteq Cells \cup {NULL}

Settled == op \in {"idle", "merged"}

(* Whatever was added, removed, reversed and merged before, a list leads to the
   nodes it should, in order, and in both directions where it has two.      *)
LeadsToExpected ==
  Settled =>
    /\ Walk(head[1]) = expected[1]
    /\ op = "idle" => Walk(head[2]) = expected[2]
    /\ kind = "double" =>
         \A i \in DOMAIN expected[1] :
           prev[expected[1][i]] = IF i = 1 THEN NULL ELSE expected[1][i - 1]

(* While a list is being reversed every node is in one of the two parts: what
   is left of the old one, or what there is of the new one.                 *)
NothingSlips ==
  op = "reverse" => Reverse(Walk(current)) \o Walk(behind) = expected[1]

(* find_middle answers the middle node, the second one of two.              *)
MiddleIsSecond == answer # NULL => answer = expected[1][Len(expected[1]) \div 2 + 1]

(* No list leads to a freed node, and no node is lost without being freed, but
   for what the second list had too many.                                   *)
NothingLost ==
  /\ op = "idle" => live = ToSet(expected[1]) \cup ToSet(expected[2])
  /\ op = "merged" => ToSet(expected[1]) \subseteq live
  /\ op = "freed" => live = IF kind = "merge" THEN ToSet(expected[2]) \ ToSet(expected[1]) ELSE {}

(* anchor.c and memory-physics/ll.c read through NULL, and the latter exits
   with an error, only when the calls have emptied the list; ll.c holds the
   bytes of no node that clean freed.                                       *)
MisuseOfEmpty ==
  /\ op \in {"crashed", "exited"} => live = {} /\ expected[1] = <<>>
  /\ op = "freed" => \A n \in data : n \notin ToSet(expected[1])
=============================================================================
