----------------------------- MODULE MicroMake -----------------------------
(***************************************************************************)
(* graphs_bootcamp/micro-make.c: tasks with prerequisites, a disjoint-set  *)
(* forest of the clusters they form, and a depth-first search that reports *)
(* cycles and orders the tasks.  The recursion of has_cycle is the stack   *)
(* of its activations, each with the edges it has still to look at.        *)
(***************************************************************************)
EXTENDS Integers, SequencesExt, FiniteSets

CONSTANTS
  VERTEX,    \* number of tasks
  MaxEdges   \* bound: dependencies added

MakeAssumption == VERTEX \in Nat

VARIABLES
  phase,      \* building, testing or done
  adj_list,   \* the prerequisites of each task, the latest first
  DSU,        \* the parent of a task, or minus the size of a root's cluster
  state,      \* 0 unvisited, 1 on the way, 2 finished
  topo_order,
  task,       \* the loop of test_graph_for_cycles
  stack       \* activations of has_cycle, the innermost first

vars == <<phase, adj_list, DSU, state, topo_order, task, stack>>

Tasks == 0 .. VERTEX - 1

Init ==
  /\ phase = "building"
  /\ adj_list = [t \in Tasks |-> <<>>]
  /\ DSU = [t \in Tasks |-> -1]
  /\ state = [t \in Tasks |-> 0]
  /\ topo_order = <<>> /\ task = 0 /\ stack = <<>>
-----------------------------------------------------------------------------
(* The forest *)

Climb[n \in 0 .. VERTEX] ==
  [t \in Tasks |-> IF n = 0 \/ DSU[t] < 0 THEN t ELSE Climb[n - 1][DSU[t]]]
find(t) == Climb[VERTEX][t]

\* b's tree is attached to a; the variant forgets to add up the sizes.
AttachOnly(a, b) == [DSU EXCEPT ![b] = a]
Attach(a, b) == [DSU EXCEPT ![a] = @ + DSU[b], ![b] = a]

\* Union by size: sizes are negative, so the bigger tree is the lesser one.
set_union(a, b) ==
  DSU' = IF find(a) = find(b) THEN DSU
         ELSE IF DSU[find(a)] <= DSU[find(b)] THEN Attach(find(a), find(b))
         ELSE Attach(find(b), find(a))

Edges == {e \in Tasks \X Tasks : e[2] \in ToSet(adj_list[e[1]])}

Dependencies == FoldFunction(LAMBDA l, n : n + Len(l), 0, adj_list)

add_dependency(t, p) ==
  /\ phase = "building"
  /\ Dependencies < MaxEdges
  /\ adj_list' = [adj_list EXCEPT ![t] = <<p>> \o @]
  /\ set_union(t, p)
  /\ UNCHANGED <<phase, state, topo_order, task, stack>>
-----------------------------------------------------------------------------
(* test_graph_for_cycles and has_cycle *)

StartTest ==
  /\ phase = "building"
  /\ phase' = "testing"
  /\ UNCHANGED <<adj_list, DSU, state, topo_order, task, stack>>

\* A called task is on the way; the variant leaves it unvisited.
LeaveUnmarked(t) == state
Mark(t) == [state EXCEPT ![t] = 1]

Activation(t) == [task |-> t, edges |-> adj_list[t]]

Call(t) ==
  /\ state' = Mark(t)
  /\ stack' = <<Activation(t)>> \o stack

NextTask ==
  /\ phase = "testing" /\ stack = <<>> /\ task < VERTEX
  /\ IF state[task] = 0 THEN Call(task) ELSE UNCHANGED <<state, stack>>
  /\ task' = task + 1
  /\ UNCHANGED <<phase, adj_list, DSU, topo_order>>

Target == Head(stack[1].edges)
Looking == phase = "testing" /\ stack # <<>> /\ stack[1].edges # <<>>

\* The call of has_cycle on an unvisited prerequisite; the edge is done with
\* when it returns.
Descend ==
  /\ Looking /\ state[Target] = 0
  /\ state' = Mark(Target)
  /\ stack' = <<Activation(Target), [stack[1] EXCEPT !.edges = Tail(@)]>> \o Tail(stack)
  /\ UNCHANGED <<phase, adj_list, DSU, topo_order, task>>

\* A finished prerequisite has no cycle; the variant takes one on the way
\* for finished too.
NoRepeat == state[Target] # 0
Finished == state[Target] = 2

SkipFinished ==
  /\ Looking /\ Finished
  /\ stack' = <<[stack[1] EXCEPT !.edges = Tail(@)]>> \o Tail(stack)
  /\ UNCHANGED <<phase, adj_list, DSU, state, topo_order, task>>

\* Every activation returns 1: none of their tasks is finished.
Cycle ==
  /\ Looking /\ ~Finished /\ state[Target] = 1
  /\ stack' = <<>>
  /\ UNCHANGED <<phase, adj_list, DSU, state, topo_order, task>>

\* The finished task follows its prerequisites; the variant puts it first.
Prepend(t) == <<t>> \o topo_order
Record(t) == Append(topo_order, t)

Finish ==
  /\ phase = "testing" /\ stack # <<>> /\ stack[1].edges = <<>>
  /\ state' = [state EXCEPT ![stack[1].task] = 2]
  /\ topo_order' = Record(stack[1].task)
  /\ stack' = Tail(stack)
  /\ UNCHANGED <<phase, adj_list, DSU, task>>

has_cycle == Descend \/ SkipFinished \/ Cycle \/ Finish

\* The order is printed and changes nothing.  The loop prints VERTEX entries
\* whatever was written: the last is beyond the allocation, and after a cycle
\* those of the tasks left out are what malloc left there.
EndTest ==
  /\ phase = "testing" /\ stack = <<>> /\ task = VERTEX
  /\ phase' = "done"
  /\ UNCHANGED <<adj_list, DSU, state, topo_order, task, stack>>

Terminated == phase = "done" /\ UNCHANGED vars

Next ==
  \/ \E t, p \in Tasks : add_dependency(t, p)
  \/ StartTest \/ NextTask \/ has_cycle \/ EndTest \/ Terminated

Spec == Init /\ [][Next]_vars
-----------------------------------------------------------------------------
(* has_cycle has each task on its stack of activations in state 1 and
   writes no task twice into the order.                                     *)
TypeOK ==
  /\ phase \in {"building", "testing", "done"}
  /\ adj_list \in [Tasks -> Seq(Tasks)]
  /\ DSU \in [Tasks -> (-VERTEX .. -1) \cup Tasks]
  /\ state \in [Tasks -> 0 .. 2] /\ task \in 0 .. VERTEX
  /\ topo_order \in Seq(Tasks) /\ IsInjective(topo_order)
  /\ {stack[k].task : k \in DOMAIN stack} \subseteq {t \in Tasks : state[t] = 1}

Tree(t) == {b \in Tasks : find(b) = find(t)}

\* No dependency enters or leaves the set.
Separate(S) == \A e \in Edges : e[1] \in S <=> e[2] \in S

(* The forest's trees are the connected clusters of the dependencies added so
   far, and a root holds the size of its cluster (set_union, find).         *)
Clusters ==
  /\ \A t \in Tasks : DSU[find(t)] < 0
  /\ \A t \in {r \in Tasks : DSU[r] < 0} :
       LET cluster == Tree(t)
       IN  /\ Separate(cluster) /\ Cardinality(cluster) = -DSU[t]
           /\ \A S \in SUBSET cluster : Separate(S) => S \in {{}, cluster}

\* Every task of the order stands after all its prerequisites.
PrerequisitesFirst ==
  \A k \in DOMAIN topo_order : \A p \in ToSet(adj_list[topo_order[k]]) :
    \E j \in 1 .. k - 1 : topo_order[j] = p

\* The tasks from which dependencies can be followed for ever.
Cyclic ==
  UNION {S \in SUBSET Tasks : \A t \in S : ToSet(adj_list[t]) \cap S # {}}

\* In the end the tasks that lead to a cycle, and only they, are left on the
\* way and out of the order.
CyclesFound ==
  phase = "done" =>
    /\ {t \in Tasks : state[t] = 1} = Cyclic
    /\ ToSet(topo_order) = Tasks \ Cyclic

(* test_graph_for_cycles: the order respects the prerequisites at any time,
   whether or not there are cycles elsewhere, and the tasks left out of it
   are those that lead to a cycle, however early one cut the search short.  *)
SearchSound == TypeOK /\ PrerequisitesFirst /\ CyclesFound

(* create_graph allocates the space for the order of the vertices.  Its
   malloc asks for one entry less; the entry too many may fall into what the
   allocator rounds up, it is outside the array all the same.               *)
OrderFits == Len(topo_order) <= VERTEX - 1
=============================================================================
