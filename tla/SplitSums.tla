----------------------------- MODULE SplitSums -----------------------------
(***************************************************************************)
(* pthread/aggregator.c and multithreading/concurrent_sum.c: a list is cut *)
(* into chunks, a thread adds up each, and main adds up what it joins.     *)
(* The aggregator's chunks end with their last index, the other's one      *)
(* beyond; and the threads of concurrent_sum.c count from the start of the *)
(* whole list, not of their chunk, which a list of ones does not show.     *)
(* The list is as long as its chunks: num_threads divides LIST_SIZE (if it *)
(* did not, concurrent_sum.c would leave the remainder out).               *)
(***************************************************************************)
EXTENDS Integers, FiniteSetsExt

CONSTANTS Workers,   \* PT_LIST_SIZE, num_threads: 4 in the code
          ChunkSize  \* SUM_SIZE, chunk_size: 5 and 2500 in the code

\* num_threads is of type uint8_t, the indices of type uint16_t.
SplitAssumption == /\ Workers \in 1 .. 255 /\ ChunkSize \in Nat \ {0}
                   /\ Workers * ChunkSize < 65536

Threads == 0 .. Workers - 1
Indices == 0 .. Workers * ChunkSize - 1  \* of the list

VARIABLES
  kind,     \* which of the two programs it is
  main,     \* where main is, or how the program ended
  count,    \* threads created, joined or added so far
  pc, at,   \* where each thread is, and its loop variable i
  partial,  \* the sum of each thread so far
  sums,     \* what the aggregator's joins returned
  total,
  reads     \* history: how often each index was read

vars == <<kind, main, count, pc, at, partial, sums, total, reads>>

Aggregates == kind = "aggregator"

\* The aggregator's literals, threads[4] and j == 4, fit chunks of five only, of
\* which it has room for four.
Kinds == {"concurrent"} \cup
         (IF Workers <= 4 /\ ChunkSize = 5 THEN {"aggregator"} ELSE {})

\* fill_list, generate.
data == [i \in Indices |-> IF Aggregates THEN i + 1 ELSE 1]
\* The sums are of type uint8_t and uint16_t.
Width == IF Aggregates THEN 256 ELSE 65536

\* fill_args_list, init_processing.
start_index(t) == t * ChunkSize
end_index(t) == start_index(t) + (IF Aggregates THEN ChunkSize - 1 ELSE ChunkSize)

Init ==
  /\ kind \in Kinds
  /\ main = "create" /\ count = 0
  /\ pc = [t \in Threads |-> "unborn"] /\ at = [t \in Threads |-> start_index(t)]
  /\ partial = [t \in Threads |-> 0] /\ sums = [t \in Threads |-> 0]
  /\ total = 0 /\ reads = [i \in Indices |-> 0]
-----------------------------------------------------------------------------
(* partial_sum, compute_partial_sum *)

\* The variant takes both ends for exclusive.
MoreBelow(t) == at[t] < end_index(t)
More(t) == IF Aggregates THEN at[t] <= end_index(t) ELSE at[t] < end_index(t)

\* The variant reads the chunk in both programs.
OwnChunk(t) == at[t]
Position(t) == IF Aggregates THEN at[t] ELSE at[t] - start_index(t)

AddElement(t) ==
  /\ pc[t] = "sum" /\ More(t)
  /\ partial' = [partial EXCEPT ![t] = (@ + data[Position(t)]) % Width]
  /\ at' = [at EXCEPT ![t] = @ + 1]
  /\ reads' = [reads EXCEPT ![Position(t)] = @ + 1]
  /\ UNCHANGED <<kind, main, count, pc, sums, total>>

ReturnSum(t) ==
  /\ pc[t] = "sum" /\ ~More(t)
  /\ pc' = [pc EXCEPT ![t] = "done"]
  /\ UNCHANGED <<kind, main, count, at, partial, sums, total, reads>>

\* Only the aggregator's threads allocate their result.
OutOfMemory(t) ==
  /\ Aggregates /\ pc[t] = "sum" /\ at[t] = start_index(t)
  /\ main' = "exited"
  /\ UNCHANGED <<kind, count, pc, at, partial, sums, total, reads>>

Running == main \notin {"done", "exited"}
partial_sum(t) == Running /\ (AddElement(t) \/ ReturnSum(t) \/ OutOfMemory(t))
-----------------------------------------------------------------------------
(* spawn_workers, parallel_compute *)

\* main goes on with the next thread, or with its next loop.
Onward(next) == /\ count' = (count + 1) % Workers
                /\ main' = IF count' = 0 THEN next ELSE main

Create ==
  /\ main = "create" /\ Onward("join")
  /\ pc' = [pc EXCEPT ![count] = "sum"]
  /\ UNCHANGED <<kind, at, partial, sums, total, reads>>

\* The variant goes on without waiting.
NoWait(t) == TRUE
Joined(t) == pc[t] = "done"

Join ==
  /\ main = "join" /\ Joined(count) /\ Onward("add")
  /\ sums' = [sums EXCEPT ![count] = partial[count]]
  /\ UNCHANGED <<kind, pc, at, partial, total, reads>>

AddUp ==
  /\ main = "add" /\ Onward("done")
  /\ total' = (total + (IF Aggregates THEN sums[count] ELSE partial[count])) % Width
  /\ UNCHANGED <<kind, pc, at, partial, sums, reads>>

spawn_workers == Create \/ Join \/ AddUp

Terminated == ~Running /\ UNCHANGED vars

Next == spawn_workers \/ Terminated \/ \E t \in Threads : partial_sum(t)

Spec == Init /\ [][Next]_vars

\* The program is finite: it is enough that some thread that can run does.
FairSpec == Spec /\ WF_vars(Next)
-----------------------------------------------------------------------------
TypeOK ==
  /\ kind \in {"aggregator", "concurrent"}
  /\ main \in {"create", "join", "add", "done", "exited"} /\ count \in Threads
  /\ pc \in [Threads -> {"unborn", "sum", "done"}]
  /\ at \in [Threads -> 0 .. Workers * ChunkSize]
  /\ partial \in [Threads -> 0 .. Width - 1] /\ sums \in [Threads -> 0 .. Width - 1]
  /\ total \in 0 .. Width - 1 /\ reads \in [Indices -> 0 .. Workers]

(* main adds up only what is complete; and the total it prints is that of the
   list, whoever finished first.                                            *)
TotalIsSum ==
  /\ main = "add" => \A t \in Threads : pc[t] = "done"
  /\ main = "done" => total = MapThenSumSet(LAMBDA i : data[i], Indices) % Width

(* The aggregator's threads read every number once.  Those of concurrent_sum.c
   all read the first chunk and never the rest of the list.                 *)
EveryIndexOnce ==
  main = "done" =>
    reads = [i \in Indices |-> IF Aggregates THEN 1
                               ELSE IF i < ChunkSize THEN Workers ELSE 0]

(* main's joins return.                                                     *)
Termination == <>(~Running)
=============================================================================
