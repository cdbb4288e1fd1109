# bare-metal-architect in TLA+

The repository is a collection of C programs: monitors, semaphores, thread
pools, lock-free counters, a small threaded server, and sequential programs
that keep their data in chains, tables and bit masks.  There is no single
system: a *component* here is one program, and what makes it worth a model is
that its threads, or its long sequences of calls, can get into states no run of
`main` is likely to show.

This directory models the programs with logic of their own, checks them with
TLC on small instances, and proves with TLAPS, for every instance, the safety
properties of the concurrent programs and of most of the sequential ones that
keep a table, a mask, a heap or a bank.

Contents: [inventory](#1-inventory), [modules](#2-modules-and-how-they-follow-the-code),
[runs](#3-runs), [fairness](#4-fairness), [proofs](#5-proofs),
[disagreements](#6-where-the-code-and-its-words-disagree),
[not modelled](#7-what-is-not-modelled), [plan](#8-plan).

## 1. Inventory

Every component, the ones without a model included, is listed in
`PROJECT.json` under `components`; the hazards, each at its line, under
`hazards`.  The programs share no code and no state with each other.  Inside a
program the threads interact through shared fields guarded by mutexes, through
condition variables and semaphores, and through `main`'s `pthread_create` and
`pthread_join`.  The only state that outlives a process is the name of a
semaphore (`ring_buffer.c`, `prod_cons.c`, `resource_counter.c`): what a killed
process leaves there is modelled for `resource_counter.c`, whose first call is
the one that removes it; there is no other recovery from a crash to speak of.

### Concurrent programs

| program | state | operations | what is hard | what makes it correct |
|---|---|---|---|---|
| `pthread/thread_pool.c`, `multithreading/tp_engine.c` | ring of tasks, `count`, `head`, `tail`, `shutdown`, one mutex, one condition | `submit_task`, `worker_loop`, shutdown and join in `main` | one signal per submission against workers that loop; draining before leaving | no wakeup lost, FIFO without loss or repetition, accepted tasks run before `main` leaves, the joins return |
| `pthread/ring_buffer.c` | ring, two indices, two named semaphores, a mutex | `add_value`, `get_value` | the slot count is split over two semaphores that are posted outside the mutex | tokens conserved, FIFO, the joins return although only half of the items are read |
| `multithreading/bounded_buffer.c` | ring of packets, two conditions | `encode_package`, `decode_package` | both sides signal *after* the unlock | nobody sleeps while there is work and no signal under way; FIFO; joins return |
| `recap/ring_buffer.c` | ring of three values, `is_full`, a detached logger | `push`, `pop`, `is_full` | the flag that wakes the logger is cleared by the next `pop` | the ring holds exactly what was accepted; a warning answers a refusal; the logger cannot stop `main` |
| `pthread/scanner.c` | two bits, one condition for two kinds of waiters | `set_power`, `set_frequency`, `read_value` | a single signal may wake the wrong waiter | a report only with both bits; which interleavings hang |
| `pthread/water_pump.c` | `uint8_t` level, EMPTY bit, two conditions | `fill_water`, `get_water`, `show_report` | a loop condition is read without the mutex; two of the conditions are never signalled or never waited on | an empty tank is never drained; all or nothing; who returns |
| `pthread/contional_var.c` | three bits, two conditions | `clean`, `fill`, `open_pool` | broadcasts after the unlock, a second locking | stages in order, no broadcast lost, end |
| `pthread/cond_timed_wait.c` | flag, absolute deadline, return code | `api_worker`, `main` | timeout races the signal | verdict justified, and given even if `main` is silent |
| `pthread/reconciliation.c` | two packet lists, two counters, two conditions | `extract`, `extract_and_process`, `print_ds_data`, `start_reconciliation`, `process_reconciliation` | three stages, lists walked without the mutex, an early return before a counter is raised | only complete lists are printed and compared; the verdict, hanging over an empty list included, depends on the data alone |
| `recap/custom_arena.c` | arena of five bytes, two flags, two conditions | `add`, `worker_print`, `arena_destroy` | the arena is freed while other threads may still be in `add`; nothing but the number of adders prevents it | freed last, printed full, the joins return |
| `system-design-bootcamp/arena-alloc.c` | packets, `offset`, one condition | `add_packet`, `report` | the signal precedes the packet it announces; the report reads without the mutex | the reporter wakes and sees every packet |
| `sockets/MT-Server.c` | linked list of messages, logger, `uint8_t` connections | accept loop, `handle_client`, `log_message`, `shutdown_server` | the recap walks and frees the list without the mutex while detached handlers append; a handler may `exit` the process | list = log whenever the mutex is free; the recap is in order; complete when nobody is left |
| `pthread/prod_cons.c` | view lists, `uint8_t size`, a counting semaphore, a mutex | `add_view`, `consumer_process`, `end_process` | the token is posted after the unlock, another consumer may use it | each token has a view behind it; no view consumed twice; joins return |
| `multithreading/deadlock_accounts.c` | two balances, two mutexes, a flag with a condition | two opposite transfers, `check_balance` | lock order; a reader that takes only the second mutex | no deadlock, no money lost, the report balances |
| `multithreading/cas.c` | one atomic counter | `worker_loop` | weak compare-and-exchange fails spuriously and races | no increment lost; an indivisible addition; ends |
| `pthread/bank_account.c`, `multithreading/balance_race.c`, `multithreading/pthreads.c` | a balance and a mutex | deposits, one reader | load and store are two steps | an indivisible addition; joins return |
| `pthread/mutex.c` | a switch, a log, a mutex, one thread handle | `toggle_sensor`, `check_sensor_state`, `main`'s joins | ten threads share one handle, which is joined ten times; `main` reads, destroys and frees while others may be at work | no toggle lost; the report misses only toggles of threads that were late |
| `pthread/resource_counter.c` | a named semaphore | `init_semaphore`, `gen_message`, `consume_message`, `destroy_semaphore` | the name outlives the process; unlinking and opening are two calls | a token consumed is a message of this run; the name is gone after a clean end |
| `pthread/aggregator.c`, `multithreading/concurrent_sum.c` | a list, chunks, partial sums of narrow types | `partial_sum`, `compute_partial_sum`, `main`'s joins | inclusive and exclusive ends; where a thread starts to count | the total is that of the list; each index once |

### Sequential programs

| program | state | operations | what is hard | what makes it correct |
|---|---|---|---|---|
| `system-design-bootcamp/arena.c`, `memory/arena.c` | buffer, offset | `alloc_obj`, `arena_reset`, `destroy_arena` | the room is tested before the size is padded | blocks inside the buffer, aligned, disjoint |
| `multithreading/banking.c` | hash table of branches, lists of accounts | `add_branch`, `open_account`, `find`, `find_customer`, `deposit` | colliding and repeated names share a chain | a name leads to its first branch; money and numbers add up |
| `problems/fcw.c` | two bytes of switches, a checklist, a black box | `toggle_engine_switch_on/off`, `refill`, `execute_departure`, `execute_landing` | masks and bit numbers defined apart; a dialogue on standard input | altitude bits exclusive; fuel in the air; the black box is right about the left engine; an item signed for is on, or was ordered off since; two pilots for an engine in the air |
| `problems/cargo.c` | queue shifted by hand, four rails, packed bytes | `enqueue`, `dequeue`, `inspect`, `load`, `clean` | trailing pointers, stale bits of `malloc`, four-bit measures | every container in one place; freed once; in order |
| `graphs_bootcamp/micro-make.c` | adjacency lists, disjoint-set forest, colours, order | `add_dependency`, `set_union`, `find`, `has_cycle` | a cycle cuts the search short and leaves colours behind | clusters are the connected components; order respects prerequisites; cycles found |
| `graphs/Dijkstra/` | adjacency lists, a heap of fixed capacity, `distances` | `add_route`, `run_dijkstra`; `push`, `pop` | an improved city is pushed again, its older entries stay and are recognised by their distance; the heap can be full; `999999` stands for unreached | shortest distances; the heap is a priority queue; it suffices for as many routes as it has entries |
| `graphs/disjoint_subset.c` | parents and negative sizes in one array | `find`, `set_union` | nodes versus roots; the program exits at a cycle | trees are the connected clusters, sizes right, paths logarithmic |
| `graphs/BFS_and_DFS.c` | matrix, queue, `visited`, the recursion | `BFS`, `DFS` | marks that are never cleared between walks | each reachable vertex once, breadth first or depth first |
| `data-structures/stack.c`, `queue.c`, `dynamic_vector.c`, `memory/stream_queue.c` | an array with a size | `push`, `pop`; `enqueue`, `dequeue`; `vector_push`, `vector_get` | the comparison with the capacity; what the moving loop leaves in the last slot; growth | LIFO or FIFO; values kept by growth; freed once |
| `data-structures/linked_list.c`, `double_linked_list.c`, `insertion_sort.c`, `problems/vending_machine.c` | nodes on pointers, a size | `list_append`, `list_get`, `dll_append`, `add_card`, `add_snack`, `add_drink`, `add_device`, the freeing walks | four pointers per insertion; a loop that stops at the last node whatever the index; walks that start at `tail` | order, stable for equal costs; backward links mirror forward ones; all freed |
| `data-structures/hash-table.c`, `binary-tree.c` | chains; nodes on pointers | `table_insert`, `table_get`, `table_free`; `tree_insert`, `tree_print_inorder`, `tree_free` | repeated and colliding keys; an empty bucket ends the program, a full one answers -1; duplicates | the value inserted last; ascending and complete; freed whole |
| `bitwise/smarth_fan.c`, `problems/f1_engine.c` | a byte of a register; packets with a flag byte | `set_max_speed`, `change_speed`, `turn_on`, `turn_off`; `add_radio_packet`, `batch_copy` | shifts and masks that must leave the other bits alone; a recursion that hands on what it has just written | the register means what was called; a copied batch is whole |
| `pointer_problems/`, `problems/sll_traversal.c`, `dll_rewiring.c`, `system-eng/ll.c`, `memory-physics/ll.c` | nodes on pointers | `add`, `reverse_list`, `merge_alternating`, `remove_node`, `remove_last`, `find_middle`, `clean` | the pointers between two passes of a loop; the first and the last node | the list leads to the right nodes, none is lost or freed too early |
| `problems/` (fourteen programs) and `data-structures/bubble_sort.c` | an array and two indices | `max_area`, `find_target`, `is_palindrome`, `move_zeroes`, `trim`, ... | written in place while it is read; which index moves; empty arrays and ends | what a definition over the whole array says |
| `problems/rpg_inventory.c` | hash table of items, a byte of health, magicka and count | `add_weapon`, `add_consumable`, `find_item`, `equip_weapon`, `use_consumable` | colliding names, two stats in a byte, an item that stays when it is used | items found and kept with their stats; magicka pays for uses |

The rest of the repository (demonstrations, printers, files) is in section 7.

## 2. Modules and how they follow the code

Conventions.  A thread's program counter is `pc[t]`; each action is the code
between two points where another thread can act: taking a mutex, a condition
operation, an unlocked access, a critical section's body.  Variables have the
names of the fields they stand for.  Variables whose comment says *history*
record what happened for the properties and guard nothing.  A definition
preceded by "the variant ..." is a plausible mistake of the code which no
specification uses; exchanging it for the definition after it must violate a
property, which shows that the property is sensitive to that code.

`Pthreads` holds the library operations every program uses, as action operators
over one mutex or one wait set: `Lock` (enabled while nobody holds it), `Unlock`,
`CondWait` (releases and sleeps in one step), `CondWake` (retakes the mutex),
`CondSignal` (wakes any one sleeper, or none if there is none) and
`CondBroadcast`.  A spurious wakeup is an action of the module that waits,
bounded by `MaxSpurious` (in `Reconciliation` unbounded, as its states stay finite).

`BoundedChannel`, `Tally` and `PriorityQueue` are the abstract specifications: a
FIFO channel of bounded capacity; a total to which each of a set of operations
adds its value exactly once, in one step; and a bag from which nodes of least
distance are taken.

| module | code | notes |
|---|---|---|
| `ThreadPool` | `thread_pool.c` | `Worker*` are the steps of `worker_loop`, `Submit*` those of `submit_task`, `Shutdown*` and `JoinAll` the end of `main`. A refused submission is dropped, as `main` ignores the result. Refines `BoundedChannel` with `Pending`, the ring read from `head`. Holds its proofs |
| `SemRingBuffer` | `pthread/ring_buffer.c` | one action per semaphore, mutex and index operation; the index is advanced modulo the size. Refines `BoundedChannel`. Proofs in `QueueProofs` |
| `BoundedBuffer` | `bounded_buffer.c` | a packet is the producer that encoded it (its byte is always the same). Refines `BoundedChannel`. Holds its proofs |
| `LoggedQueue` | `recap/ring_buffer.c` | `main`'s script of pushes and pops against the logger; a push into a full ring raises the flag and signals. Proofs in `QueueProofs` |
| `Scanner`, `WaterPump`, `PoolLifecycle` | one program each | bit sets are sets of the names of the bits that are 1. Proofs in `MonitorProofs`, as those of the next three rows |
| `TimedWait` | `cond_timed_wait.c` | an explicit clock; the deadline is absolute; `TimeOut` may overtake a signal only while the thread still sleeps |
| `Reconciliation` | `reconciliation.c` | a packet is reduced to its ready bit, a critical section is one step |
| `ArenaReport`, `PacketArena` | `custom_arena.c`, `arena-alloc.c` | what a thread stores is its number or itself; the reporter's unlocked read is a step of its own |
| `MTServer` | `MT-Server.c` | `next`, `head`, `tail` are modelled as pointers; `freed` and `lost` messages are tracked; touching a freed one leads to phase `undefined`. Holds its proofs |
| `ProdCons` | `prod_cons.c` | views in four lists, a token count, one consumer per request. Proofs in `QueueProofs` |
| `Transfer` | `deadlock_accounts.c` | 16-bit balances; both mutexes explicit. Proofs in `MCCounters`, as those of the next three rows and of `SplitSums` and `Banking` |
| `CasCounter` | `cas.c` | the weak exchange succeeds, fails, or fails spuriously. Refines `Tally` |
| `Deposits` | three deposit programs | load and store are two steps. Refines `Tally` |
| `SensorToggles` | `pthread/mutex.c` | the handle is the thread created last. A second join, a locked mutex destroyed, and a late thread on what was destroyed or freed may each lead to `undefined`, or go well |
| `ResourceCounter` | `resource_counter.c` | several processes share one name; `Crash` kills one at any time and leaves the semaphore as it is. Proofs in `QueueProofs` |
| `SplitSums` | both split sums | `kind` picks one; `reads` counts how often each index was read; sums are modulo 2^8 and 2^16; the aggregator's literals (`j == 4`, four handles) are its `Kinds`, so it takes chunks of five and four threads at most |
| `BumpArena` | both bump arenas | with `Pads` the padding one; a block is its start and the size asked for. Proof in `MCTables` |
| `Banking` | `banking.c` | chains are sequences; the hash is that of the code for the names used; `deposit` on a missing account reads through NULL (phase `crashed`) |
| `FlightControl` | `fcw.c` | both bytes are sets of bits; the black box keeps the latest record of the left engine, and a record may find no memory; calls come in any order. Proofs in `MCTables`, as those of `Cargo`, `Inventory` and `StateBytes` |
| `Cargo` | `cargo.c` | state byte and material byte keep their bits; what `malloc` leaves in the state is any value; `size` and array are separate; a ship's material may be unknown, and `enqueue` may find no memory |
| `MicroMake` | `micro-make.c` | the recursion of `has_cycle` is the stack of its activations; the forest is the array of the code with its negative sizes. Proofs in `MCTables` |
| `MinHeap` | `Dijkstra-MinHeap.c` | `push` and `pop` start a sifting whose passes are the actions `SiftUp` and `SiftDown`. Refines `PriorityQueue` with the bag of the array |
| `Dijkstra` | `Dijkstra.c` | extends `MinHeap`; `rest` is what is left of the list `current_edge` walks; only positive lengths pass `validate_route`. Proofs in `MCAlgorithms`, as those of `MinHeap` |
| `DisjointSubset`, `Walks` | one program each | a call is one step (proofs in `MCTables`); an activation of `DFS` is an entry of `stack`; the matrix is a set of pairs, as it is symmetric |
| `Containers`, `LinkedLists` | the array and the pointer programs | one program of the group is picked by `kind`; values and nodes are numbers in the order of arrival; `live` is what a container has allocated and not freed; a second `free` leads to phase `undefined`, a NULL pointer to `crashed` |
| `Inventory` | `rpg_inventory.c` | the hash is the code's for the names used; the detail byte is packed and unpacked by its macros; health, magicka and count are modulo 256 |
| `Lookups` | `hash-table.c`, `binary-tree.c` | the hash is the code's for the keys of `main`; the tree's recursion goes down one level a step |
| `StateBytes` | `smarth_fan.c`, `f1_engine.c` | a byte is the set of its bits, so masks are set operations; a payload is reduced to whether it is a temperature |
| `Rewiring` | eight list programs | `head`, `next`, `prev` are pointers, a step is a pass of a loop; `expected` is the list as a sequence; `live` are the nodes allocated |
| `ArrayScans` | fifteen array programs | a step is a pass of the loop; the program, the array and what is looked for are chosen at the start |

`PROJECT.json` maps every definition to its lines.

## 3. Runs

To keep the number of configurations small, programs of one kind are checked
together: a suite module (`MCMonitors`, `MCQueues`, `MCCounters`, `MCTables`,
`MCAlgorithms`) EXTENDS one program's module, instantiates the others with variables
of its own, and has a variable `program` that picks one at the start.  The
others stay in their initial state, so the states are the disjoint union of the
programs' and no interleaving between programs is explored.  A property of a
suite is the conjunction of what the picked program must satisfy, its type
invariant included.  `ThreadPool` and `MTServer` are checked as they are, with
sets of model values for their workers and clients.  The parameters of the programs
a proof is about are constants of the suite with values in its configuration, so
that what is proved of the suite's instances is proved for all values; only the
programs that are checked without a proof (arrays, lists, rewired lists, lookups, scans)
have parameters fixed in `MCTables` and `MCAlgorithms`.

| run | question | bounds, and why they are enough |
|---|---|---|
| `thread_pool` | Is every accepted task run, in order, and does `main` get out? | 3 workers, 2 slots, 4 submissions, 1 spurious wakeup: the ring wraps, is full, refuses, and empties while several workers sleep; a signal can meet 0, 1 or 2 sleepers |
| `queues` | Are tokens and items conserved, can a signal after the unlock be lost, does the logger interfere, what does a killed process leave? | semaphore ring: 2 producers and 1 consumer of 3 rounds on 3 slots (in the code too, production minus consumption is exactly the ring's size); `main`'s own four requests, two of which share a list; packets: 3 producers, 3 consumers, 2 slots, so both sides sleep more than one deep, and are woken without a signal now and then; `main`'s own 12 operations on 3 slots; 3 processes of 2 messages under one semaphore name, each of which may be killed at any point: one may leave tokens, and two may start at the same moment |
| `monitors` | Do the condition-variable programs do what they say, and which of them can hang? | the threads of the code; two spurious wakeups; tank of 10 as in the code; quantities 0..4, that is from an empty list to one more than the capacity of 3; clock up to 7 with patience 3 and delays before, at and after it; six adders for an arena of five, sixteen packets reduced to a few with as many slots as threads |
| `counters` | Is any update lost, can the transfers deadlock, what does `main` print when it waits for too few, does a colliding name find its branch? | 4 workers of 2 rounds; 5 deposits with different amounts; the two transfers of the code with its amounts; 5 toggles (odd, so that the switch ends on); 4 threads with chunks of 5, the aggregator's own size; a bank with two names that collide, up to 3 branches so that one name repeats, 2 accounts, 2 deposits |
| `mt_server` | Is the list the log, and is the recap right? | 6 clients for `QUEUE_SIZE` 5, with symmetry (no liveness is checked here): the last client is turned away; accepts, reads and allocations may fail |
| `tables` | Do the sequential programs stay sound under every order of calls? | all of the airplane's states; a padded arena of 24 bytes with sizes 1, 5, 8 and 13 and an unpadded one of 10, which both run out; 3 ships on 2 slots with measures 1 and 16 (which packs to 0); six values for arrays of five and a vector that starts with two and grows twice; five nodes, slots of four, cards of four costs with repetitions; three items under three names, two of which collide, used until the ten points of magicka are spent; every one of the 256 registers a fan may start with; up to 3 batches of up to 8 packets with checksums of which one wraps; the three keys of `main`'s table in colliding buckets; a tree of a few nodes with repeated values; all sequences of up to 4 dependencies between 4 tasks: self-loops, duplicates, cycles entered early and late, separate clusters; 4 nodes joined in any order; every undirected graph of 6 vertices and at most 6 edges (forests, a cycle through all vertices, separate parts), a second `DFS` included |
| `algorithms` | Distances and heap; rewired lists; scanned arrays | up to 4 routes of lengths 1 and 3 (and one of 0, which is refused) between 4 cities, the ones other than the start interchangeable; the heap holds 3 nodes and 7 stands for unreached, so that a full heap and a way too long both occur; the heap alone with 5 nodes of 2 cities and distances 0..2; lists of up to 5 nodes under any sequence of calls, so that first, last and middle node, both parities and a merge of unequal lists occur; every array of up to 4 elements (every word of up to 4 characters of a few kinds) for each of the fifteen scans |

Five runs are expected to violate their one property; they are in section 6.

What the properties say:

* **Thread pool.** `TaskHasAlertWorker`: while any worker sleeps, each queued task
  has a worker on its way to the ring. `GracefulShutdown`: when `main` leaves,
  accepted tasks have run. `ImplementsChannel`: a FIFO channel. `Termination`.
* **Queues.** `SlotsConserved`: both semaphores and the threads between
  their wait and their post add up to the ring. `ViewsBacked`: every token has a
  view, every view is taken once, the lists are empty when freed.
  `SleepersAreOwed`: while a consumer sleeps every packet has an awake
  consumer or a producer that still owes a signal, and dually.
  `RingHoldsAccepted`: contents, flag and warnings of the logged ring.
  `NoStaleTokens`: no run consumes more than it produced and no two runs share a
  semaphore, unless they started at the same moment; a clean end leaves no
  name. `QueuesImplementChannel`: both rings of packets are FIFO channels.
  `MainsJoin`: for `resource_counter.c` it names the one exception, two runs on
  one semaphore of which one is killed.
* **Monitors.** `PoolStages`, `ReportComplete`, `TankTruthful`, `VerdictJustified`,
  `RecoStages`, `ArenasSound`, and `ProgramsEnd`, which says for each program exactly how far it
  gets: three of them (scanner, pump, reconciliation) may hang, therefore deadlock is not an
  error in this run, and `ProgramsEnd` says when: the scanner under which schedules
  (`OnlyCrowdHangs`), `show_report` unless it comes to a tank that nobody drains any more
  (`PumpStops`), and the reconciliation always when a list that fits is empty, under no
  other circumstances (`Verdict`).
* **Counters.** `NoLostUpdate`, `ImplementsTally`, `DepositsImplementTally`,
  `BooksBalance`, `MainsJoin`. `ReportsTruthful`: the sensor's switch is the parity
  of its log up to the thread that is at it, the report lacks at most what late
  threads have not done, undefined behaviour never comes from the thread that
  was waited for; the two totals are those of their lists, although the threads
  of `concurrent_sum.c` all read the first chunk. `BankSound`: a name leads to its
  first branch in the chain of its hash, which alone has accounts, numbered from
  one, and the balances are what was deposited and given.
* **Server.** `LogSound`, `RecapTruthful`.
* **Tables.** `ArenaSound`, `BothPilotsConfirm` (an action property), `BaySound`. `BitsTruthful`: the airplane's altitude bits exclude each other, it has fuel in the air,
  the black box's latest record of the left engine is its state, and an item of the
  checklist is on or was ordered off after it was signed (`SignedOrStopped`); the fan's register means what was called, from any
  register; the engine's copied batches are whole. `ContainersSound`: arena without padding, arrays,
  lists, hash table and search tree; a stack's outputs are recognised by the pattern no stack can produce.
  `InventorySound`: chains hold what was added; uses are bounded by magicka
  although an item can be used again, so health never wraps, while the count
  of items may.
* **Algorithms.** `ShortestFound`: at the end no route shortens a distance and each
  finite one is attained by a route, which together define the shortest
  distances when lengths are positive. `RoutesInOrder`: cities leave the heap in
  the order of their distance, and `push` can refuse only in a graph with more
  routes than the heap has entries. `HeapIsQueue`: the heap refines
  `PriorityQueue`. `GraphsSearched`, in the run `tables`: both partitions are compared with their definition
  by quantifying over subsets; a tree of depth d has 2^d nodes at least;
  tasks left out are the greatest set from which dependencies can be
  followed for ever; walks print exactly what they reach, in an order
  characterised by the graph alone. `ListsRewired`: between calls a walk from the
  head meets the nodes the calls so far should leave, in order; during a
  reversal every node is in one of the two parts; the allocated nodes are those
  of the lists. `ScansRight`: nothing is overwritten before it is read, no better
  pair is left outside the two indices, and the result is that of a definition
  over the whole array.

## 4. Fairness

A program whose threads all come to an end needs little: weak fairness of its
whole next-state relation, that is, as long as some thread can take a step,
some thread does.  No scheduler does less, and nothing is assumed about which
thread gets a mutex.  This holds for the semaphore ring, the views, the packet
queue, the deposits, the sensor and the split sums.  More is assumed only where a program has
a step that can be repeated for ever or that nothing owes:

* `cas.c`: every worker runs, and its weak exchange does not fail spuriously for
  ever (fairness of `Swap`).
* `recap/ring_buffer.c`: the detached logger polls for ever, so `main` must get the
  mutex in the end (strong fairness of `main`), as it does on a scheduler
  that does not pass over the same thread for ever.
* `deadlock_accounts.c`, the thread pool and the monitors: a spurious wakeup is never
  owed, so fairness is that of the threads' own steps.
* `resource_counter.c`: the processes' steps are fair, being killed is not.
* The `silent` variant of `TimedWait` gives `main` no fairness at all.

## 5. Proofs

Every theorem is checked by TLAPS down to its last leaf.  Eight modules hold
proofs: `ThreadPool`, `BoundedBuffer` and `MTServer` at their end, `MonitorProofs` those
about the programs of `MCMonitors`, `QueueProofs` those about the programs of `MCQueues`,
and the suites `MCCounters`, `MCTables` and `MCAlgorithms` those about their own programs,
each next to the instance it is about.  A theorem there is about a program's
specification or the suite's; the lemma `SuiteRunsPrograms` connects the two: a run of
`MCCounters` is a run of each of its programs.  Nothing is assumed but what the modules say
of their constants, and TLC evaluates these assumptions for the values of each run:

* capacities that a `uint8_t` counts or indexes are in 1..255 (`PoolAssumption`,
  `RingAssumption`, `BufferAssumption`, `ServerAssumption`); the sets of threads that are counted
  are finite, the sets of different roles are apart and `None` is nobody;
* `RequestsAssumption`: `main` asks `prod_cons.c` for known views, each once;
* `LoggedAssumption`: an operation is a push of one number or a pop, the capacity is positive;
* `ArenaAssumption` of `ArenaReport`: one adder more than the arena has bytes, as in
  `custom_arena.c`; `PacketAssumption`: as many adders as `BLOCK_SIZE`, in a block of its
  square, as in `arena-alloc.c`;
* `ArenaAssumption` of `BumpArena`: a padded arena has a capacity that is a multiple of
  eight, as `MAX_SIZE` is; sizes are natural numbers;
* `RoutesAssumption`: the start is a city, lengths are integers, the capacity and the number
  for unreached are positive, a heap entry is a city with a distance below that number,
  and that number and a length add up to an `int` (`SumsFit`), so that no distance overflows;
  `HeapAssumption`: distances are integers; `UnionAssumption`, `MakeAssumption` and `WalkAssumption`: there is some number of nodes, of
  tasks and of vertices, and walks start at vertices;
* `DepositAssumption`, `TransferAssumption`, `SensorAssumption`, `SplitAssumption`: threads are told
  apart and finitely many, nobody sends more than the account holds at the start and both
  accounts together fit a `uint16_t`, as the amounts in `main` do; the threads of a split sum are
  counted in a `uint8_t` and its indices are of 16 bits;
* `BranchAssumption`, `ItemsAssumption`, `CargoAssumption`: the names, kinds and codes used are among
  those whose hash is given, branches are at most as many as a `uint8_t` counts, amounts are natural numbers, no
  balance outgrows an `int` (`NoOverflow`), measures are bytes;
  `BatchAssumption`: `DB_CAPACITY` and checksums fit a `uint8_t`.

Where a parameter has no such bound (rounds of `cas.c`, amounts of the deposits, toggles,
quantities, cities, nodes, tasks and vertices, the items of the inventory, the slots of the bay), the theorem is about the program with counters that
do not wrap.  The code's constants are far from there; a theorem that quantifies beyond the
width of a counter says nothing of the C program at those values.

Each proof has the same shape: an inductive invariant, stronger than the
property, that the initial states satisfy and every action keeps (one lemma per
group of actions, or per conjunct), then the property from the invariant.  What
follows says what the invariants add and why the properties alone do not do.

**Thread pool, any number of workers, any ring, any number of tasks.**

* `TypeCorrect`. `TypeOK` alone is not inductive: that a worker takes a
  submitted task rather than an empty slot needs the ring to be filled between
  `head` and `tail`. `IndInv` adds `tail = (head + count) % QueueSize` and that
  the `count` slots from `head` hold tasks.
* `RefinesChannel`. `WorkerTake` maps to a receive, `SubmitInsert` to a send,
  everything else to a stutter: the sequence `Pending` read off the ring loses
  its head or gains its last element.
* `NoLostWakeup`. Inductive with `SleepersWait` (whoever is in the wait set is at
  `wait`): a submission then finds a sleeper to turn into an alert worker, and a
  worker that stops being alert found the ring empty or took a task.
* `ShutdownIsGraceful`: when `main` leaves, all accepted tasks have run. Accepted
  tasks are those taken, in order, followed by those in the ring
  (`AcceptedAccounted`); a taken task has run or is in the hands of a worker of
  its own (`TakenAccounted`); and a worker that returned saw the flag and an
  empty ring, which stays empty because `main` submits nothing after raising the
  flag (`LeavingInOrder`).

**Semaphore ring, any threads, any rounds, any ring.** (`QueueProofs`)

* `SlotsAreConserved`. Neither semaphore's value says anything alone: a thread
  between its wait and its post holds a token that is in neither. `TokensBalance`
  counts them: items written and not read are those announced by `filled_slots`,
  those whose producer has yet to post, and those spoken for by a consumer that
  has yet to fetch; and dually for the rest of the ring. `HoldsLock` makes the
  critical section exclusive; `RingHolds` says that the slots from `read_index`
  to `write_index`, each corrected for an index operation under way, hold what is
  written and not read.
* `RefinesChannel`: with `TokensBalance` a store finds room and a fetch finds an item,
  with `RingHolds` it is the oldest.

**Packet queue, any producers and consumers, any queue.** (`BoundedBuffer`)

* `NoWakeupLost` (`SleepersAreOwed`): both sides signal *after* the unlock, so that for a
  moment the queue has changed and the sleeper has not been told. The
  invariant charges each packet (`PacketsClaimed`) and each free slot (`SlotsClaimed`) to an awake
  thread that will take it or to one that still owes its signal.
* `RefinesChannel` in the same way as the pool. `PacketSleepersAreOwed` and `BothImplementChannel` are the
  two results as the run `queues` states them.

**Views, any sequence of known views.** (`prod_cons.c`, in `QueueProofs`)

* `ViewsAreBacked`. `ViewsBalance` is the account of tokens and of views:
  tokens plus consumers that have one are the announced producers, views in the lists
  plus those taken are the producers that have added theirs. A consumer with the mutex
  therefore finds a list that is not empty, although it may not be the one its token
  was posted for. `ViewsPlaced` ties each producer's place to where its view
  is, which is why no view is taken twice; and once all threads are joined the account
  leaves nothing in the lists that are freed.

**Logged ring, any script, any capacity.** `RingKeepsAccepted`: the ring holds what
`push` accepted, in order, the flag is up only while it is full, and
warnings are at most the refusals. Inductive with `LoggedTyped`.

**Named semaphore, any set of processes, any number of messages, kills at any moment.**
`TokensAreFresh`: `CounterApart` says that as long as no two runs were between the unlinking and the
opening at the same time, each run that opens finds no name, so it has a semaphore of
its own, whose value is what it has posted and not taken.

**The monitors, any number of spurious wakeups.** (`MonitorProofs`)

* `StagesKept` (pool): a bit is up exactly from the point where its stage raised it
  (`BitsFollowStages`); `BroadcastOwed` covers the sleeper that tested the bit just before.
* `ScannerReports`: the bits follow the writers' places, and the frequency follows the power.
* `PumpKeepsTruth`, for a tank of any size: `get_water` reads the bit without the mutex.
  `PumpDraining` says why that is harmless: water it has seen is water only it can take.
  `PumpBalance` accounts for what was poured and what is left.
* `WorkerJustified`, for any patience and delays: the deadline is the time of asking plus
  the patience, and a return code `ETIMEDOUT` implies that it has passed.
* `RecoKeepsStages`, for any quantities, 0 included, and any list capacity: the counter of finished extractions is
  the number of lists that are complete and marked (`RecoCounted`), so that a printer
  that goes ahead finds both; a refused list never counts and nobody goes ahead, and an empty one is complete
  but never counted as printed, so `process_reconciliation` stays where it is.
* `ArenasAreSound`, for any capacity. `custom_arena.c`: nothing but the number of adders
  keeps `add` from a freed arena. The invariant counts the adders that are past
  (`ArenaFilled`): the bytes are at most as many, the refused adder is one more than
  the bytes, so when the arena is full all adders are past. `arena-alloc.c`: the
  signal comes before the packet; `PacketsAnnounced` says that as long as the reporter
  sleeps, the packet about to be stored is not the last, so another signal follows.

**Server, any clients, any `QUEUE_SIZE`.** (`MTServer`)

* `LogIsSound`: the pointers from `head` follow the order of arrival and end at the
  last (`LinksLog`); `tail` lags only between the two stores of `log_message` (`TailLags`).
* `RecapIsTruthful`: `shutdown_server` walks and frees without the mutex. `WalkFollowsLog`
  places it in the log by the number of messages freed; `next_message` was read before the
  free and may have been the end when it was. `Quiet` says why nothing is missed when
  every handler had returned.

**Lock-free counter, any finite set of workers and any number of rounds.**

* `NoUpdateLost`: the counter is the number of completed exchanges.
* `SumIsComplete`: after the joins it is the cardinality of Workers × rounds.
* `RetryIsAtomic`: the retry loop implements `Tally`.

**Bump arenas, any capacity and any sizes, padded or not.**

* `ArenaIsSound`: blocks are inside the buffer, aligned, and apart. `ArenaSound`
  says nothing of the offset, so `IndInv` adds `Aligned`: a padded arena's offset
  is a multiple of eight. `PaddedFits` is why a test made before the padding is
  enough: offset and capacity are multiples of eight, so a size that fits does
  so rounded up. With another capacity the theorem is false.

**Dijkstra, any cities, any lengths, any heap capacity and any number for unreached.**

* `DistancesAreShortest`: `ShortestFound` is invariant. It speaks of the end
  only; the invariant must say why nothing is forgotten on the way. `Accounted`:
  each city with a known distance either has an entry in the heap with its
  *present* distance (`Waiting`), or is being expanded and its remaining edges
  are in `rest` (`HalfWay`), or none of its edges shortens anything (`Relaxed`).
  An entry is passed over only if its distance is not the city's, so it was not
  the one that counts. `Found`: each finite distance is at least that of a
  neighbour plus the edge; with `Relaxed` it is equal. The heap's order plays no
  part in this, only that sifting loses no node: the order decides how often
  cities are expanded, not the result. Cities are not assumed finite.

* `HeapIsPriorityQueue`, for any nodes and capacity: the heap implements `PriorityQueue`, that is,
  a step inserts one node or takes one of *least* distance, and sifting changes nothing
  outside. `OrderedBut` says how far a sifting has come: all slots are in order except
  the one at hand and its parent, or its children, and those are no cheaper than its
  parent. That the root is the least of all is found by taking a smallest slot
  that is cheaper and comparing it with its parent.
* `RoutesAreInOrder`. Three arguments in one invariant, `RouteInv`: nothing held is
  cheaper than what was popped last, since lengths are positive (`NoneBetter`); a city has
  one entry at most with its present distance, and none any more once it was
  expanded, which is then final (`OneEach`, `Final`); and each entry but the first comes
  from a route of a city that was expanded, a different route for each (`Pushes`),
  so `push` can refuse only when there are more routes than entries.

**Disjoint sets, any number of nodes, any pairs.** (`MCTables`) `ForestIsSound`: the trees of
`disjoint_subset.c` are the sets that were joined, a root holds the size of its tree, the program
goes on just as long as the pairs form a forest, and `find` is short.  `find` is a
recursive function of the array, which an invariant cannot follow; `Forest` replaces it by two
functions that exist for every array a call can leave, the distance `d` of each node from its
root and the root `r`, with which `find(n)` is `r[n]` (`d` is less than the number of nodes).
`Grown`: a tree has 2^d nodes for the deepest of its nodes, as only the smaller one goes down.
That a set which no pair leaves consists of whole trees is carried from call to call for all
sets at once, rather than by paths of pairs.

**Tasks, any number of them, any dependencies.** (`MCTables`) `BuildIsOrdered`.

* Clusters: the forest of `micro-make.c` is proved with the same lemmas, which speak of an array
  of parents of any length; `ClustersInv` is `Grown` with the dependencies in place of the pairs.
* The search, its recursion as a stack (`SearchInv`): an activation has seen all its edges but
  those still open and the one on which it called the next (`FrameOK`); tasks on the stack are
  distinct (`FramesOK`); the finished tasks are in the order, after what they need (`OrderOK`).
  A cycle returns through all activations at once and leaves their tasks in state 1; `LeftOK`
  says what is enough of them: each needs another that was left. A later task that needs
  one of these ends as part of them. At the end the tasks left are therefore a set in which
  dependencies can be followed for ever, and the greatest, as none of the others can
  be the first of such a set in the order.

**Walks, any matrix, any vertices to start from.** (`MCTables`) `WalksAreInOrder`. What was visited
is in every set of vertices that no edge leaves and that holds the starts (`Reached`).
Breadth first: the queue is the list printed but for its first `h` vertices, which lead to
visited ones only (`Served`), and the others were met first from one of these, in
their order (`Sourced`). Depth first: the stack is printed in its order (`StackInv`);
what is not on it leads to visited vertices only (`LeftInv`); what was printed after a vertex on
it was led to by that vertex or a later one (`BelowInv`), which becomes `OrderInv` when
the vertex is left.

`GraphsAreSearched` joins these two and `ForestIsSound` to the property of the run.

**Deposits, any finite set of depositors, any amounts whose sum does not wrap.** (`MCCounters`)

* `DepositIsAtomic`. `BankInd`: the thread inside is the holder (`AccountLocked`), what it
  loaded is still the balance (`LoadedIsFresh`), and the balance is the sum of the
  amounts of those that have stored theirs (`BalanceIsSum`). The sum is a fold; that it grows
  by the amount of an element that is added is proved in the module (`SumGrows`).

**Opposite transfers, any amounts that fit, any number of spurious wakeups.** `BooksAreBalanced`:
`LocksHeld` ties each place to the mutexes held there, so that between debit and credit
a transfer has both; `MovedAmounts` gives each balance by what either transfer
has debited and credited, hence no addition wraps and no money is missing but in
between; and the reader, which takes `lock_B` only, prints after the flag of the second.

**Sensor, any number of toggles; split sums, up to 255 threads and as many elements as 16 bits index.**
`ReportsAreTruthful`. The switch follows the parity of the log except for the thread between
its entry and its switching (`SwitchFollows`); `MainStages` and `ReportTaken` bound
what the one joined thread leaves undone. `SplitInd`: a thread's partial sum is that of
the elements it has passed, modulo the width of its type (`ChunkSummed`), `main`'s is that of
the threads joined (`MainCounts`), and the readers of an index are those past it (`ReadsCounted`).
The proof found that the two cases of `EveryIndexOnce` overlapped; they exclude each other now.

**Bank, any colliding names, up to 255 branches, any amounts and accounts whose balances fit.** `BankIsSound`. `BranchInv`: a
branch is in the chain of its hash and its accounts count from one (`Listed`); a later branch
of a name has no accounts (`Served`), because `find` stops at the first; there are
`branch_count` branches (`BooksFit`); and the balances of all accounts, in whichever
chain, add up to what was deposited and given (`Holds`).

**Airplane, every order of calls.** (`MCTables`)

* `PilotsAgree`: in the air no engine goes off and none comes on unless both pilots have
  said yes.
* `BitsAreTruthful`, the airplane's part: that fuel is there in the air follows
  from the checklist of the departure only with `FuelAuthorized`: a signature for fuel is
  given with the fuel bit set, and nothing ever clears that bit.

**Fan and engine, any register, any `DB_CAPACITY`, checksums and number of batches.** `BitsAreTruthful`.
The fan's register means what was called: on or off, speed, the other bits (`FanMeans`); that a
speed comes back from its three bits is checked for all of them (`SpeedReadBack`). The engine:
while a batch is added, either `size` and the packet's number agree and the packets
so far are those of the batch (`Adding`), or it is written on top of an earlier one and they never
agree again (`OnTop`), so only whole batches are verified and copied (`Verified`, `Copied`).

**Cargo bay, any capacity, ships and measures.** `BayIsSound`. `Judged`: what is in the queue bears
the inspected bit just if both measures came, whatever `malloc` left and although they are kept in
four bits each. `QueueOrder`: the queue fills its first slots, in the order of arrival,
which is what shifting by hand must restore; rails get their ships from it in order.

**Inventory, any names that collide, any number of items.** `InventoryIsSound`. `Kept`: the j-th
item added is in the chain of its name, at the place that is the number of those among
the first j that went there, with the stats of its kind; this says that chains keep
everything in order. An item that is equipped is the first of its name, as `find_item`
returns it, and no other of the name is. `UsesPaidFor`: every kind costs two points of magicka at
least and heals at most twice its cost, so health never wraps (`Genuine` ties what
is in a chain to the kinds).

### Only model-checked

* Liveness (`Termination`, `ProgramsEnd` and both `MainsJoin`): fairness
  and ENABLED are out of the prover's reach.
* `ContainersSound`: the state of a stack is recognised by a pattern over all its outputs, and the
  vector, the four lists and the search tree are defined by where pointers lead after any number
  of steps.
* `ListsRewired`: as the lists, what a walk from the head meets is defined by recursion on
  its length.
* `ScansRight`: fifteen programs, each with a loop and a reference definition over the whole
  array of its own, so that a proof would be fifteen proofs with little in common.

Induction over data by the library's theorems is out of reach, as they take an operator
as a parameter. Where a proof needs it for a finite set or a number, it takes a smallest
counterexample of a well-founded order instead (`WFMin` with the order of the numbers
or of the subsets of a finite set): the sums by folds in `MCCounters` and the least node of
the heap are proved this way.

## 6. Where the code and its words disagree

Each has a run that violates the sentence the code quotes:

* `scanner_hang`: `set_power` signals a condition shared by two kinds of waiters
  once. If `read_value` gets the signal it goes back to sleep, and
  `set_frequency` waits for ever with the power on.
* `mt_server_logger`: `shutdown_server` frees list and logger although detached
  handlers may still be about to append to them.
* `flight_control_off`: switching the right engine off clears bit 3, the engine
  is bit 2: it stays on.
* `task_graph_order`: `topo_order` has room for one entry less than the tasks
  of an acyclic graph.
* `telemetry_temperatures`: `add_radio_packet` hands the bit pattern of a
  packet's temperature to the next one as if it were the temperature.

Seen while modelling, modelled as they are, and not made into runs:

* `water_pump.c`: `get_water` waits only while bits are set that nothing sets, so
  it may find the tank empty and return with nothing; `show_report` waits on a
  condition nothing signals, so `main`'s join depends on the schedule.
* `cond_timed_wait.c`: data that arrives after the deadline but before the worker
  is scheduled still counts as success when the signal came first.
* `MT-Server.c`: the recap shows what is linked when it passes; messages that
  arrive later are not shown.  Every message has its terminator written one
  byte past its buffer (line 86), and a node whose own allocation fails is used all the
  same (line 77); the model has neither.
* `deadlock_accounts.c`: the flag of the second transfer stands for both;
  `check_balance` is right because both transfers hold both mutexes.
* `recap/ring_buffer.c`: a refusal followed by a quick `pop` leaves the logger
  without its warning.
* `fcw.c`: the checklist keeps an engine that was switched off again, so the
  airplane may depart without it (`SignedOrStopped` says just that much); a record that
  finds no memory is dropped with a warning; landing is recorded as `IS-GROUD`.
* `banking.c`: the message about a missing account reads the customer through
  the NULL pointer.
* `reconciliation.c`: `print_ds_data` returns from an empty list before it counts it as
  printed, and `process_reconciliation` waits for a count of two: with a quantity of 0, and
  none too big, the program never ends (`Verdict`).
* `aggregator.c`: `fill_args_list` ends a chunk at the literal `j == 4` and `main` has four
  handles, whatever `SUM_SIZE` and `PT_LIST_SIZE` are; `concurrent_sum.c` drops the remainder of
  `LIST_SIZE / num_threads`.  Both agree with their lists for the constants they have.
* `micro-make.c`: after a cycle `test_graph_for_cycles` prints entries of `topo_order` that were
  never written, and in any case one beyond its allocation.
* `cargo.c`: the state byte comes from `malloc` and is read and modified; only the
  reset in `inspect` makes it right.
* `Dijkstra.c`: a city that can only be reached by 999999 km or more is reported
  as unreachable.
* `rpg_inventory.c`: `use_consumable` counts the item off and leaves it in its
  chain; a name that hashes to a chain without it makes `find_item` return NULL,
  which its callers dereference.
* `stack.c`: a stack of five refuses the fifth user.
* `insertion_sort.c`: `free_memory` frees the literal name of the first card.
* `double_linked_list.c`: printing or freeing an empty list goes through NULL;
  `dll_create` allocates the size of a pointer for a structure of 24 bytes, which
  fits only because the allocator's smallest block has room for it.
* `concurrent_sum.c`: `compute_partial_sum` counts from the start of the whole list,
  so every thread adds up the first chunk; a list of ones does not show it.
* `pthread/mutex.c`: `main` waits for one thread out of ten.
* `trim.c`: a single leading blank is not trimmed.
* `pointer_problems/anchor.c` and `memory-physics/ll.c`: once `remove_node` or
  `remove_last` has removed the only node, `add_node` reads through NULL, which
  ends the behaviour (`Misuse`). `ll.c` never frees the 32 bytes of a removed node.
* `pointer_problems/alternate.c`: what the second list has too many is unreachable
  after the merge and never freed.
* `hash-table.c`: a missing key ends the program or answers -1, by whether
  another key shares its bucket.
* `f1_engine.c`: a second batch is written over the first and its check always
  fails, because ids start at 0 and `size` does not.
* `memory/stream_queue.c`: the last chunk's pointer stays in the array after it
  was dequeued, and `teardown_queue` frees it again. The fifth `enqueue` of `main` is
  commented "Will not be added to the queue", but the capacity is five and it is.

## 7. What is not modelled

* `pthread/watchman_event_loop.c`: a flag raised under the mutex and signalled after
  the unlock, with one waiter that loops over it: the pattern of `PacketArena` and
  `BoundedBuffer` with fewer threads.
* `multithreading/pthreads.c` has a reader that waits on a condition; its `main` never starts
  it, so `Deposits` has no action for it.
* `sockets/server.c`, `client.c`: one connection, one message each way, in sequence.
* The graph printers and `course_manager.c` fill a structure once and print it;
  `void_pointers.c`, the arrays, unions, casts, strings and memory demonstrations
  are straight-line code that keeps no state between operations;
  `file_io.c` and `POSIX/` are input and output.
* `memory/linked_list.c` and the buffers: the appending of `LinkedLists`; buffers that
  are allocated, filled once and freed.
* In the modelled programs: printing, sleeping (left to the scheduler), failed
  allocations and failed set-up where the code exits before any thread exists.  Of the failed
  allocations after which a program goes on, those of the server's messages, the recorder,
  `enqueue` of the bay and the aggregator's threads are modelled; those that end a sequential
  program are not, nor those the code does not notice: the name of a record in `fcw.c` (line 105 tests
  `command` again) and the label that `validate_tc` of `cargo.c` fails to make, both used all the same.

## 8. Plan

Done: the concurrent programs, in order of how many actors they have, and the
sequential ones about tables, bits, containers, lists, arrays and graphs; the three
abstract specifications; the proofs of section 5, which cover every safety property
of the concurrent programs, and those of the arenas, the bank, the airplane, the
bytes, the cargo bay, the inventory, the heap, the routes, the disjoint sets, the tasks
and the walks.

What is left to model is of the kind of section 7.  Proofs that would come next: the
lists of `LinkedLists`,
where the pointers of the sorted list and its mirror could be described by positions, as
`MTServer` does, instead of by walks.
