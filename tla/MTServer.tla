------------------------------ MODULE MTServer ------------------------------
(***************************************************************************)
(* sockets/MT-Server.c: main accepts QUEUE_SIZE connections and starts a   *)
(* detached thread for each; every thread reads one message and appends it *)
(* to the logger's linked list under logger_lock.  After the last accept   *)
(* main walks the list, shows and frees it, without the lock and without   *)
(* waiting for the threads.  The list is modelled with its pointers, and   *)
(* an access to freed memory ends the run in phase "undefined".            *)
(***************************************************************************)
EXTENDS Pthreads, SequencesExt, SequenceTheorems, FiniteSetTheorems, TLAPS

CONSTANTS Clients,   \* clients that connect; a message is named by its client
          QueueSize  \* QUEUE_SIZE

ASSUME ServerAssumption ==
  /\ None \notin Clients
  /\ QueueSize \in 1..255   \* total_connection is a uint8_t

VARIABLES
  phase,     \* serving, recap, leaving; or how the process ended
  accepted,  \* current_connections
  pc,        \* where each client's handler is
  lock,      \* holder of logger_lock
  head, tail, next,     \* the linked list of messages
  total,     \* logger->total_connection
  current, next_message, \* shutdown_server's pointers
  freed,     \* messages that have been freed
  gone,      \* the logger has been freed
  shown,     \* messages in the recap, in order
  logged,    \* history: appended messages, in order
  lost,      \* history: messages dropped by a failed allocation
  waited     \* history: every handler had returned when the recap began

list == <<head, tail, next, total>>
walk == <<current, next_message, freed, gone, shown>>
history == <<logged, lost, waited>>
vars == <<phase, accepted, pc, lock, list, walk, history>>

\* The process has neither returned from main nor called exit.
Running == phase \in {"serving", "recap", "leaving"}
Messages == Clients \cup {None}

Init ==
  /\ phase = "serving" /\ accepted = 0
  /\ pc = [c \in Clients |-> "connecting"]
  /\ lock = None
  /\ head = None /\ tail = None /\ next = [c \in Clients |-> None] /\ total = 0
  /\ current = None /\ next_message = None /\ freed = {} /\ gone = FALSE
  /\ shown = <<>> /\ logged = <<>> /\ lost = {} /\ waited = FALSE
-----------------------------------------------------------------------------
(* main's accept loop *)

\* The variant accepts one connection too many.
OneTooMany == accepted <= QueueSize
MoreExpected == accepted < QueueSize

accept_connection(c) ==
  /\ phase = "serving" /\ MoreExpected
  /\ Goto(pc, c, "connecting", "read")
  /\ accepted' = accepted + 1
  /\ UNCHANGED <<phase, lock, list, walk, history>>

AcceptFails ==
  /\ phase = "serving" /\ MoreExpected
  /\ phase' = "failed"
  /\ UNCHANGED <<accepted, pc, lock, list, walk, history>>
-----------------------------------------------------------------------------
(* handle_client *)

read_msn(c) ==
  /\ Running
  /\ Goto(pc, c, "read", "lock")
  /\ UNCHANGED <<phase, accepted, lock, list, walk, history>>

\* An error or an end of file on one connection exits the whole process.
ReadFails(c) ==
  /\ Running /\ pc[c] = "read"
  /\ phase' = "failed"
  /\ UNCHANGED <<accepted, pc, lock, list, walk, history>>

LockLogger(c) ==
  /\ Running
  /\ Goto(pc, c, "lock", "log")
  /\ Lock(lock, c)
  /\ UNCHANGED <<phase, accepted, list, walk, history>>

\* What log_message is about to use has been freed: anything may happen.
Dangling(c) ==
  \/ pc[c] \in {"log", "tail", "count"} /\ gone
  \/ pc[c] = "log" /\ head # None /\ tail \in freed

Trespass(c) ==
  /\ Running /\ Dangling(c)
  /\ phase' = "undefined"
  /\ UNCHANGED <<accepted, pc, lock, list, walk, history>>

Sound(c) == Running /\ ~Dangling(c)

\* The message cannot be allocated; log_message returns before it looks at the logger.
LoseMessage(c) ==
  /\ Running
  /\ Goto(pc, c, "log", "unlock")
  /\ lost' = lost \cup {c}
  /\ UNCHANGED <<phase, accepted, lock, list, walk, logged, waited>>

LinkFirst(c) ==
  /\ Sound(c) /\ head = None
  /\ Goto(pc, c, "log", "count")
  /\ head' = c /\ tail' = c
  /\ logged' = Append(logged, c)
  /\ UNCHANGED <<phase, accepted, lock, next, total, walk, lost, waited>>

LinkLast(c) ==
  /\ Sound(c) /\ head # None
  /\ Goto(pc, c, "log", "tail")
  /\ next' = [next EXCEPT ![tail] = c]
  /\ logged' = Append(logged, c)
  /\ UNCHANGED <<phase, accepted, lock, head, tail, total, walk, lost, waited>>

\* The variant leaves logger->tail at the first message.
TailStays(c) == tail
NewTail(c) == c

MoveTail(c) ==
  /\ Sound(c)
  /\ Goto(pc, c, "tail", "count")
  /\ tail' = NewTail(c)
  /\ UNCHANGED <<phase, accepted, lock, head, next, total, walk, history>>

CountConnection(c) ==
  /\ Sound(c)
  /\ Goto(pc, c, "count", "unlock")
  /\ total' = total + 1
  /\ UNCHANGED <<phase, accepted, lock, head, tail, next, walk, history>>

log_message(c) == \/ LoseMessage(c) \/ LinkFirst(c) \/ LinkLast(c) \/ MoveTail(c)
                  \/ CountConnection(c) \/ Trespass(c)

\* Unlock, close the socket, free the arguments.
Leave(c) ==
  /\ Running
  /\ Goto(pc, c, "unlock", "done")
  /\ Unlock(lock, c)
  /\ UNCHANGED <<phase, accepted, list, walk, history>>

handle_client(c) == read_msn(c) \/ ReadFails(c) \/ LockLogger(c) \/ log_message(c) \/ Leave(c)
-----------------------------------------------------------------------------
(* shutdown_server *)

BeginRecap ==
  /\ phase = "serving" /\ ~MoreExpected
  /\ phase' = "recap"
  /\ current' = head
  /\ waited' = \A c \in Clients : pc[c] \in {"connecting", "done"}
  /\ UNCHANGED <<accepted, pc, lock, list, next_message, freed, gone, shown, logged, lost>>

ShowMessage ==
  /\ phase = "recap" /\ current # None /\ current \notin freed
  /\ next_message = None
  /\ Len(shown) = Cardinality(freed)
  /\ shown' = Append(shown, current)
  /\ next_message' = next[current]
  /\ UNCHANGED <<phase, accepted, pc, lock, list, current, freed, gone, history>>

FreeMessage ==
  /\ phase = "recap" /\ current # None /\ Len(shown) > Cardinality(freed)
  /\ freed' = freed \cup {current}
  /\ current' = next_message /\ next_message' = None
  /\ UNCHANGED <<phase, accepted, pc, lock, list, gone, shown, history>>

FreeLogger ==
  /\ phase = "recap" /\ current = None
  /\ phase' = "leaving" /\ gone' = TRUE
  /\ UNCHANGED <<accepted, pc, lock, list, current, next_message, freed, shown, history>>

shutdown_server == BeginRecap \/ ShowMessage \/ FreeMessage \/ FreeLogger

\* Returning from main ends the handlers that are left.
Return ==
  /\ phase = "leaving"
  /\ phase' = "done"
  /\ UNCHANGED <<accepted, pc, lock, list, walk, history>>

Terminated == ~Running /\ UNCHANGED vars

Next == \/ AcceptFails \/ shutdown_server \/ Return \/ Terminated
        \/ \E c \in Clients : accept_connection(c) \/ handle_client(c)

Spec == Init /\ [][Next]_vars
-----------------------------------------------------------------------------
(* accept_connection and log_message count no more connections than the
   server takes, and the list links only messages.                          *)
TypeOK ==
  /\ phase \in {"serving", "recap", "leaving", "done", "failed", "undefined"}
  /\ accepted \in 0..QueueSize /\ total \in 0..QueueSize
  /\ pc \in [Clients -> {"connecting", "read", "lock", "log", "tail", "count", "unlock", "done"}]
  /\ lock \in Messages /\ {head, tail, current, next_message} \subseteq Messages
  /\ next \in [Clients -> Messages]
  /\ freed \cup lost \subseteq Clients
  /\ {gone, waited} \subseteq BOOLEAN
  /\ ToSet(shown) \cup ToSet(logged) \subseteq Clients

(* When no handler is inside log_message the pointers spell out the
   messages in the order in which they were appended.                       *)
ListIsLog ==
  (lock = None /\ logged # <<>>) =>
    /\ head = Head(logged) /\ tail = Last(logged)
    /\ next[tail] = None
    /\ \A i \in 1..Len(logged) - 1 : next[logged[i]] = logged[i + 1]
    /\ total = Len(logged)

(* The recap shows messages once each, in order of arrival, however many
   handlers append behind it.                                               *)
RecapInOrder == IsPrefix(shown, logged)

(* A recap that began after every handler had returned is complete, and
   nothing freed is touched.                                                *)
QuietRecapComplete ==
  waited => /\ phase \in {"leaving", "done"} => shown = logged
            /\ phase # "undefined"

(* A handler that has its message registers it in a logger that exists.     *)
RegistersMessage == phase # "undefined"

(* log_message links each message once and in order, whatever allocations,
   reads and accepts failed.                                                *)
LogSound == TypeOK /\ ListIsLog

(* shutdown_server shows messages in order of arrival, each once, and all of
   them when no handler is left; it touches nothing it has freed.           *)
RecapTruthful == RecapInOrder /\ QuietRecapComplete

\* Clients are interchangeable.
Symmetric == Permutations(Clients)
-----------------------------------------------------------------------------
(* Proofs, for any number of clients and any QUEUE_SIZE of a uint8_t.       *)

Histories == logged \in Seq(Clients) /\ shown \in Seq(Clients)

\* The logger's lock is held around log_message.
HoldsLock == \A c \in Clients : pc[c] \in {"log", "tail", "count", "unlock"} <=> lock = c

\* Each accepted connection is still to log, has logged, or gave up; one that
\* is inside log_message has not been counted yet.
Waiting == {c \in Clients : pc[c] \in {"read", "lock", "log"}}
Linking(c) == pc[c] \in {"tail", "count"}
Accounted ==
  /\ IsFiniteSet(Waiting) /\ Len(logged) + Cardinality(Waiting) <= accepted
  /\ \A c \in Clients : Linking(c) => total = Len(logged) - 1
  /\ (\A c \in Clients : ~Linking(c)) => total = Len(logged)

\* next follows the order of arrival, ends there, and nobody else is linked.
Unlogged == {"connecting", "read", "lock", "log"}
LinksLog ==
  /\ head = IF logged = <<>> THEN None ELSE logged[1]
  /\ \A i \in 1..Len(logged) - 1 : next[logged[i]] = logged[i + 1]
  /\ logged # <<>> => next[logged[Len(logged)]] = None
  /\ \A i, j \in 1..Len(logged) : logged[i] = logged[j] => i = j
  /\ \A c \in Clients : pc[c] \in Unlogged =>
       next[c] = None /\ \A i \in 1..Len(logged) : logged[i] # c

\* tail is behind only between the two stores of log_message.
TailLags ==
  /\ (\A c \in Clients : pc[c] # "tail") /\ logged # <<>> => tail = logged[Len(logged)]
  /\ \A c \in Clients : Linking(c) => logged # <<>> /\ logged[Len(logged)] = c

\* shutdown_server is at one message of the log: it has shown and freed those
\* before it.
At == Cardinality(freed) + 1
WalkFollowsLog ==
  /\ IsFiniteSet(freed) /\ Cardinality(freed) \in 0..Len(logged)
  /\ freed = {logged[i] : i \in 1..Cardinality(freed)}
  /\ Len(shown) \in {At - 1, At} /\ Len(shown) <= Len(logged)
  /\ \A i \in 1..Len(shown) : shown[i] = logged[i]
  /\ phase = "serving" => shown = <<>>
  /\ phase = "recap" =>
       /\ current = None => Len(shown) = At - 1
       /\ current # None => At <= Len(logged) /\ current = logged[At]
       /\ Len(shown) = At /\ next_message # None =>
            At < Len(logged) /\ next_message = logged[At + 1]

\* When every handler has returned before the recap nothing happens behind it.
Quiet ==
  waited =>
    /\ phase \notin {"serving", "undefined"}
    /\ \A c \in Clients : pc[c] \in {"connecting", "done"}
    /\ phase = "recap" =>
         /\ current = None => Len(shown) = Len(logged)
         /\ Len(shown) = At /\ next_message = None => At = Len(logged)
    /\ phase \in {"leaving", "done"} => Len(shown) = Len(logged)

IndInv == /\ TypeOK /\ Histories /\ HoldsLock /\ Accounted
          /\ LinksLog /\ TailLags /\ WalkFollowsLog /\ Quiet

(* An empty log and an idle main.                                           *)
LEMMA InitInd == Init => IndInv
  <1> SUFFICES ASSUME Init PROVE IndInv
    OBVIOUS
  <1> USE ServerAssumption DEF Init
  <1>1. Histories /\ HoldsLock
    BY DEF Histories, HoldsLock
  <1>2. ToSet(shown) = {} /\ ToSet(logged) = {}
    BY DEF ToSet
  <1>3. TypeOK
    <2>1. accepted \in 0..QueueSize /\ total \in 0..QueueSize
      OBVIOUS
    <2>2. /\ pc \in [Clients -> {"connecting"}] /\ next \in [Clients -> Messages]
          /\ lock \in Messages /\ {head, tail, current, next_message} \subseteq Messages
      BY DEF Messages
    <2> QED BY <1>2, <2>1, <2>2 DEF TypeOK
  <1>4. Waiting = {}
    BY DEF Waiting
  <1>5. Accounted
    BY <1>4, FS_EmptySet DEF Accounted, Linking
  <1>6. LinksLog /\ TailLags
    BY DEF LinksLog, TailLags, Linking
  <1>7. WalkFollowsLog
    <2>1. Cardinality({}) = 0 /\ IsFiniteSet({})
      BY FS_EmptySet
    <2>2. freed = {} /\ Len(logged) = 0 /\ Len(shown) = 0
      OBVIOUS
    <2>3. {logged[i] : i \in 1..0} = {}
      OBVIOUS
    <2> QED BY <2>1, <2>2, <2>3 DEF WalkFollowsLog, At
  <1>8. Quiet
    BY DEF Quiet
  <1> QED BY <1>1, <1>3, <1>5, <1>6, <1>7, <1>8 DEF IndInv

\* Steps of a handler that leave the list alone.
Outside(c) == read_msn(c) \/ ReadFails(c) \/ LockLogger(c) \/ Trespass(c) \/ Leave(c)

(* Appending a message to the log.                                          *)
LEMMA Appended ==
  ASSUME Histories, NEW c \in Clients, logged' = Append(logged, c)
  PROVE  /\ logged' \in Seq(Clients) /\ Len(logged) \in Nat /\ Len(logged') = Len(logged) + 1
         /\ \A i \in 1..Len(logged) : logged'[i] = logged[i]
         /\ logged'[Len(logged) + 1] = c
  BY AppendProperties DEF Histories

(* What is in the log or in the recap names clients.                        *)
LEMMA NamesClients ==
  ASSUME NEW s \in Seq(Clients)
  PROVE  ToSet(s) \subseteq Clients
  BY DEF ToSet

(* The lock.                                                                *)
LEMMA LockStep == IndInv /\ [Next]_vars => HoldsLock'
  <1> SUFFICES ASSUME IndInv, [Next]_vars PROVE HoldsLock'
    OBVIOUS
  <1>1. /\ HoldsLock /\ pc \in [Clients -> {"connecting", "read", "lock", "log", "tail",
                                             "count", "unlock", "done"}]
        /\ None \notin Clients
    BY ServerAssumption DEF IndInv, TypeOK
  <1> USE DEF HoldsLock, Goto
  <1>2. ASSUME UNCHANGED <<pc, lock>>
        PROVE  HoldsLock'
    BY <1>1, <1>2
  <1>3. ASSUME NEW c \in Clients, accept_connection(c) \/ read_msn(c)
        PROVE  HoldsLock'
    BY <1>1, <1>3 DEF accept_connection, read_msn
  <1>4. ASSUME NEW c \in Clients, LockLogger(c)
        PROVE  HoldsLock'
    <2>1. \A d \in Clients : pc[d] \notin {"log", "tail", "count", "unlock"}
      BY <1>1, <1>4 DEF LockLogger, Lock
    <2>2. /\ lock' = c /\ pc'[c] = "log" /\ \A d \in Clients \ {c} : pc'[d] = pc[d]
      BY <1>1, <1>4 DEF LockLogger, Lock
    <2> QED BY <2>1, <2>2
  <1>5. ASSUME NEW c \in Clients, Leave(c)
        PROVE  HoldsLock'
    <2>1. \A d \in Clients \ {c} : pc[d] \notin {"log", "tail", "count", "unlock"}
      BY <1>1, <1>5 DEF Leave, Unlock
    <2>2. /\ lock' = None /\ pc'[c] = "done" /\ \A d \in Clients \ {c} : pc'[d] = pc[d]
      BY <1>1, <1>5 DEF Leave, Unlock
    <2> QED BY <1>1, <2>1, <2>2
  <1>6. ASSUME NEW c \in Clients, log_message(c)
        PROVE  HoldsLock'
    <2>1. \/ UNCHANGED <<pc, lock>>
          \/ /\ lock' = lock /\ pc[c] \in {"log", "tail", "count"}
             /\ \E x \in {"tail", "count", "unlock"} : pc' = [pc EXCEPT ![c] = x]
      BY <1>6 DEF log_message, LoseMessage, LinkFirst, LinkLast, MoveTail, CountConnection,
                  Trespass
    <2> QED BY <1>1, <1>2, <2>1
  <1>7. ASSUME shutdown_server \/ AcceptFails \/ Return \/ UNCHANGED vars
               \/ \E c \in Clients : ReadFails(c)
        PROVE  UNCHANGED <<pc, lock>>
    BY <1>7 DEF shutdown_server, BeginRecap, ShowMessage, FreeMessage, FreeLogger,
                AcceptFails, Return, ReadFails, vars
  <1> QED BY <1>2, <1>3, <1>4, <1>5, <1>6, <1>7 DEF Next, Terminated, handle_client

(* Each message is linked once, behind the last one.                        *)
LEMMA LinksStep == IndInv /\ [Next]_vars => LinksLog' /\ TailLags'
  <1> SUFFICES ASSUME IndInv, [Next]_vars PROVE LinksLog' /\ TailLags'
    OBVIOUS
  <1>1. /\ pc \in [Clients -> {"connecting", "read", "lock", "log", "tail", "count",
                               "unlock", "done"}]
        /\ next \in [Clients -> Messages] /\ logged \in Seq(Clients) /\ Len(logged) \in Nat
        /\ None \notin Clients /\ HoldsLock /\ LinksLog /\ TailLags
    BY ServerAssumption DEF IndInv, TypeOK, Histories
  <1>2. ASSUME UNCHANGED <<head, tail, next, logged>>,
               \A c \in Clients : /\ pc'[c] \in Unlogged => pc[c] \in Unlogged
                                  /\ pc'[c] = "tail" <=> pc[c] = "tail"
                                  /\ Linking(c)' => Linking(c)
        PROVE  LinksLog' /\ TailLags'
    BY <1>1, <1>2 DEF LinksLog, TailLags
  <1>3. ASSUME NEW c \in Clients, LinkFirst(c)
        PROVE  LinksLog' /\ TailLags'
    <2>1. /\ head = None /\ pc[c] = "log" /\ pc' = [pc EXCEPT ![c] = "count"]
          /\ head' = c /\ tail' = c /\ logged' = Append(logged, c) /\ next' = next
      BY <1>3 DEF LinkFirst, Goto
    <2>2. logged = <<>>
      BY <1>1, <2>1 DEF LinksLog
    <2>3. logged' = <<c>> /\ Len(logged') = 1 /\ logged'[1] = c
      BY <2>1, <2>2
    <2>4. pc'[c] = "count" /\ \A d \in Clients \ {c} : pc'[d] = pc[d] /\ ~Linking(d)
      BY <1>1, <2>1 DEF HoldsLock, Linking
    <2>5. LinksLog'
      BY <1>1, <2>1, <2>3, <2>4 DEF LinksLog, Unlogged
    <2>6. TailLags'
      BY <1>1, <2>1, <2>3, <2>4 DEF TailLags, Linking
    <2> QED BY <2>5, <2>6
  <1>4. ASSUME NEW c \in Clients, LinkLast(c)
        PROVE  LinksLog' /\ TailLags'
    <2>1. /\ head # None /\ pc[c] = "log" /\ pc' = [pc EXCEPT ![c] = "tail"]
          /\ next' = [next EXCEPT ![tail] = c] /\ logged' = Append(logged, c)
          /\ head' = head /\ tail' = tail
      BY <1>4 DEF LinkLast, Goto
    <2>2. pc'[c] = "tail" /\ \A d \in Clients \ {c} : pc'[d] = pc[d] /\ ~Linking(d)
      BY <1>1, <2>1 DEF HoldsLock, Linking
    <2>3. logged # <<>> /\ Len(logged) >= 1 /\ head = logged[1]
      BY <1>1, <2>1 DEF LinksLog
    <2>4. tail = logged[Len(logged)] /\ tail \in Clients /\ c # tail
      <3>1. \A d \in Clients : pc[d] # "tail"
        BY <2>1, <2>2 DEF Linking
      <3> QED BY <1>1, <2>1, <2>3, <3>1 DEF TailLags, LinksLog, Unlogged
    <2>5. /\ Len(logged') = Len(logged) + 1 /\ logged'[Len(logged) + 1] = c
          /\ \A i \in 1..Len(logged) : logged'[i] = logged[i]
      BY <2>1, Appended DEF IndInv
    <2>6. /\ next'[tail] = c /\ \A d \in Clients \ {tail} : next'[d] = next[d]
      BY <1>1, <2>1, <2>4
    <2>7. next[c] = None /\ \A i \in 1..Len(logged) : logged[i] # c
      BY <1>1, <2>1 DEF LinksLog, Unlogged
    <2>8. head' = logged'[1] /\ logged' # <<>>
      BY <2>1, <2>3, <2>5
    <2>9. \A i \in 1..Len(logged) : next'[logged'[i]] = logged'[i + 1]
      <3> TAKE i \in 1..Len(logged)
      <3>1. CASE i = Len(logged)
        BY <2>4, <2>5, <2>6, <3>1
      <3>2. CASE i # Len(logged)
        <4>1. i \in 1..Len(logged) - 1 /\ i + 1 \in 1..Len(logged) /\ Len(logged) \in 1..Len(logged)
          BY <1>1, <2>3, <3>2
        <4>2. logged[i] # tail /\ logged[i] \in Clients
          BY <1>1, <2>4, <3>2, <4>1 DEF LinksLog
        <4> QED BY <1>1, <2>5, <2>6, <4>1, <4>2 DEF LinksLog
      <3> QED BY <3>1, <3>2
    <2>10. next'[c] = None
      BY <2>4, <2>6, <2>7
    <2>11. \A i, j \in 1..Len(logged) + 1 : logged'[i] = logged'[j] => i = j
      <3> TAKE i, j \in 1..Len(logged) + 1
      <3>1. CASE i \in 1..Len(logged) /\ j \in 1..Len(logged)
        BY <1>1, <2>5, <3>1 DEF LinksLog
      <3>2. CASE i = Len(logged) + 1 \/ j = Len(logged) + 1
        BY <1>1, <2>5, <2>7, <3>2
      <3> QED BY <1>1, <3>1, <3>2
    <2>12. \A d \in Clients : pc'[d] \in Unlogged =>
             next'[d] = None /\ \A i \in 1..Len(logged) + 1 : logged'[i] # d
      <3> SUFFICES ASSUME NEW d \in Clients, pc'[d] \in Unlogged
                   PROVE  next'[d] = None /\ \A i \in 1..Len(logged) + 1 : logged'[i] # d
        OBVIOUS
      <3>1. d # c /\ pc[d] \in Unlogged
        BY <2>2 DEF Unlogged
      <3>2. next[d] = None /\ \A i \in 1..Len(logged) : logged[i] # d
        BY <1>1, <3>1 DEF LinksLog
      <3>3. d # tail
        BY <1>1, <2>3, <2>4, <3>2
      <3>4. \A i \in 1..Len(logged) + 1 : i \in 1..Len(logged) \/ i = Len(logged) + 1
        BY <1>1
      <3> QED BY <2>5, <2>6, <3>1, <3>2, <3>3, <3>4
    <2>13. LinksLog'
      <3>1. Len(logged') - 1 = Len(logged)
        BY <1>1, <2>5
      <3> QED BY <2>5, <2>8, <2>9, <2>10, <2>11, <2>12, <3>1 DEF LinksLog
    <2>14. TailLags'
      BY <2>2, <2>5, <2>8 DEF TailLags, Linking
    <2> QED BY <2>13, <2>14
  <1>5. ASSUME NEW c \in Clients, MoveTail(c)
        PROVE  LinksLog' /\ TailLags'
    <2>1. /\ pc[c] = "tail" /\ pc' = [pc EXCEPT ![c] = "count"]
          /\ tail' = c /\ UNCHANGED <<head, next, logged>>
      BY <1>5 DEF MoveTail, Goto, NewTail, history
    <2>2. logged # <<>> /\ logged[Len(logged)] = c
      BY <1>1, <2>1 DEF TailLags, Linking
    <2>3. pc'[c] = "count" /\ \A d \in Clients \ {c} : pc'[d] = pc[d]
      BY <1>1, <2>1
    <2>4. LinksLog'
      BY <1>1, <2>1, <2>3 DEF LinksLog, Unlogged
    <2>5. TailLags'
      BY <1>1, <2>1, <2>2, <2>3 DEF TailLags, Linking
    <2> QED BY <2>4, <2>5
  <1>6. ASSUME NEW c \in Clients,
               accept_connection(c) \/ Outside(c) \/ LoseMessage(c) \/ CountConnection(c)
        PROVE  LinksLog' /\ TailLags'
    <2>1. /\ UNCHANGED <<head, tail, next, logged>>
          /\ \/ pc' = pc
             \/ /\ pc[c] = "connecting" \/ pc[c] = "read" \/ pc[c] = "lock" \/ pc[c] = "log"
                /\ \E x \in {"read", "lock", "log", "unlock"} : pc' = [pc EXCEPT ![c] = x]
             \/ /\ pc[c] \in {"count", "unlock"}
                /\ \E x \in {"unlock", "done"} : pc' = [pc EXCEPT ![c] = x]
      BY <1>6 DEF accept_connection, Outside, read_msn, ReadFails, LockLogger, Trespass, Leave,
                  LoseMessage, CountConnection, Goto, list, history
    <2>2. \A d \in Clients : /\ pc'[d] \in Unlogged => pc[d] \in Unlogged
                             /\ pc'[d] = "tail" <=> pc[d] = "tail"
                             /\ Linking(d)' => Linking(d)
      BY <1>1, <2>1 DEF Unlogged, Linking
    <2> QED BY <1>2, <2>1, <2>2
  <1>7. ASSUME shutdown_server \/ AcceptFails \/ Return \/ UNCHANGED vars
        PROVE  LinksLog' /\ TailLags'
    <2>1. UNCHANGED <<head, tail, next, logged, pc>>
      BY <1>7 DEF shutdown_server, BeginRecap, ShowMessage, FreeMessage, FreeLogger,
                  AcceptFails, Return, vars, list, history
    <2> QED BY <1>2, <2>1 DEF Linking
  <1> QED BY <1>3, <1>4, <1>5, <1>6, <1>7
          DEF Next, Terminated, handle_client, log_message, Outside

(* Each connection is counted once.                                         *)
LEMMA AccountStep == IndInv /\ [Next]_vars => Accounted'
  <1> SUFFICES ASSUME IndInv, [Next]_vars PROVE Accounted'
    OBVIOUS
  <1>1. /\ pc \in [Clients -> {"connecting", "read", "lock", "log", "tail", "count",
                               "unlock", "done"}]
        /\ IsFiniteSet(Waiting) /\ Cardinality(Waiting) \in Nat
        /\ Len(logged) \in Nat /\ accepted \in Nat /\ total \in Nat
        /\ Len(logged) + Cardinality(Waiting) <= accepted
        /\ HoldsLock
    <2>1. accepted \in Nat /\ total \in Nat /\ QueueSize \in 1..255
      BY ServerAssumption DEF IndInv, TypeOK
    <2>2. IsFiniteSet(Waiting)
      BY DEF IndInv, Accounted
    <2> QED BY <2>1, <2>2, FS_CardinalityType DEF IndInv, TypeOK, Accounted, Histories
  <1>2. /\ \A c \in Clients : Linking(c) => total = Len(logged) - 1
        /\ (\A c \in Clients : ~Linking(c)) => total = Len(logged)
    BY DEF IndInv, Accounted
  <1>3. ASSUME UNCHANGED <<accepted, total, logged>>,
               Waiting' = Waiting, \A c \in Clients : Linking(c)' <=> Linking(c)
        PROVE  Accounted'
    BY <1>1, <1>2, <1>3 DEF Accounted
  <1>4. ASSUME NEW c \in Clients, accept_connection(c)
        PROVE  Accounted'
    <2>1. /\ pc[c] = "connecting" /\ pc' = [pc EXCEPT ![c] = "read"]
          /\ accepted' = accepted + 1 /\ total' = total /\ logged' = logged
      BY <1>4 DEF accept_connection, Goto, list, history
    <2>2. Waiting' = Waiting \cup {c} /\ c \notin Waiting
      BY <1>1, <2>1 DEF Waiting
    <2>3. IsFiniteSet(Waiting') /\ Cardinality(Waiting') = Cardinality(Waiting) + 1
      BY <1>1, <2>2, FS_AddElement
    <2>4. Len(logged') + Cardinality(Waiting') <= accepted'
      BY <1>1, <2>1, <2>3
    <2>5. \A d \in Clients : Linking(d)' <=> Linking(d)
      BY <1>1, <2>1 DEF Linking
    <2> HIDE DEF Waiting
    <2> QED BY <1>2, <2>1, <2>3, <2>4, <2>5 DEF Accounted
  <1>5. ASSUME NEW c \in Clients, LinkFirst(c) \/ LinkLast(c)
        PROVE  Accounted'
    <2>1. /\ pc[c] = "log" /\ \E x \in {"tail", "count"} : pc' = [pc EXCEPT ![c] = x]
          /\ accepted' = accepted /\ total' = total /\ logged' = Append(logged, c)
      BY <1>5 DEF LinkFirst, LinkLast, Goto
    <2>2. Waiting' = Waiting \ {c} /\ c \in Waiting
      BY <1>1, <2>1 DEF Waiting
    <2>3. IsFiniteSet(Waiting') /\ Cardinality(Waiting') = Cardinality(Waiting) - 1
      BY <1>1, <2>2, FS_RemoveElement
    <2>4. Len(logged') = Len(logged) + 1
      BY <2>1, Appended DEF IndInv
    <2>5. Len(logged') + Cardinality(Waiting') <= accepted'
      BY <1>1, <2>1, <2>3, <2>4
    <2>6. \A d \in Clients : ~Linking(d)
      BY <1>1, <2>1 DEF Linking, HoldsLock
    <2>7. Linking(c)' /\ total' = Len(logged') - 1
      BY <1>1, <1>2, <2>1, <2>4, <2>6 DEF Linking
    <2> HIDE DEF Waiting
    <2> QED BY <2>3, <2>5, <2>7 DEF Accounted
  <1>6. ASSUME NEW c \in Clients, LoseMessage(c)
        PROVE  Accounted'
    <2>1. /\ pc[c] = "log" /\ pc' = [pc EXCEPT ![c] = "unlock"]
          /\ accepted' = accepted /\ total' = total /\ logged' = logged
      BY <1>6 DEF LoseMessage, Goto, list
    <2>2. Waiting' = Waiting \ {c} /\ c \in Waiting
      BY <1>1, <2>1 DEF Waiting
    <2>3. IsFiniteSet(Waiting') /\ Cardinality(Waiting') = Cardinality(Waiting) - 1
      BY <1>1, <2>2, FS_RemoveElement
    <2>4. Len(logged') + Cardinality(Waiting') <= accepted'
      BY <1>1, <2>1, <2>3
    <2>5. \A d \in Clients : Linking(d)' <=> Linking(d)
      BY <1>1, <2>1 DEF Linking
    <2> HIDE DEF Waiting
    <2> QED BY <1>2, <2>1, <2>3, <2>4, <2>5 DEF Accounted
  <1>7. ASSUME NEW c \in Clients, CountConnection(c)
        PROVE  Accounted'
    <2>1. /\ pc[c] = "count" /\ pc' = [pc EXCEPT ![c] = "unlock"]
          /\ accepted' = accepted /\ total' = total + 1 /\ logged' = logged
      BY <1>7 DEF CountConnection, Goto, history
    <2>2. Waiting' = Waiting
      BY <1>1, <2>1 DEF Waiting
    <2>3. \A d \in Clients : ~Linking(d)'
      BY <1>1, <2>1 DEF Linking, HoldsLock
    <2>4. total' = Len(logged')
      BY <1>1, <1>2, <2>1 DEF Linking
    <2> HIDE DEF Waiting
    <2> QED BY <1>1, <2>1, <2>2, <2>3, <2>4 DEF Accounted
  <1>8. ASSUME NEW c \in Clients, MoveTail(c) \/ Outside(c)
        PROVE  Accounted'
    <2>1. /\ UNCHANGED <<accepted, total, logged>>
          /\ \/ pc' = pc
             \/ pc[c] = "tail" /\ pc' = [pc EXCEPT ![c] = "count"]
             \/ pc[c] = "read" /\ pc' = [pc EXCEPT ![c] = "lock"]
             \/ pc[c] = "lock" /\ pc' = [pc EXCEPT ![c] = "log"]
             \/ pc[c] = "unlock" /\ pc' = [pc EXCEPT ![c] = "done"]
      BY <1>8 DEF MoveTail, Outside, read_msn, ReadFails, LockLogger, Trespass, Leave,
                  Goto, list, history
    <2>2. Waiting' = Waiting
      BY <1>1, <2>1 DEF Waiting
    <2>3. \A d \in Clients : Linking(d)' <=> Linking(d)
      BY <1>1, <2>1 DEF Linking
    <2> QED BY <1>3, <2>1, <2>2, <2>3
  <1>9. ASSUME shutdown_server \/ AcceptFails \/ Return \/ UNCHANGED vars
        PROVE  Accounted'
    <2>1. UNCHANGED <<accepted, total, logged, pc>>
      BY <1>9 DEF shutdown_server, BeginRecap, ShowMessage, FreeMessage, FreeLogger,
                  AcceptFails, Return, vars, list, history
    <2> QED BY <1>3, <2>1 DEF Linking, Waiting
  <1> QED BY <1>4, <1>5, <1>6, <1>7, <1>8, <1>9
          DEF Next, Terminated, handle_client, log_message, Outside

(* Counters stay in range and pointers name messages.                       *)
LEMMA TypeStep == IndInv /\ [Next]_vars => TypeOK' /\ Histories'
  <1> SUFFICES ASSUME IndInv, [Next]_vars PROVE TypeOK' /\ Histories'
    OBVIOUS
  <1>1. TypeOK /\ Histories /\ QueueSize \in 1..255
    BY ServerAssumption DEF IndInv
  <1>2. \/ \E c \in Clients : accept_connection(c) \/ handle_client(c)
        \/ AcceptFails \/ shutdown_server \/ Return \/ UNCHANGED vars
    BY DEF Next, Terminated
  <1> USE DEF handle_client, log_message, shutdown_server, BeginRecap, ShowMessage,
              FreeMessage, FreeLogger, AcceptFails, Return, vars, read_msn, ReadFails,
              LockLogger, Trespass, Leave, LoseMessage, LinkFirst, LinkLast, MoveTail,
              CountConnection, accept_connection, list, walk, history
  <1>3. accepted' \in 0..QueueSize
    <2>1. accepted' = accepted \/ (accepted < QueueSize /\ accepted' = accepted + 1)
      BY <1>2 DEF MoreExpected
    <2> QED BY <1>1, <2>1 DEF TypeOK
  <1>4. logged' \in Seq(Clients)
    <2>1. logged' = logged \/ \E c \in Clients : logged' = Append(logged, c)
      BY <1>2
    <2> QED BY <1>1, <2>1 DEF Histories
  <1>5. shown' \in Seq(Clients)
    <2>1. shown' = shown \/ (current # None /\ shown' = Append(shown, current))
      BY <1>2
    <2> QED BY <1>1, <2>1 DEF Histories, TypeOK, Messages
  <1>6. total' \in 0..QueueSize
    <2>1. total' = total \/ total' = total + 1
      BY <1>2
    <2>2. total \in Nat
      BY <1>1 DEF TypeOK
    <2>3. /\ Len(logged') \in Nat /\ Cardinality(Waiting') \in Nat
          /\ Len(logged') + Cardinality(Waiting') <= accepted'
          /\ total' = Len(logged') - 1 \/ total' = Len(logged')
      <3>1. Accounted'
        BY AccountStep
      <3>2. Cardinality(Waiting') \in Nat
        BY <3>1, FS_CardinalityType DEF Accounted
      <3> HIDE DEF vars
      <3> QED BY <1>4, <3>1, <3>2 DEF Accounted
    <2> QED BY <1>1, <1>3, <2>1, <2>2, <2>3
  <1>7. phase' \in {"serving", "recap", "leaving", "done", "failed", "undefined"}
    BY <1>1, <1>2 DEF TypeOK
  <1>8. pc' \in [Clients -> {"connecting", "read", "lock", "log", "tail", "count",
                             "unlock", "done"}]
    <2>1. \/ pc' = pc
          \/ \E c \in Clients, x \in {"read", "lock", "log", "tail", "count", "unlock", "done"} :
               pc' = [pc EXCEPT ![c] = x]
      BY <1>2 DEF Goto
    <2> QED BY <1>1, <2>1 DEF TypeOK
  <1>9. lock' \in Messages
    <2>1. lock' = lock \/ lock' \in Clients \/ lock' = None
      BY <1>2 DEF Lock, Unlock
    <2> QED BY <1>1, <2>1 DEF TypeOK, Messages
  <1>10. next' \in [Clients -> Messages]
    <2>1. next' = next \/ \E c \in Clients : next' = [next EXCEPT ![tail] = c]
      BY <1>2
    <2> QED BY <1>1, <2>1 DEF TypeOK, Messages
  <1>11. head' \in Messages /\ tail' \in Messages
    <2>1. (head' = head \/ head' \in Clients) /\ (tail' = tail \/ tail' \in Clients)
      BY <1>2 DEF NewTail
    <2> QED BY <1>1, <2>1 DEF TypeOK, Messages
  <1>12. current' \in Messages /\ next_message' \in Messages
    <2>1. /\ current' \in {current, head, next_message}
          /\ \/ next_message' \in {next_message, None}
             \/ current # None /\ next_message' = next[current]
      BY <1>2
    <2> QED BY <1>1, <2>1 DEF TypeOK, Messages
  <1>13. freed' \cup lost' \subseteq Clients
    <2>1. /\ freed' = freed \/ (current # None /\ freed' = freed \cup {current})
          /\ lost' = lost \/ \E c \in Clients : lost' = lost \cup {c}
      BY <1>2
    <2> QED BY <1>1, <2>1 DEF TypeOK, Messages
  <1>14. {gone', waited'} \subseteq BOOLEAN
    BY <1>1, <1>2 DEF TypeOK
  <1>15. ToSet(shown') \cup ToSet(logged') \subseteq Clients
    BY <1>4, <1>5, NamesClients
  <1> HIDE DEF vars, list, walk, history
  <1> QED BY <1>3, <1>4, <1>5, <1>6, <1>7, <1>8, <1>9, <1>10, <1>11, <1>12, <1>13, <1>14, <1>15
          DEF TypeOK, Histories

(* shutdown_server follows the log, whatever is appended behind it.         *)
LEMMA WalkStep == IndInv /\ [Next]_vars => WalkFollowsLog'
  <1> SUFFICES ASSUME IndInv, [Next]_vars PROVE WalkFollowsLog'
    OBVIOUS
  <1> DEFINE f == Cardinality(freed)
             N == Len(logged)
  <1>1. /\ N \in Nat /\ f \in 0..N /\ At = f + 1 /\ IsFiniteSet(freed)
        /\ logged \in Seq(Clients) /\ shown \in Seq(Clients) /\ None \notin Clients
        /\ next \in [Clients -> Messages]
    BY ServerAssumption DEF IndInv, WalkFollowsLog, At, TypeOK, Histories
  <1>2. /\ freed = {logged[i] : i \in 1..f}
        /\ Len(shown) \in {f, f + 1} /\ Len(shown) <= N
        /\ \A i \in 1..Len(shown) : shown[i] = logged[i]
        /\ phase = "serving" => shown = <<>>
    BY <1>1 DEF IndInv, WalkFollowsLog, At
  <1>3. phase = "recap" =>
          /\ current = None => Len(shown) = f
          /\ current # None => f + 1 <= N /\ current = logged[f + 1]
          /\ Len(shown) = f + 1 /\ next_message # None =>
               f + 1 < N /\ next_message = logged[f + 2]
    <2>1. At - 1 = f /\ At + 1 = f + 2
      BY <1>1
    <2> QED BY <1>1, <2>1 DEF IndInv, WalkFollowsLog
  <1> HIDE DEF f
  <1>4. ASSUME UNCHANGED <<freed, shown, current, next_message>>,
               phase' = phase \/ phase' \notin {"serving", "recap"},
               logged' = logged \/ \E c \in Clients : logged' = Append(logged, c)
        PROVE  WalkFollowsLog'
    <2>1. /\ Len(logged') \in Nat /\ Len(logged') >= N
          /\ \A i \in 1..N : logged'[i] = logged[i]
      BY <1>1, <1>4
    <2>2. Cardinality(freed') = f /\ IsFiniteSet(freed') /\ At' = f + 1
      BY <1>1, <1>4 DEF f, At
    <2>3. freed' = {logged'[i] : i \in 1..f}
      <3>1. \A i \in 1..f : logged'[i] = logged[i]
        BY <1>1, <2>1
      <3> QED BY <1>2, <1>4, <3>1
    <2>4. \A i \in 1..Len(shown) : shown[i] = logged'[i]
      BY <1>1, <1>2, <2>1
    <2>5. phase' = "recap" =>
            /\ current' = None => Len(shown') = At' - 1
            /\ current' # None => At' <= Len(logged') /\ current' = logged'[At']
            /\ Len(shown') = At' /\ next_message' # None =>
                 At' < Len(logged') /\ next_message' = logged'[At' + 1]
      <3> SUFFICES ASSUME phase' = "recap"
                   PROVE  /\ current = None => Len(shown) = f
                          /\ current # None => f + 1 <= Len(logged') /\ current = logged'[f + 1]
                          /\ Len(shown) = f + 1 /\ next_message # None =>
                               f + 1 < Len(logged') /\ next_message = logged'[f + 2]
        BY <1>1, <1>4, <2>2
      <3>1. phase = "recap"
        BY <1>4
      <3> HIDE DEF N
      <3> QED BY <1>1, <1>3, <2>1, <3>1
    <2>6. /\ Cardinality(freed') \in 0..Len(logged') /\ Len(shown') \in {At' - 1, At'}
          /\ Len(shown') <= Len(logged') /\ (phase' = "serving" => shown' = <<>>)
      <3> HIDE DEF N
      <3> QED BY <1>1, <1>2, <1>4, <2>1, <2>2
    <2> QED BY <1>4, <2>2, <2>3, <2>4, <2>5, <2>6 DEF WalkFollowsLog
  <1>5. CASE BeginRecap
    <2>1. /\ phase = "serving" /\ phase' = "recap" /\ current' = head
          /\ UNCHANGED <<next_message, freed, shown, logged>>
      BY <1>5 DEF BeginRecap
    <2>2. shown = <<>> /\ Len(shown) = 0 /\ f = 0
      <3>1. shown = <<>> /\ Len(shown) = 0
        BY <1>2, <2>1
      <3> QED BY <1>1, <1>2, <3>1
    <2>3. At' = 1 /\ Cardinality(freed') = f
      BY <1>1, <2>1, <2>2 DEF f, At
    <2>4. /\ current' = None => Len(shown') = At' - 1
          /\ current' # None => At' <= Len(logged') /\ current' = logged'[At']
          /\ Len(shown') # At'
      BY <1>1, <2>1, <2>2, <2>3 DEF IndInv, LinksLog
    <2> QED BY <1>1, <1>2, <2>1, <2>2, <2>3, <2>4 DEF WalkFollowsLog
  <1>6. CASE ShowMessage
    <2>1. /\ phase = "recap" /\ phase' = phase /\ current # None /\ Len(shown) = f
          /\ shown' = Append(shown, current) /\ next_message' = next[current]
          /\ UNCHANGED <<freed, current, logged>>
      BY <1>6 DEF ShowMessage, history, f
    <2>2. f + 1 \in 1..N /\ current = logged[f + 1] /\ current \in Clients
      BY <1>1, <1>3, <2>1
    <2>3. /\ Len(shown') = f + 1 /\ shown'[f + 1] = current
          /\ \A i \in 1..f : shown'[i] = shown[i]
      BY <1>1, <2>1, <2>2
    <2>4. At' = f + 1 /\ Cardinality(freed') = f
      BY <2>1 DEF f, At
    <2>5. next_message' # None => f + 1 < N /\ next_message' = logged[f + 2]
      <3>1. CASE f + 1 = N
        BY <1>1, <2>1, <2>2, <3>1 DEF IndInv, LinksLog
      <3>2. CASE f + 1 < N
        <4>1. f + 1 \in 1..N - 1 /\ (f + 1) + 1 = f + 2
          BY <1>1, <3>2
        <4>2. next[logged[f + 1]] = logged[(f + 1) + 1]
          BY <4>1 DEF IndInv, LinksLog
        <4> QED BY <2>1, <2>2, <3>2, <4>1, <4>2
      <3> QED BY <1>1, <2>2, <3>1, <3>2
    <2>6. \A i \in 1..f + 1 : shown'[i] = logged[i]
      <3> TAKE i \in 1..f + 1
      <3>1. i \in 1..f \/ i = f + 1
        BY <1>1
      <3> QED BY <1>2, <2>1, <2>2, <2>3, <3>1
    <2>7. At' - 1 = f /\ At' + 1 = f + 2 /\ f + 1 <= N
      BY <1>1, <2>2, <2>4
    <2> HIDE DEF N
    <2>8. Len(logged') = N /\ logged' = logged
      BY <2>1 DEF N
    <2>9. /\ IsFiniteSet(freed') /\ Cardinality(freed') \in 0..Len(logged')
          /\ freed' = {logged'[i] : i \in 1..Cardinality(freed')}
      BY <1>1, <1>2, <2>1, <2>4, <2>8
    <2>10. /\ Len(shown') \in {At' - 1, At'} /\ Len(shown') <= Len(logged')
           /\ \A i \in 1..Len(shown') : shown'[i] = logged'[i]
      BY <2>3, <2>4, <2>6, <2>7, <2>8
    <2>11. /\ phase' # "serving" /\ current' # None
           /\ At' <= Len(logged') /\ current' = logged'[At']
           /\ next_message' # None => At' < Len(logged') /\ next_message' = logged'[At' + 1]
      BY <2>1, <2>2, <2>4, <2>5, <2>7, <2>8
    <2> QED BY <2>9, <2>10, <2>11 DEF WalkFollowsLog
  <1>7. CASE FreeMessage
    <2>1. /\ phase = "recap" /\ phase' = phase /\ current # None /\ Len(shown) > f
          /\ freed' = freed \cup {current} /\ current' = next_message /\ next_message' = None
          /\ UNCHANGED <<shown, logged>>
      BY <1>7 DEF FreeMessage, history, f
    <2>2. f + 1 \in 1..N /\ current = logged[f + 1] /\ Len(shown) = f + 1
      BY <1>1, <1>2, <1>3, <2>1
    <2>3. current \notin freed
      <3> SUFFICES ASSUME NEW i \in 1..f, logged[i] = logged[f + 1] PROVE FALSE
        BY <1>2, <2>2
      <3>1. i \in 1..N /\ i # f + 1
        BY <1>1
      <3> QED BY <2>2, <3>1 DEF IndInv, LinksLog
    <2>4. IsFiniteSet(freed') /\ Cardinality(freed') = f + 1
      BY <1>1, <2>1, <2>3, FS_AddElement DEF f
    <2>5. At' = f + 2
      BY <1>1, <2>4 DEF At
    <2>6. freed' = {logged[i] : i \in 1..f + 1}
      <3>1. 1..f + 1 = (1..f) \cup {f + 1}
        BY <1>1
      <3> QED BY <1>2, <2>1, <2>2, <3>1
    <2>7. current' # None => f + 2 <= N /\ current' = logged[f + 2]
      <3>1. next_message # None => f + 1 < N /\ next_message = logged[f + 2]
        BY <1>3, <2>1, <2>2
      <3> HIDE DEF N
      <3> QED BY <1>1, <2>1, <3>1
    <2>8. At' - 1 = f + 1 /\ f + 1 # At' /\ f + 1 <= N /\ f + 1 \in 0..N
      BY <1>1, <2>2, <2>5
    <2>9. Len(logged') = N /\ logged' = logged /\ shown' = shown
      BY <2>1
    <2> HIDE DEF N
    <2>10. /\ IsFiniteSet(freed') /\ Cardinality(freed') \in 0..Len(logged')
           /\ freed' = {logged'[i] : i \in 1..Cardinality(freed')}
      BY <2>4, <2>6, <2>8, <2>9
    <2>11. /\ Len(shown') = At' - 1 /\ Len(shown') # At' /\ Len(shown') <= Len(logged')
           /\ \A i \in 1..Len(shown') : shown'[i] = logged'[i]
      BY <1>2, <2>2, <2>5, <2>8, <2>9
    <2>12. /\ phase' # "serving"
           /\ current' # None => At' <= Len(logged') /\ current' = logged'[At']
      BY <2>1, <2>5, <2>7, <2>9
    <2> QED BY <2>10, <2>11, <2>12 DEF WalkFollowsLog
  <1>8. CASE FreeLogger \/ AcceptFails \/ Return \/ UNCHANGED vars
    BY <1>4, <1>8 DEF FreeLogger, AcceptFails, Return, vars, walk, history
  <1>9. ASSUME NEW c \in Clients, accept_connection(c) \/ handle_client(c)
        PROVE  WalkFollowsLog'
    <2>1. /\ UNCHANGED <<freed, shown, current, next_message>>
          /\ phase' = phase \/ phase' \notin {"serving", "recap"}
          /\ logged' = logged \/ logged' = Append(logged, c)
      BY <1>9 DEF accept_connection, handle_client, log_message, read_msn, ReadFails,
                  LockLogger, Trespass, Leave, LoseMessage, LinkFirst, LinkLast, MoveTail,
                  CountConnection, walk, history
    <2> QED BY <1>4, <2>1
  <1> QED BY <1>5, <1>6, <1>7, <1>8, <1>9 DEF Next, Terminated, shutdown_server

(* Nothing happens behind a recap that began after the last handler.        *)
LEMMA QuietStep == IndInv /\ [Next]_vars => Quiet'
  <1> SUFFICES ASSUME IndInv, [Next]_vars, waited' PROVE Quiet'
    BY DEF Quiet
  <1>1. /\ At \in Nat /\ Len(logged) \in Nat /\ Len(shown) \in {At - 1, At} /\ None \notin Clients
        /\ logged \in Seq(Clients)
    BY ServerAssumption, FS_CardinalityType DEF IndInv, WalkFollowsLog, At, Histories
  <1>2. CASE BeginRecap
    <2>1. /\ phase = "serving" /\ phase' = "recap" /\ current' = head /\ pc' = pc
          /\ \A c \in Clients : pc[c] \in {"connecting", "done"}
          /\ UNCHANGED <<freed, shown, logged>>
      BY <1>2 DEF BeginRecap
    <2>2. Len(shown) = 0 /\ At = 1
      <3>1. Len(shown) = 0 /\ Cardinality(freed) \in Nat
        BY <2>1, FS_CardinalityType DEF IndInv, WalkFollowsLog
      <3> QED BY <1>1, <3>1 DEF At
    <2>3. head = None => Len(logged) = 0
      BY <1>1 DEF IndInv, LinksLog
    <2> QED BY <2>1, <2>2, <2>3 DEF Quiet, At
  <1>3. CASE ~BeginRecap
    <2>1. waited
      BY <1>3 DEF Next, Terminated, shutdown_server, ShowMessage, FreeMessage, FreeLogger,
                  AcceptFails, Return, vars, accept_connection, handle_client, log_message,
                  read_msn, ReadFails, LockLogger, Trespass, Leave, LoseMessage, LinkFirst,
                  LinkLast, MoveTail, CountConnection, history
    <2>2. /\ phase \notin {"serving", "undefined"}
          /\ \A c \in Clients : pc[c] \in {"connecting", "done"}
          /\ phase = "recap" =>
               /\ current = None => Len(shown) = Len(logged)
               /\ Len(shown) = At /\ next_message = None => At = Len(logged)
          /\ phase \in {"leaving", "done"} => Len(shown) = Len(logged)
      BY <2>1 DEF IndInv, Quiet
    <2>3. \A c \in Clients : ~accept_connection(c) /\ ~handle_client(c)
      BY <2>2 DEF accept_connection, handle_client, log_message, read_msn, ReadFails,
                  LockLogger, Trespass, Dangling, Leave, LoseMessage, LinkFirst, LinkLast,
                  MoveTail, CountConnection, Goto
    <2>4. CASE ShowMessage
      <3>1. /\ phase' = phase /\ current' = current /\ current # None /\ phase = "recap"
            /\ next_message' = next[current] /\ UNCHANGED <<pc, freed, logged>>
        BY <2>4 DEF ShowMessage, history
      <3>2. At <= Len(logged) /\ current = logged[At] /\ At \in 1..Len(logged)
        <4>1. At <= Len(logged) /\ current = logged[At] /\ At >= 1
          BY <3>1, FS_CardinalityType DEF IndInv, WalkFollowsLog, At
        <4> QED BY <1>1, <4>1
      <3>3. next_message' = None => At = Len(logged)
        <4> SUFFICES ASSUME At < Len(logged) PROVE next_message' # None
          BY <1>1, <3>2
        <4>1. At \in 1..Len(logged) - 1 /\ At + 1 \in 1..Len(logged)
          BY <1>1, <3>2
        <4>2. next[logged[At]] = logged[At + 1] /\ logged[At + 1] \in Clients
          BY <1>1, <4>1 DEF IndInv, LinksLog
        <4> QED BY <1>1, <3>1, <3>2, <4>2
      <3> QED BY <2>2, <3>1, <3>3 DEF Quiet, At
    <2>5. CASE FreeMessage
      <3>1. /\ phase' = phase /\ current' = next_message /\ current # None /\ phase = "recap"
            /\ Len(shown) > At - 1 /\ freed' = freed \cup {current} /\ next_message' = None
            /\ UNCHANGED <<pc, shown, logged>>
        <4>1. Cardinality(freed) = At - 1
          BY FS_CardinalityType DEF At, IndInv, WalkFollowsLog
        <4> QED BY <2>5, <4>1 DEF FreeMessage, history
      <3>2. Len(shown) = At
        BY <1>1, <3>1
      <3>3. Len(shown') # At'
        <4>1. WalkFollowsLog' /\ At \in 1..Len(logged) /\ current = logged[At]
          <5>1. At <= Len(logged) /\ current = logged[At] /\ At >= 1
            BY <3>1, FS_CardinalityType DEF IndInv, WalkFollowsLog, At
          <5> QED BY <1>1, <5>1, WalkStep
        <4>2. current \notin freed
          <5> SUFFICES ASSUME NEW i \in 1..(At - 1), logged[i] = logged[At] PROVE FALSE
            <6>1. freed = {logged[i] : i \in 1..(At - 1)}
              <7>1. Cardinality(freed) = At - 1
                BY FS_CardinalityType DEF At, IndInv, WalkFollowsLog
              <7> QED BY <7>1 DEF IndInv, WalkFollowsLog
            <6> QED BY <4>1, <6>1
          <5>1. i \in 1..Len(logged) /\ i # At
            BY <1>1, <4>1
          <5> QED BY <4>1, <5>1 DEF IndInv, LinksLog
        <4>3. At' = At + 1
          <5>1. Cardinality(freed') = Cardinality(freed) + 1 /\ Cardinality(freed) \in Nat
            BY <3>1, <4>2, FS_AddElement, FS_CardinalityType DEF IndInv, WalkFollowsLog
          <5> QED BY <5>1 DEF At
        <4> QED BY <1>1, <3>1, <3>2, <4>3
      <3> QED BY <2>2, <3>1, <3>2, <3>3 DEF Quiet
    <2>6. CASE FreeLogger \/ AcceptFails \/ Return \/ UNCHANGED vars
      BY <2>2, <2>6 DEF FreeLogger, AcceptFails, Return, vars, walk, history, Quiet, At
    <2> QED BY <1>3, <2>3, <2>4, <2>5, <2>6 DEF Next, Terminated, shutdown_server
  <1> QED BY <1>2, <1>3

(* Every reachable state of the server satisfies the inductive invariant.   *)
THEOREM Inductive == Spec => []IndInv
  <1>1. IndInv /\ [Next]_vars => IndInv'
    BY TypeStep, LockStep, AccountStep, LinksStep, WalkStep, QuietStep DEF IndInv
  <1> QED BY <1>1, InitInd, PTL DEF Spec

(* log_message links every message once, in order of arrival, and counts it,
   for any number of clients, whatever allocations, reads and accepts fail. *)
THEOREM LogIsSound == Spec => []LogSound
  <1>1. IndInv => LogSound
    <2> SUFFICES ASSUME IndInv PROVE LogSound
      OBVIOUS
    <2>1. TypeOK
      BY DEF IndInv
    <2>2. ASSUME lock = None, logged # <<>>
          PROVE  /\ head = Head(logged) /\ tail = Last(logged)
                 /\ next[tail] = None
                 /\ \A i \in 1..Len(logged) - 1 : next[logged[i]] = logged[i + 1]
                 /\ total = Len(logged)
      <3>1. \A c \in Clients : pc[c] \notin {"log", "tail", "count", "unlock"}
        BY <2>2, ServerAssumption DEF IndInv, HoldsLock
      <3>2. tail = logged[Len(logged)] /\ total = Len(logged)
        BY <2>2, <3>1 DEF IndInv, TailLags, Accounted, Linking
      <3>3. head = logged[1] /\ head = Head(logged) /\ tail = Last(logged)
        BY <2>2, <3>2 DEF IndInv, LinksLog, Histories, Last
      <3> QED BY <2>2, <3>2, <3>3 DEF IndInv, LinksLog
    <2> QED BY <2>1, <2>2 DEF LogSound, ListIsLog
  <1> QED BY <1>1, Inductive, PTL

(* shutdown_server shows messages in order of arrival, each once, however many
   handlers append behind its back; and one that starts after the last handler
   has returned shows them all and touches nothing it has freed.            *)
THEOREM RecapIsTruthful == Spec => []RecapTruthful
  <1>1. IndInv => RecapTruthful
    <2> SUFFICES ASSUME IndInv PROVE RecapTruthful
      OBVIOUS
    <2>1. /\ logged \in Seq(Clients) /\ shown \in Seq(Clients)
          /\ Len(shown) \in Nat /\ Len(logged) \in Nat /\ Len(shown) <= Len(logged)
          /\ \A i \in 1..Len(shown) : shown[i] = logged[i]
      BY DEF IndInv, Histories, WalkFollowsLog
    <2>2. RecapInOrder
      <3> DEFINE n == Len(shown)
      <3>1. \A i \in 1..n : shown[i] \in Clients /\ logged[i] \in Clients
        BY <2>1
      <3>2. /\ SubSeq(shown, 1, n) \in Seq(Clients) /\ SubSeq(logged, 1, n) \in Seq(Clients)
            /\ Len(SubSeq(shown, 1, n)) = n /\ Len(SubSeq(logged, 1, n)) = n
            /\ \A i \in 1..n : SubSeq(shown, 1, n)[i] = shown[i]
            /\ \A i \in 1..n : SubSeq(logged, 1, n)[i] = logged[i]
        BY <2>1, <3>1
      <3>3. SubSeq(shown, 1, n) = SubSeq(logged, 1, n)
        BY <2>1, <3>2, SeqEqual
      <3> QED BY <2>1, <3>3 DEF RecapInOrder, IsPrefix
    <2>3. QuietRecapComplete
      <3> SUFFICES ASSUME waited, phase \in {"leaving", "done"} PROVE shown = logged
        BY DEF IndInv, Quiet, QuietRecapComplete
      <3>1. Len(shown) = Len(logged)
        BY DEF IndInv, Quiet
      <3> QED BY <2>1, <3>1, SeqEqual
    <2> QED BY <2>2, <2>3 DEF RecapTruthful
  <1> QED BY <1>1, Inductive, PTL
=============================================================================
