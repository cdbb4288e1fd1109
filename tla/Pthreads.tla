------------------------------ MODULE Pthreads ------------------------------
(***************************************************************************)
(* The POSIX primitives as the programs of pthread/, multithreading/,      *)
(* sockets/ and recap/ use them.  The arguments m, s and sem stand for     *)
(* state variables of the component: the holder of a mutex, the set of     *)
(* threads blocked on a condition variable, the value of a semaphore.      *)
(***************************************************************************)
EXTENDS Naturals

CONSTANT None   \* "no thread"

\* pthread_mutex_lock returns in thread t; pthread_mutex_unlock by t.
Lock(m, t) == m = None /\ m' = t
Unlock(m, t) == m = t /\ m' = None

\* pthread_cond_wait: release the mutex and block, in one step.
CondWait(m, s, t) == Unlock(m, t) /\ s' = s \cup {t}

\* pthread_cond_wait returns: t is no longer blocked and has the mutex again.
CondWake(m, s, t) == t \notin s /\ Lock(m, t)

\* pthread_cond_signal unblocks one blocked thread, if there is one.
CondSignal(s) == \/ s = {} /\ s' = s
                 \/ \E t \in s : s' = s \ {t}

\* pthread_cond_broadcast unblocks them all.
CondBroadcast(s) == s' = {}

SemWait(sem) == sem > 0 /\ sem' = sem - 1
SemPost(sem) == sem' = sem + 1

\* Thread t moves from one place of its program to another.
Goto(pc, t, from, to) == pc[t] = from /\ pc' = [pc EXCEPT ![t] = to]
=============================================================================
