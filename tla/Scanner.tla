------------------------------ MODULE Scanner ------------------------------
(***************************************************************************)
(* pthread/scanner.c: three threads share a flag byte, a mutex and ONE     *)
(* condition variable.  set_power raises the power bit, set_frequency      *)
(* waits for it and raises the frequency bit, read_value waits for both.   *)
(* Each of the two writers signals the condition once.                     *)
(***************************************************************************)
EXTENDS Pthreads, FiniteSets

CONSTANTS Power, Frequency, Reader,  \* the three threads
          MaxSpurious                \* bound on spurious wakeups

ScannerAssumption ==
  /\ Power \notin {Frequency, Reader, None} /\ Frequency \notin {Reader, None}
  /\ Reader # None
  /\ MaxSpurious \in Nat

VARIABLES
  owner,      \* holder of lock
  sleeping,   \* threads blocked on state_changed
  flags,      \* the set of bits of scanner->flags that are 1
  pc,         \* where each thread is
  spurious    \* spurious wakeups so far

vars == <<owner, sleeping, flags, pc, spurious>>

Threads == {Power, Frequency, Reader}
Bits == {"power", "frequency"}

Init ==
  /\ owner = None /\ sleeping = {}
  /\ flags = {}
  /\ pc = [t \in Threads |-> "lock"]
  /\ spurious = 0

\* The bits a thread's wait loop asks for; set_power has no loop.
Needs(t) == CASE t = Power -> {}
              [] t = Frequency -> {"power"}
              [] t = Reader -> Bits

Ready(t) == Needs(t) \subseteq flags

\* The byte with one more bit; the variant is = instead of |=.
OnlyBit(bit) == {bit}
WithBit(bit) == flags \cup {bit}

\* Announcing a state change; the variant does so only for the power bit.
AnnouncePower == IF flags = {} THEN CondSignal(sleeping) ELSE UNCHANGED sleeping
Announce == CondSignal(sleeping)

Enter(t) ==
  /\ Goto(pc, t, "lock", "check")
  /\ Lock(owner, t)
  /\ UNCHANGED <<sleeping, flags, spurious>>

Wait(t) ==
  /\ ~Ready(t)
  /\ Goto(pc, t, "check", "wait")
  /\ CondWait(owner, sleeping, t)
  /\ UNCHANGED <<flags, spurious>>

Wake(t) ==
  /\ Goto(pc, t, "wait", "check")
  /\ CondWake(owner, sleeping, t)
  /\ UNCHANGED <<sleeping, flags, spurious>>

\* set_power and set_frequency: raise the bit and signal.
Raise(t, bit) ==
  /\ Ready(t)
  /\ Goto(pc, t, "check", "unlock")
  /\ flags' = WithBit(bit)
  /\ Announce
  /\ UNCHANGED <<owner, spurious>>

ShowReading ==
  /\ Ready(Reader)
  /\ Goto(pc, Reader, "check", "unlock")
  /\ UNCHANGED <<owner, sleeping, flags, spurious>>

SpuriousWake(t) ==
  /\ t \in sleeping
  /\ spurious < MaxSpurious
  /\ spurious' = spurious + 1
  /\ sleeping' = sleeping \ {t}
  /\ UNCHANGED <<owner, flags, pc>>

Leave(t) ==
  /\ Goto(pc, t, "unlock", "done")
  /\ Unlock(owner, t)
  /\ UNCHANGED <<sleeping, flags, spurious>>
-----------------------------------------------------------------------------
set_power == Enter(Power) \/ Raise(Power, "power") \/ Leave(Power)
set_frequency == \/ Enter(Frequency) \/ Wait(Frequency) \/ Wake(Frequency)
                 \/ Raise(Frequency, "frequency") \/ Leave(Frequency)
read_value == Enter(Reader) \/ Wait(Reader) \/ Wake(Reader) \/ ShowReading \/ Leave(Reader)

\* main's joins.
Joined == \A t \in Threads : pc[t] = "done"
Terminated == Joined /\ UNCHANGED vars

Next ==
  \/ set_power \/ set_frequency \/ read_value
  \/ \E t \in Threads : SpuriousWake(t)
  \/ Terminated

Spec == Init /\ [][Next]_vars

\* Whoever can run eventually runs; spurious wakeups are never owed.
FairSpec == Spec /\ WF_vars(set_power) /\ WF_vars(set_frequency) /\ WF_vars(read_value)
-----------------------------------------------------------------------------
(* set_power, set_frequency and read_value set no bit but POWER_BIT and
   FREQUENCY_BIT, and only the two waiters sleep.                           *)
TypeOK ==
  /\ owner \in Threads \cup {None}
  /\ sleeping \subseteq {Frequency, Reader}
  /\ flags \subseteq Bits
  /\ pc \in [Threads -> {"lock", "check", "wait", "unlock", "done"}]
  /\ spurious \in 0..MaxSpurious

(* read_value has reported only once the power and the frequency were set,
   in that order (the loops re-check after every wakeup).                   *)
ReportComplete ==
  /\ pc[Reader] \in {"unlock", "done"} => flags = Bits
  /\ "frequency" \in flags => pc[Power] \in {"unlock", "done"} /\ "power" \in flags

(* Once set_frequency has raised its bit the program ends: by then only
   read_value can be asleep, so the single signal reaches it.               *)
FrequencyEnds == (flags = Bits) ~> Joined

(* set_power's single signal can be lost in one situation only: set_frequency
   and read_value were asleep together.  Otherwise the program ends.        *)
OnlyCrowdHangs == <>Joined \/ <>({Frequency, Reader} \subseteq sleeping)

(* What the comments say of the pair set_power/set_frequency ("wait until
   the scanner is powered on"): power leads to a locked frequency.          *)
PowerReachesFrequency == ("power" \in flags) ~> ("frequency" \in flags)
=============================================================================
