--------------------------- MODULE MonitorProofs ---------------------------
(***************************************************************************)
(* Proofs about the programs built on one mutex and its conditions, for    *)
(* any number of spurious wakeups.                                         *)
(***************************************************************************)
EXTENDS MCMonitors, FiniteSetTheorems, SequenceTheorems, TLAPS
-----------------------------------------------------------------------------
(* The life of the pool. *)

\* Whoever looks at the state byte, or writes it, holds the mutex.
Inside == {"check", "set", "leaveSet"}
HoldsMutex ==
  /\ \A t \in Threads : pc[t] \in Inside <=> owner = t
  /\ pc[Cleaner] \in {"lockSet", "set", "leaveSet", "announce", "done"}
  /\ pc[Opener] \in {"lock", "check", "wait", "leaveSet", "done"}

\* A bit is up from the moment its stage has raised it; fill and open_pool
\* have seen the bits they act on.
Passed == {"leaveSet", "announce", "done"}
BitsFollowStages ==
  /\ "clean" \in state <=> pc[Cleaner] \in Passed
  /\ "full" \in state <=> pc[Filler] \in Passed
  /\ "open" \in state <=> pc[Opener] \in Passed
  /\ pc[Filler] \in {"lockSet", "set"} \cup Passed => "clean" \in state
  /\ pc[Opener] \in Passed => {"clean", "full"} \subseteq state
  /\ ~mismatch

\* Who sleeps waits, and is owed a broadcast as soon as its bits are up.
SleepersWait ==
  /\ Filler \in onClean => pc[Filler] = "wait"
  /\ Opener \in onFull => pc[Opener] = "wait"
  /\ BroadcastOwed

PoolInd == TypeOK /\ HoldsMutex /\ BitsFollowStages /\ SleepersWait

(* The pool as main allocates it satisfies the inductive invariant.         *)
LEMMA PoolInit == Init => PoolInd
  <1> SUFFICES ASSUME Init PROVE PoolInd
    OBVIOUS
  <1> USE LifecycleAssumption DEF Init, Threads
  <1>1. TypeOK
    <2>1. pc \in [Threads -> {"lock", "lockSet"}]
      OBVIOUS
    <2>2. spurious \in 0..MaxSpurious
      OBVIOUS
    <2> QED BY <2>1, <2>2 DEF TypeOK
  <1>2. HoldsMutex
    BY DEF HoldsMutex, Inside
  <1>3. BitsFollowStages
    BY DEF BitsFollowStages, Passed
  <1>4. SleepersWait
    BY DEF SleepersWait, BroadcastOwed
  <1> QED BY <1>1, <1>2, <1>3, <1>4 DEF PoolInd

(* clean preserves it.                                                      *)
LEMMA CleanInd == PoolInd /\ clean => PoolInd'
  <1> SUFFICES ASSUME PoolInd, clean PROVE PoolInd'
    OBVIOUS
  <1> USE LifecycleAssumption
      DEF PoolInd, TypeOK, HoldsMutex, Inside, BitsFollowStages, Passed,
          SleepersWait, BroadcastOwed, MayFill, MayOpen, Threads, ReadyMask,
          Goto, Lock, Unlock
  <1>1. CASE Enter(Cleaner, "lockSet", "set")
    BY <1>1 DEF Enter
  <1>2. CASE Raise(Cleaner, "clean")
    BY <1>2 DEF Raise, Raised
  <1>3. CASE Leave(Cleaner, "leaveSet", "announce")
    BY <1>3 DEF Leave
  <1>4. CASE CleanBroadcast
    BY <1>4 DEF CleanBroadcast, CondBroadcast
  <1> QED BY <1>1, <1>2, <1>3, <1>4 DEF clean

(* fill preserves it.                                                       *)
LEMMA FillInd == PoolInd /\ fill => PoolInd'
  <1> SUFFICES ASSUME PoolInd, fill PROVE PoolInd'
    OBVIOUS
  <1> USE LifecycleAssumption
      DEF PoolInd, TypeOK, HoldsMutex, Inside, BitsFollowStages, Passed,
          SleepersWait, BroadcastOwed, MayFill, MayOpen, Threads, ReadyMask,
          Goto, Lock, Unlock
  <1>1. CASE Enter(Filler, "lock", "check")
    BY <1>1 DEF Enter
  <1>2. CASE FillWait
    <2>1. TypeOK'
      <3>1. owner' = None /\ onClean' \subseteq {Filler}
        BY <1>2 DEF FillWait, CondWait
      <3> QED BY <1>2, <3>1 DEF FillWait
    <2>2. HoldsMutex'
      BY <1>2 DEF FillWait, CondWait
    <2>3. BitsFollowStages'
      BY <1>2 DEF FillWait
    <2>4. SleepersWait'
      BY <1>2 DEF FillWait, CondWait
    <2> QED BY <2>1, <2>2, <2>3, <2>4
  <1>3. CASE FillWake
    BY <1>3 DEF FillWake, CondWake
  <1>4. CASE FillGo
    BY <1>4 DEF FillGo, Leave
  <1>5. CASE Raise(Filler, "full")
    BY <1>5 DEF Raise, Raised
  <1>6. CASE Leave(Filler, "leaveSet", "announce")
    BY <1>6 DEF Leave
  <1>7. CASE FillBroadcast
    BY <1>7 DEF FillBroadcast, AnnounceFull, CondBroadcast
  <1>8. CASE Enter(Filler, "lockSet", "set")
    BY <1>8 DEF Enter
  <1> QED BY <1>1, <1>2, <1>3, <1>4, <1>5, <1>6, <1>7, <1>8 DEF fill

(* open_pool preserves it.                                                  *)
LEMMA OpenInd == PoolInd /\ open_pool => PoolInd'
  <1> SUFFICES ASSUME PoolInd, open_pool PROVE PoolInd'
    OBVIOUS
  <1> USE LifecycleAssumption
      DEF PoolInd, TypeOK, HoldsMutex, Inside, BitsFollowStages, Passed,
          SleepersWait, BroadcastOwed, MayFill, MayOpen, Threads, ReadyMask,
          Goto, Lock, Unlock
  <1>1. CASE Enter(Opener, "lock", "check")
    BY <1>1 DEF Enter
  <1>2. CASE OpenWait
    BY <1>2 DEF OpenWait, CondWait
  <1>3. CASE OpenWake
    BY <1>3 DEF OpenWake, CondWake
  <1>4. CASE OpenUp
    <2>1. state' = {"clean", "full", "open"}
      BY <1>4 DEF OpenUp, Raised
    <2>2. ~mismatch'
      BY <1>4, <2>1 DEF OpenUp
    <2>3. TypeOK' /\ HoldsMutex'
      BY <1>4, <2>1, <2>2 DEF OpenUp
    <2>4. BitsFollowStages'
      BY <1>4, <2>1, <2>2 DEF OpenUp, Raised
    <2>5. SleepersWait'
      BY <1>4, <2>1 DEF OpenUp
    <2> QED BY <2>3, <2>4, <2>5
  <1>5. CASE Leave(Opener, "leaveSet", "done")
    BY <1>5 DEF Leave
  <1> QED BY <1>1, <1>2, <1>3, <1>4, <1>5 DEF open_pool

(* Every reachable state of the pool satisfies the inductive invariant.     *)
LEMMA PoolInductive == Spec => []PoolInd
  <1>1. PoolInd /\ [Next]_vars => PoolInd'
    <2> SUFFICES ASSUME PoolInd, [Next]_vars PROVE PoolInd'
      OBVIOUS
    <2> USE LifecycleAssumption
        DEF PoolInd, TypeOK, HoldsMutex, BitsFollowStages, SleepersWait,
            BroadcastOwed, MayFill, MayOpen
    <2>1. CASE SpuriousWake
      BY <2>1 DEF SpuriousWake
    <2>2. CASE Free
      BY <2>2 DEF Free
    <2>3. CASE UNCHANGED vars
      BY <2>3 DEF vars
    <2> QED
      BY <2>1, <2>2, <2>3, CleanInd, FillInd, OpenInd DEF Next, Terminated
  <1> QED BY <1>1, PoolInit, PTL DEF Spec

(* clean, fill and open_pool keep the order of their stages, and no sleeper
   whose bits are up is left without a broadcast to come, for any number of
   spurious wakeups, although each broadcast follows the unlock.            *)
THEOREM StagesKept == Spec => []PoolStages
  <1>1. PoolInd => PoolStages
    BY DEF PoolInd, PoolStages, StagesInOrder, TypeOK, HoldsMutex,
           BitsFollowStages, SleepersWait, ReadyMask, Passed
  <1> QED BY <1>1, PoolInductive, PTL
-----------------------------------------------------------------------------
(* The scanner. *)

\* Who is inside holds the mutex; a bit is up as soon as its writer has
\* raised it, and the frequency comes after the power.
ScanInd ==
  /\ Scan!TypeOK
  /\ \A t \in Scan!Threads : sPc[t] \in {"check", "unlock"} <=> sOwner = t
  /\ "power" \in sFlags <=> sPc[Power] \in {"unlock", "done"}
  /\ "frequency" \in sFlags <=> sPc[Frequency] \in {"unlock", "done"}
  /\ "frequency" \in sFlags => "power" \in sFlags
  /\ sPc[Reader] \in {"unlock", "done"} => sFlags = Scan!Bits

(* A scanner as main creates it satisfies its inductive invariant.          *)
LEMMA ScanInit == Scan!Init => ScanInd
  <1> SUFFICES ASSUME Scan!Init PROVE ScanInd
    OBVIOUS
  <1> USE ScanAssumption DEF Scan!ScannerAssumption, Scan!Init, Scan!Threads, Scan!Bits
  <1>1. Scan!TypeOK
    BY DEF Scan!TypeOK
  <1> QED BY <1>1 DEF ScanInd

(* set_power, set_frequency and read_value preserve it.                     *)
LEMMA ScanStep == ScanInd /\ [Scan!Next]_(Scan!vars) => ScanInd'
  <1> SUFFICES ASSUME ScanInd, [Scan!Next]_(Scan!vars) PROVE ScanInd'
    OBVIOUS
  <1> USE ScanAssumption
      DEF Scan!ScannerAssumption, ScanInd, Scan!TypeOK, Scan!Threads, Scan!Bits,
          Scan!Goto, Scan!Lock, Scan!Unlock
  <1>1. ASSUME NEW t \in Scan!Threads, Scan!Enter(t) PROVE ScanInd'
    BY <1>1 DEF Scan!Enter
  <1>2. ASSUME NEW t \in {Frequency, Reader}, Scan!Wait(t) PROVE ScanInd'
    BY <1>2 DEF Scan!Wait, Scan!CondWait
  <1>3. ASSUME NEW t \in {Frequency, Reader}, Scan!Wake(t) PROVE ScanInd'
    BY <1>3 DEF Scan!Wake, Scan!CondWake
  <1>4. CASE Scan!Raise(Power, "power")
    BY <1>4 DEF Scan!Raise, Scan!WithBit, Scan!Announce, Scan!CondSignal
  <1>5. CASE Scan!Raise(Frequency, "frequency")
    BY <1>5 DEF Scan!Raise, Scan!WithBit, Scan!Announce, Scan!CondSignal, Scan!Ready, Scan!Needs
  <1>6. CASE Scan!ShowReading
    BY <1>6 DEF Scan!ShowReading, Scan!Ready, Scan!Needs
  <1>7. ASSUME NEW t \in Scan!Threads, Scan!SpuriousWake(t) PROVE ScanInd'
    BY <1>7 DEF Scan!SpuriousWake
  <1>8. ASSUME NEW t \in Scan!Threads, Scan!Leave(t) PROVE ScanInd'
    BY <1>8 DEF Scan!Leave
  <1>9. CASE UNCHANGED Scan!vars
    BY <1>9 DEF Scan!vars
  <1> QED
    BY <1>1, <1>2, <1>3, <1>4, <1>5, <1>6, <1>7, <1>8, <1>9
    DEF Scan!Next, Scan!Terminated, Scan!set_power,
        Scan!set_frequency, Scan!read_value

(* scanner.c's reader reports only a scanner that has its power and its
   frequency, set in that order, whatever the spurious wakeups: the one
   condition for two predicates costs liveness, never this.                 *)
THEOREM ScannerReports == Scan!Spec => []ReportComplete
  <1>1. ScanInd => ReportComplete
    BY ScanAssumption DEF ScanInd, ReportComplete, Scan!ReportComplete, Scan!Threads
  <1> QED BY <1>1, ScanInit, ScanStep, PTL DEF Scan!Spec
-----------------------------------------------------------------------------
(* The water pump. *)

\* The mutex, and where each thread can be; nobody sets a bit but EMPTY, so
\* nobody waits for READY_STATE.
PumpPlaces ==
  /\ \A t \in Pump!Threads : wPc[t] \in {"check", "unlock", "drain"} <=> wOwner = t
  /\ wPc[Device] \in {"lock", "check", "unlock", "signal", "done"}
  /\ wPc[User] \in {"lock", "check", "unlock", "test", "relock", "drain", "done"}
  /\ wPc[Report] \in {"lock", "check", "wait", "unlock", "done"}
  /\ wState \subseteq {"empty"} /\ wReady = {}

\* fill_water fills a tank nobody has drained from, in one critical section;
\* from then on what was poured and what is left make a tank.
PumpBalance ==
  /\ wPc[Device] = "lock" => Pump!Empty /\ wLevel = 0 /\ wPoured = 0
  /\ wPc[Device] = "check" =>
       wPoured = 0 /\ IF Pump!Empty THEN wLevel < MaxLevel ELSE wLevel = MaxLevel
  /\ wPc[Device] \in {"unlock", "signal", "done"} => wLevel + wPoured = MaxLevel
  /\ wPc[Device] # "check" => (Pump!Empty <=> wLevel = 0)

\* get_water has seen water that only it can take; it stops at its first test
\* or with the last of the water.
PumpDraining ==
  /\ wPc[User] \in {"relock", "drain"} => ~Pump!Empty /\ wLevel > 0
  /\ wPc[User] = "done" => wPoured \in {0, MaxLevel}

PumpInd == Pump!TypeOK /\ PumpPlaces /\ PumpBalance /\ PumpDraining

(* An empty tank with its EMPTY bit set satisfies the inductive invariant.  *)
LEMMA PumpInit == Pump!Init => PumpInd
  <1> SUFFICES ASSUME Pump!Init PROVE PumpInd
    OBVIOUS
  <1> USE PumpAssumption
      DEF Pump!PumpAssumption, Pump!Init, Pump!Threads, Pump!DefaultState, Pump!Empty
  <1>1. Pump!TypeOK
    BY DEF Pump!TypeOK
  <1>2. PumpPlaces
    BY DEF PumpPlaces
  <1>3. PumpBalance /\ PumpDraining
    BY DEF PumpBalance, PumpDraining
  <1> QED BY <1>1, <1>2, <1>3 DEF PumpInd

(* fill_water, get_water and show_report preserve it.                       *)
LEMMA PumpStep == PumpInd /\ [Pump!Next]_(Pump!vars) => PumpInd'
  <1> SUFFICES ASSUME PumpInd, [Pump!Next]_(Pump!vars) PROVE PumpInd'
    OBVIOUS
  <1> USE PumpAssumption
      DEF Pump!PumpAssumption, PumpInd, Pump!TypeOK, PumpPlaces, PumpBalance, PumpDraining,
          Pump!Threads, Pump!Goto, Pump!Lock, Pump!Unlock, Pump!Empty
  <1>1. ASSUME NEW t \in Pump!Threads, Pump!Enter(t) PROVE PumpInd'
    BY <1>1 DEF Pump!Enter
  <1>2. CASE Pump!FillMore
    <2>1. wReady' = wReady
      BY <1>2 DEF Pump!FillMore, Pump!CondSignal
    <2>2. /\ wLevel' = wLevel + 1 /\ wLevel < MaxLevel /\ wPoured' = wPoured /\ wPoured = 0
          /\ wPc[Device] = "check" /\ wPc' = wPc /\ wOwner' = wOwner
          /\ wLevelWait' = wLevelWait /\ wSpurious' = wSpurious
      BY <1>2 DEF Pump!FillMore
    <2>3. CASE wLevel + 1 >= MaxLevel
      <3>1. wLevel' = MaxLevel /\ wState' = wState \ {"empty"}
        BY <1>2, <2>2, <2>3 DEF Pump!FillMore, Pump!FullAt
      <3> QED BY <2>1, <2>2, <3>1
    <2>4. CASE wLevel + 1 < MaxLevel
      <3>1. wLevel' < MaxLevel /\ wState' = wState
        BY <1>2, <2>2, <2>4 DEF Pump!FillMore, Pump!FullAt
      <3>2. "empty" \in wState
        BY <1>2 DEF Pump!FillMore
      <3> QED BY <2>1, <2>2, <3>1, <3>2
    <2> QED BY <2>2, <2>3, <2>4
  <1>3. CASE Pump!FillEnd
    BY <1>3 DEF Pump!FillEnd
  <1>4. CASE Pump!Leave(Device, "signal")
    BY <1>4 DEF Pump!Leave
  <1>5. CASE Pump!SignalReady
    BY <1>5 DEF Pump!SignalReady, Pump!CondSignal
  <1>6. CASE Pump!UserReady
    BY <1>6 DEF Pump!UserReady
  <1>7. CASE Pump!Leave(User, "test")
    BY <1>7 DEF Pump!Leave
  <1>8. CASE Pump!TestEmpty
    BY <1>8 DEF Pump!TestEmpty
  <1>9. CASE Pump!Relock
    BY <1>9 DEF Pump!Relock
  <1>10. CASE Pump!Drain
    BY <1>10 DEF Pump!Drain, Pump!Drained
  <1>11. CASE Pump!ReportWait
    BY <1>11 DEF Pump!ReportWait, Pump!CondWait
  <1>12. CASE Pump!ReportWake
    BY <1>12 DEF Pump!ReportWake, Pump!CondWake
  <1>13. CASE Pump!ReportShow
    BY <1>13 DEF Pump!ReportShow
  <1>14. CASE Pump!Leave(Report, "done")
    BY <1>14 DEF Pump!Leave
  <1>15. CASE Pump!ReportSpurious
    BY <1>15 DEF Pump!ReportSpurious
  <1>16. CASE UNCHANGED Pump!vars
    BY <1>16 DEF Pump!vars
  <1> QED
    BY <1>1, <1>2, <1>3, <1>4, <1>5, <1>6, <1>7, <1>8, <1>9, <1>10, <1>11, <1>12,
       <1>13, <1>14, <1>15, <1>16
    DEF Pump!Next, Pump!fill_water, Pump!get_water, Pump!show_report, Pump!Terminated

(* water_pump.c's unlocked tests of the EMPTY bit are harmless for a tank of
   any size: the bit is true whenever the mutex is free, no uint8_t wraps, and
   the user ends with the whole tank or nothing.                            *)
THEOREM PumpKeepsTruth == Pump!Spec => []TankTruthful
  <1>1. PumpInd => TankTruthful
    BY PumpAssumption
    DEF PumpInd, TankTruthful, Pump!EmptyBitTruthful, Pump!DrainFindsWater,
        Pump!AllOrNothing, Pump!PumpAssumption, PumpPlaces, PumpBalance, PumpDraining,
        Pump!Threads
  <1> QED BY <1>1, PumpInit, PumpStep, PTL DEF Pump!Spec
-----------------------------------------------------------------------------
(* The timed wait. *)

\* The deadline is absolute and within reach; a wait that timed out did so
\* after it, and a verdict goes with the last return code.
TimedInd ==
  /\ Timed!TypeOK
  /\ IF tWorker = "clock" THEN tNow + Patience <= Horizon /\ tRc = "ok"
                          ELSE tDeadline = tAskedAt + Patience
  /\ tRc = "ETIMEDOUT" => tNow >= tDeadline
  /\ tWorker = "fatal" => tRc = "ETIMEDOUT"
  /\ tWorker = "success" => tReady

(* Before the worker reads the clock the inductive invariant holds.         *)
LEMMA TimedInit == Timed!Init => TimedInd
  <1> SUFFICES ASSUME Timed!Init PROVE TimedInd
    OBVIOUS
  <1>1. Timed!TypeOK
    <2>1. /\ tNow \in 0..Horizon /\ tAskedAt \in 0..Horizon /\ tDeadline \in 0..Horizon
          /\ tSpurious \in 0..MaxSpurious
      BY TimedAssumption DEF Timed!TimedAssumption, Timed!Init
    <2> QED BY <2>1 DEF Timed!Init, Timed!TypeOK
  <1>2. tNow + Patience <= Horizon
    BY TimedAssumption DEF Timed!TimedAssumption, Timed!Init
  <1> QED BY <1>1, <1>2 DEF Timed!Init, TimedInd

(* The clock, api_worker and main preserve it.                              *)
LEMMA TimedStep == TimedInd /\ [Timed!Next]_(Timed!vars) => TimedInd'
  <1> SUFFICES ASSUME TimedInd, [Timed!Next]_(Timed!vars) PROVE TimedInd'
    OBVIOUS
  <1> USE TimedAssumption
      DEF Timed!TimedAssumption, TimedInd, Timed!TypeOK, Timed!WorkerStep, Timed!MainStep,
          Timed!Lock, Timed!Unlock, Timed!hist
  <1>1. CASE Timed!Tick
    BY <1>1 DEF Timed!Tick
  <1>2. CASE Timed!SpuriousWake
    BY <1>2 DEF Timed!SpuriousWake
  <1>3. CASE Timed!SetDeadline
    BY <1>3 DEF Timed!SetDeadline, Timed!After
  <1>4. CASE Timed!WorkerLock
    BY <1>4 DEF Timed!WorkerLock
  <1>5. CASE Timed!Wait
    BY <1>5 DEF Timed!Wait, Timed!CondWait
  <1>6. CASE Timed!TimeOut
    BY <1>6 DEF Timed!TimeOut, Timed!Expired
  <1>7. CASE Timed!Signalled
    BY <1>7 DEF Timed!Signalled
  <1>8. CASE Timed!Retake
    BY <1>8 DEF Timed!Retake
  <1>9. CASE Timed!Conclude
    BY <1>9 DEF Timed!Conclude, Timed!MustWait, Timed!Verdict, Timed!Release
  <1>10. CASE Timed!MainLock
    BY <1>10 DEF Timed!MainLock
  <1>11. CASE Timed!MainRaise
    BY <1>11 DEF Timed!MainRaise, Timed!CondSignal
  <1>12. CASE Timed!MainUnlock
    BY <1>12 DEF Timed!MainUnlock
  <1>13. CASE Timed!MainJoin
    BY <1>13 DEF Timed!MainJoin
  <1>14. CASE UNCHANGED Timed!vars
    BY <1>14 DEF Timed!vars
  <1> QED
    BY <1>1, <1>2, <1>3, <1>4, <1>5, <1>6, <1>7, <1>8, <1>9, <1>10, <1>11, <1>12,
       <1>13, <1>14
    DEF Timed!Next, Timed!api_worker, Timed!main, Timed!Terminated

(* api_worker's loop over the flag and the return code is right for any
   patience: whatever woke it and however late it got the mutex back, it
   claims success only with data and gives up only after its patience.      *)
THEOREM WorkerJustified == Timed!Spec => []VerdictJustified
  <1>1. TimedInd => VerdictJustified
    BY TimedAssumption
    DEF Timed!TimedAssumption, TimedInd, VerdictJustified, Timed!VerdictJustified,
        Timed!TypeOK
  <1> QED BY <1>1, TimedInit, TimedStep, PTL DEF Timed!Spec
-----------------------------------------------------------------------------
(* The reconciliation. *)

\* The lists are extracted and marked front to back ...
RecoMarked(s) ==
  /\ rExtract[s] = "start" => rSize[s] = 0 /\ rCurrent[s] = 1 /\ rReady[s] = {}
  /\ rExtract[s] = "add" =>
       /\ rQuantity[s] <= ListCapacity /\ rSize[s] <= rQuantity[s]
       /\ rCurrent[s] = 1 /\ rReady[s] = {}
  /\ rExtract[s] = "mark" =>
       /\ rQuantity[s] <= ListCapacity /\ rSize[s] = rQuantity[s]
       /\ rCurrent[s] <= rSize[s] + 1 /\ rReady[s] = 1 .. rCurrent[s] - 1
  /\ rExtract[s] = "done" /\ rQuantity[s] <= ListCapacity =>
       rSize[s] = rQuantity[s] /\ rReady[s] = 1 .. rSize[s]

\* ... and counted when they are finished; a refused list is never counted.
Finished(s) == IF rExtract[s] = "done" /\ rQuantity[s] <= ListCapacity THEN 1 ELSE 0
RecoCounted ==
  /\ rExtracted = Finished(1) + Finished(2)
  /\ rStart \in {"go", "done"} => rExtracted = 2
  /\ rStart = "asleep" => rExtracted < 2

\* The printer counts a list when it has reached its end, unless it is empty.
Counts(s) == IF rSize[s] = 0 THEN 0 ELSE 1
RecoPrinted ==
  /\ rStart \in {"await", "asleep"} => rPrinted = 0 /\ rPrinting = 1 /\ rNode = 1
  /\ rStart = "go" /\ rPrinting = 1 => rPrinted = 0 /\ rNode <= rSize[1] + 1
  /\ rStart = "go" /\ rPrinting = 2 => rPrinted = Counts(1) /\ rNode <= rSize[2] + 1
  /\ rStart = "done" =>
       rPrinted = Counts(1) + Counts(2) /\ rPrinting = 2 /\ rNode = rSize[2] + 1
  /\ rProcess \in {"go", "done"} => rPrinted = 2
  /\ rProcess = "asleep" => rPrinted < 2

RecoInd ==
  Reco!TypeOK /\ (\A s \in Reco!Sources : RecoMarked(s)) /\ RecoCounted /\ RecoPrinted

(* Two empty lists satisfy the inductive invariant.                         *)
LEMMA RecoInit == Reco!Init => RecoInd
  <1> SUFFICES ASSUME Reco!Init PROVE RecoInd
    OBVIOUS
  <1> USE RecoAssumption DEF Reco!RecoAssumption, Reco!Init, Reco!Sources
  <1>1. Reco!TypeOK
    BY DEF Reco!TypeOK
  <1>2. \A s \in Reco!Sources : RecoMarked(s)
    BY DEF RecoMarked
  <1>3. RecoCounted /\ RecoPrinted
    BY DEF RecoCounted, RecoPrinted, Finished, Counts
  <1> QED BY <1>1, <1>2, <1>3 DEF RecoInd

(* extract preserves it.                                                    *)
LEMMA ExtractInd ==
  ASSUME RecoInd, NEW s \in Reco!Sources, Reco!extract(s)
  PROVE  RecoInd'
  <1> USE RecoAssumption DEF Reco!RecoAssumption, Reco!Sources, Reco!At, Reco!printer
  <1>a. Reco!TypeOK /\ (\A u \in Reco!Sources : RecoMarked(u)) /\ RecoCounted /\ RecoPrinted
    BY DEF RecoInd
  \* While one extractor is at work nothing is printed.
  <1>b. rExtract[s] # "done" => rStart \in {"await", "asleep"} /\ rExtracted < 2
    BY <1>a DEF RecoCounted, Finished, Reco!TypeOK
  <1>c. ASSUME rStart' \in {"await", "asleep"}, rExtract[s] # "done",
               UNCHANGED <<rPrinted, rPrinting, rNode, rProcess>>
        PROVE  RecoPrinted'
    BY <1>a, <1>b, <1>c DEF RecoPrinted
  <1>d. ASSUME NEW to \in {"add", "mark"}, rExtract[s] # "done",
               rExtract' = [rExtract EXCEPT ![s] = to],
               UNCHANGED <<rQuantity, rExtracted, rStart>>
        PROVE  RecoCounted'
    BY <1>a, <1>d DEF RecoCounted, Finished, Reco!TypeOK
  <1>n. \A u \in Reco!Sources :
          rQuantity[u] \in Nat /\ rSize[u] \in Nat /\ rCurrent[u] \in Nat \ {0}
    <2> SUFFICES ASSUME NEW u \in Reco!Sources
                 PROVE  rQuantity[u] \in Nat /\ rSize[u] \in Nat /\ rCurrent[u] \in Nat \ {0}
      OBVIOUS
    <2>1. rQuantity[u] \in Quantities /\ Quantities \subseteq Nat
      BY <1>a DEF Reco!TypeOK
    <2>2. rQuantity[u] \in Nat
      BY <2>1, Zenon
    <2>3. rSize[u] \in 0 .. ListCapacity
      BY <1>a DEF Reco!TypeOK
    <2>4. rCurrent[u] \in 1 .. ListCapacity + 1
      BY <1>a DEF Reco!TypeOK
    <2>5. rSize[u] \in Nat
      BY <2>3
    <2>6. rCurrent[u] \in Nat \ {0}
      BY <2>4
    <2> QED BY <2>2, <2>5, <2>6
  <1>1. CASE Reco!ExtractStart(s)
    <2> USE <1>1 DEF Reco!ExtractStart
    <2>1. Reco!TypeOK'
      BY <1>a DEF Reco!TypeOK
    <2>2. \A u \in Reco!Sources : RecoMarked(u)'
      <3>s. RecoMarked(s)'
        BY <1>a, <1>n DEF RecoMarked, Reco!TypeOK
      <3>o. ASSUME NEW u \in Reco!Sources, u # s PROVE RecoMarked(u)'
        BY <1>a, <3>o DEF RecoMarked, Reco!TypeOK
      <3> QED BY <3>s, <3>o
    <2>3. RecoCounted'
      BY <1>d
    <2>4. RecoPrinted'
      BY <1>b, <1>c
    <2> QED BY <2>1, <2>2, <2>3, <2>4 DEF RecoInd
  <1>2. CASE Reco!ExtractRefuse(s)
    <2> USE <1>2 DEF Reco!ExtractRefuse, Reco!Fail
    <2>1. Reco!TypeOK'
      BY <1>a DEF Reco!TypeOK
    <2>2. \A u \in Reco!Sources : RecoMarked(u)'
      <3>s. RecoMarked(s)'
        BY <1>a, <1>n DEF RecoMarked, Reco!TypeOK
      <3>o. ASSUME NEW u \in Reco!Sources, u # s PROVE RecoMarked(u)'
        BY <1>a, <3>o DEF RecoMarked, Reco!TypeOK
      <3> QED BY <3>s, <3>o
    <2>3. RecoCounted'
      <3>1. \A u \in Reco!Sources : Finished(u)' = Finished(u)
        BY <1>a, <1>n DEF Finished, Reco!TypeOK
      <3> QED BY <1>a, <3>1 DEF RecoCounted
    <2>4. RecoPrinted'
      BY <1>b, <1>c
    <2> QED BY <2>1, <2>2, <2>3, <2>4 DEF RecoInd
  <1>3. CASE Reco!AddData(s)
    <2> USE <1>3 DEF Reco!AddData
    <2>1. Reco!TypeOK'
      <3>1. rSize[s] + 1 \in 0 .. ListCapacity
        BY <1>a, <1>n DEF RecoMarked
      <3> QED BY <1>a, <3>1 DEF Reco!TypeOK
    <2>2. \A u \in Reco!Sources : RecoMarked(u)'
      <3>s. RecoMarked(s)'
        BY <1>a, <1>n DEF RecoMarked, Reco!TypeOK
      <3>o. ASSUME NEW u \in Reco!Sources, u # s PROVE RecoMarked(u)'
        BY <1>a, <3>o DEF RecoMarked, Reco!TypeOK
      <3> QED BY <3>s, <3>o
    <2>3. RecoCounted'
      BY <1>d
    <2>4. RecoPrinted'
      BY <1>b, <1>c
    <2> QED BY <2>1, <2>2, <2>3, <2>4 DEF RecoInd
  <1>4. CASE Reco!StartMarking(s)
    <2> USE <1>4 DEF Reco!StartMarking
    <2>1. Reco!TypeOK'
      BY <1>a DEF Reco!TypeOK
    <2>2. \A u \in Reco!Sources : RecoMarked(u)'
      <3>1. rSize[s] = rQuantity[s] /\ rReady[s] = 1 .. rCurrent[s] - 1
        <4>1. rSize[s] <= rQuantity[s] /\ rCurrent[s] = 1 /\ rReady[s] = {}
          BY <1>a DEF RecoMarked
        <4>2. 1 .. 1 - 1 = {}
          OBVIOUS
        <4> QED BY <1>n, <4>1, <4>2
      <3>s. RecoMarked(s)'
        BY <1>a, <1>n, <3>1 DEF RecoMarked, Reco!TypeOK
      <3>o. ASSUME NEW u \in Reco!Sources, u # s PROVE RecoMarked(u)'
        BY <1>a, <3>o DEF RecoMarked, Reco!TypeOK
      <3> QED BY <3>s, <3>o
    <2>3. RecoCounted'
      BY <1>d
    <2>4. RecoPrinted'
      BY <1>b, <1>c
    <2> QED BY <2>1, <2>2, <2>3, <2>4 DEF RecoInd
  <1>5. CASE Reco!MarkReady(s)
    <2> USE <1>5 DEF Reco!MarkReady
    <2>1. Reco!TypeOK'
      <3>1. rCurrent[s] \in 1 .. ListCapacity
        BY <1>a DEF Reco!TypeOK
      <3>2. rReady[s] \cup {rCurrent[s]} \in SUBSET (1 .. ListCapacity)
        BY <1>a, <3>1 DEF Reco!TypeOK
      <3> QED BY <1>a, <3>1, <3>2 DEF Reco!TypeOK
    <2>2. \A u \in Reco!Sources : RecoMarked(u)'
      <3>1. rReady[s] = 1 .. rCurrent[s] - 1 /\ rCurrent[s] \in Nat \ {0}
        BY <1>a, <1>n DEF RecoMarked
      <3>2. rReady'[s] = 1 .. rCurrent'[s] - 1 /\ rCurrent'[s] = rCurrent[s] + 1
        <4>1. (1 .. rCurrent[s] - 1) \cup {rCurrent[s]} = 1 .. rCurrent[s]
          BY <3>1
        <4>2. rReady'[s] = rReady[s] \cup {rCurrent[s]} /\ rCurrent'[s] = rCurrent[s] + 1
          BY <1>a DEF Reco!TypeOK
        <4>3. rCurrent'[s] - 1 = rCurrent[s]
          BY <4>2, <1>n
        <4> QED BY <3>1, <4>1, <4>2, <4>3
      <3>s. RecoMarked(s)'
        BY <1>a, <1>n, <3>2 DEF RecoMarked, Reco!TypeOK
      <3>o. ASSUME NEW u \in Reco!Sources, u # s PROVE RecoMarked(u)'
        BY <1>a, <3>o DEF RecoMarked, Reco!TypeOK
      <3> QED BY <3>s, <3>o
    <2>3. RecoCounted'
      BY <1>d
    <2>4. RecoPrinted'
      BY <1>b, <1>c
    <2> QED BY <2>1, <2>2, <2>3, <2>4 DEF RecoInd
  <1>6. CASE Reco!FinishExtraction(s)
    <2> USE <1>6 DEF Reco!FinishExtraction
    <2>1. rStart' \in {"await", "asleep"} /\ (rStart' = "asleep" => rExtracted' # 2)
      BY <1>b DEF Reco!Both, Reco!Rouse
    <2>2. Reco!TypeOK'
      BY <1>a, <1>b, <2>1 DEF Reco!TypeOK
    <2>3. \A u \in Reco!Sources : RecoMarked(u)'
      <3>1. rSize[s] = rQuantity[s] /\ rReady[s] = 1 .. rSize[s]
        <4>1. /\ rSize[s] = rQuantity[s] /\ rReady[s] = 1 .. rCurrent[s] - 1
              /\ rCurrent[s] > rSize[s] /\ rCurrent[s] <= rSize[s] + 1
          BY <1>a, <1>n DEF RecoMarked
        <4>2. rCurrent[s] \in Nat /\ rSize[s] \in Nat
          BY <1>a DEF Reco!TypeOK
        <4>3. rCurrent[s] - 1 = rSize[s]
          BY <4>1, <4>2
        <4> QED BY <4>1, <4>3
      <3>2. /\ rSize'[s] = rSize[s] /\ rQuantity'[s] = rQuantity[s]
            /\ rReady'[s] = rReady[s] /\ rCurrent'[s] = rCurrent[s]
        BY <1>a DEF Reco!TypeOK
      <3>s. RecoMarked(s)'
        BY <1>a, <1>n, <3>1, <3>2 DEF RecoMarked, Reco!TypeOK
      <3>o. ASSUME NEW u \in Reco!Sources, u # s PROVE RecoMarked(u)'
        BY <1>a, <3>o DEF RecoMarked, Reco!TypeOK
      <3> QED BY <3>s, <3>o
    <2>4. RecoCounted'
      <3>1. Finished(s)' = 1 /\ Finished(s) = 0
        BY <1>a DEF RecoMarked, Finished, Reco!TypeOK
      <3>2. \A u \in Reco!Sources \ {s} : Finished(u)' = Finished(u)
        BY <1>a DEF Finished, Reco!TypeOK
      <3>3. rExtracted' = Finished(1)' + Finished(2)'
        BY <1>a, <3>1, <3>2 DEF RecoCounted, Finished
      <3> QED BY <1>b, <2>1, <2>2, <3>3 DEF RecoCounted, Reco!TypeOK
    <2>5. RecoPrinted'
      BY <2>1, <1>c
    <2> QED BY <2>2, <2>3, <2>4, <2>5 DEF RecoInd
  <1> QED BY <1>1, <1>2, <1>3, <1>4, <1>5, <1>6 DEF Reco!extract

(* start_reconciliation, process_reconciliation and main preserve it.       *)
LEMMA RecoStep == RecoInd /\ [Reco!Next]_(Reco!vars) => RecoInd'
  <1> SUFFICES ASSUME RecoInd, [Reco!Next]_(Reco!vars) PROVE RecoInd'
    OBVIOUS
  <1> USE RecoAssumption
      DEF Reco!RecoAssumption, RecoInd, Reco!Sources, Reco!TypeOK, RecoMarked,
          RecoCounted, RecoPrinted, Finished, Counts, Reco!extractors, Reco!printer
  <1>1. CASE Reco!AwaitReady
    BY <1>1 DEF Reco!AwaitReady, Reco!Await, Reco!Both
  <1>2. CASE Reco!PrintNode
    BY <1>2 DEF Reco!PrintNode
  <1>3. CASE Reco!PrintEnd
    BY <1>3 DEF Reco!PrintEnd, Reco!PrintReturns, Reco!Both, Reco!Rouse, Reco!NextSource
  <1>4. CASE Reco!AwaitProcessed
    BY <1>4 DEF Reco!AwaitProcessed, Reco!Await, Reco!Both
  <1>5. CASE Reco!CompareEqual
    BY <1>5 DEF Reco!CompareEqual
  <1>6. CASE Reco!CompareDifferent
    BY <1>6 DEF Reco!CompareDifferent, Reco!Fail
  <1>7. CASE Reco!Clean
    BY <1>7 DEF Reco!Clean
  <1>8. CASE UNCHANGED Reco!vars
    BY <1>8 DEF Reco!vars
  <1>9. CASE Reco!PrintEmpty
    BY <1>9 DEF Reco!PrintEmpty, Reco!PassEmpty, Reco!PrintReturns, Reco!NextSource
  <1>10. CASE Reco!WakeSpuriously
    BY <1>10 DEF Reco!WakeSpuriously
  <1> QED
    BY <1>1, <1>2, <1>3, <1>4, <1>5, <1>6, <1>7, <1>8, <1>9, <1>10, ExtractInd
    DEF Reco!Next, Reco!Running, Reco!start_reconciliation, Reco!process_reconciliation,
        Reco!Terminated

(* reconciliation.c prints only complete lists with every packet marked, and
   compares them only after both were printed to the end, for lists of any
   size and any quantities: an empty list is never counted as printed, and is
   never compared or handed to clean; and nobody who sleeps on one of the two
   conditions has been overtaken by its broadcast.                          *)
THEOREM RecoKeepsStages == Reco!Spec => []RecoStages
  <1>1. RecoInd => RecoStages
    <2> SUFFICES ASSUME RecoInd PROVE RecoStages
      OBVIOUS
    <2> USE DEF RecoInd, Reco!Sources, RecoMarked
    <2>1. Reco!PrintsReadyData
      <3>1. rExtracted = 2 =>
              \A s \in {1, 2} : rExtract[s] = "done" /\ rQuantity[s] <= ListCapacity
        BY DEF RecoCounted, Finished
      <3> QED BY <3>1 DEF RecoCounted, Reco!PrintsReadyData
    <2>2. Reco!StagesInOrder
      BY DEF RecoCounted, RecoPrinted, Counts, Reco!StagesInOrder, Reco!TypeOK
    <2> QED BY <2>1, <2>2 DEF RecoStages
  <1> QED BY <1>1, RecoInit, RecoStep, PTL DEF Reco!Spec
-----------------------------------------------------------------------------
(* The arena of bytes. *)

\* Adders that have stored their byte or been refused.
AddersPast == {t \in ArenaAdders : aPc[t] \in {"unlock", "done"}}

ArenaLocked == \A t \in Arena!Threads : aPc[t] \in {"body", "unlock"} <=> aLock = t

\* The bytes are in order, at most one for each adder that is past; so the
\* one that is refused is the last.
ArenaFilled ==
  /\ \A k \in 1 .. Len(aBuffer) : aBuffer[k] = k + 1
  /\ Len(aBuffer) <= Cardinality(AddersPast)
  /\ aIsFull => AddersPast = ArenaAdders

\* Full, printed, freed: each only after the one before.
ArenaEmptied ==
  /\ aIsFull /\ ~aFreed => Len(aBuffer) = ArenaCapacity
  /\ aCanReset => /\ aIsFull /\ aPc[Printer] \in {"unlock", "done"}
                  /\ aPrinted = [k \in 1 .. ArenaCapacity |-> k + 1]
  /\ aFreed => aCanReset

ArenaInd == Arena!TypeOK /\ ArenaLocked /\ ArenaFilled /\ ArenaEmptied

(* An empty arena satisfies the inductive invariant.                        *)
LEMMA ArenaInit == Arena!Init => ArenaInd
  <1> SUFFICES ASSUME Arena!Init PROVE ArenaInd
    OBVIOUS
  <1> USE ArenaAssumption DEF Arena!ArenaAssumption, Arena!Init, Arena!Threads
  <1>1. Arena!TypeOK
    <2>1. aBuffer \in Seq(2 .. ArenaCapacity + 1) /\ Len(aBuffer) <= ArenaCapacity
      OBVIOUS
    <2>2. {aIsFull, aCanReset, aFreed} \subseteq BOOLEAN
      OBVIOUS
    <2> QED BY <2>1, <2>2 DEF Arena!TypeOK
  <1>2. ArenaLocked
    BY DEF ArenaLocked
  <1>3. ArenaFilled
    <2>1. AddersPast = {}
      BY DEF AddersPast
    <2>2. Len(aBuffer) = 0 /\ Cardinality(AddersPast) = 0
      BY <2>1, FS_EmptySet
    <2> QED BY <2>2 DEF ArenaFilled
  <1>4. ArenaEmptied
    BY DEF ArenaEmptied
  <1> QED BY <1>1, <1>2, <1>3, <1>4 DEF ArenaInd

(* Steps that neither store nor refuse, nor raise a flag, keep what is known
   of the bytes.                                                            *)
LEMMA ArenaCalm ==
  ASSUME ArenaInd, UNCHANGED <<aBuffer, aIsFull, aCanReset, aFreed, aPrinted>>,
         AddersPast' = AddersPast,
         aPc[Printer] \in {"unlock", "done"} => aPc'[Printer] \in {"unlock", "done"}
  PROVE  ArenaFilled' /\ ArenaEmptied'
  <1>1. ArenaFilled'
    BY DEF ArenaInd, ArenaFilled
  <1>2. ArenaEmptied'
    BY DEF ArenaInd, ArenaEmptied
  <1> QED BY <1>1, <1>2

(* Past adders can be counted, and whoever is inside is not one of them.    *)
LEMMA PastAdders ==
  ASSUME ArenaInd
  PROVE  /\ IsFiniteSet(AddersPast) /\ Cardinality(AddersPast) \in Nat
         /\ \A t \in ArenaAdders : aPc[t] = "body" =>
              /\ Cardinality(AddersPast) <= ArenaCapacity
              /\ IsFiniteSet(AddersPast \cup {t})
              /\ Cardinality(AddersPast \cup {t}) = Cardinality(AddersPast) + 1
              /\ Cardinality(AddersPast) = ArenaCapacity =>
                   AddersPast \cup {t} = ArenaAdders
  <1>0. /\ IsFiniteSet(ArenaAdders) /\ Cardinality(ArenaAdders) = ArenaCapacity + 1
        /\ ArenaCapacity \in Nat
    <2>1. Arena!IsFiniteSet(ArenaAdders) <=> IsFiniteSet(ArenaAdders)
      BY DEF Arena!IsFiniteSet, IsFiniteSet
    <2>2. Arena!Cardinality(ArenaAdders) = Cardinality(ArenaAdders)
      BY DEF Arena!Cardinality, Cardinality
    <2> QED BY <2>1, <2>2, ArenaAssumption DEF Arena!ArenaAssumption
  <1>1. IsFiniteSet(AddersPast)
    <2>1. AddersPast \in SUBSET ArenaAdders
      BY DEF AddersPast
    <2> QED BY <1>0, <2>1, FS_Subset
  <1>2. Cardinality(AddersPast) \in Nat
    BY <1>1, FS_CardinalityType
  <1>3. ASSUME NEW t \in ArenaAdders, aPc[t] = "body"
        PROVE  /\ Cardinality(AddersPast) <= ArenaCapacity
               /\ IsFiniteSet(AddersPast \cup {t})
               /\ Cardinality(AddersPast \cup {t}) = Cardinality(AddersPast) + 1
               /\ Cardinality(AddersPast) = ArenaCapacity =>
                    AddersPast \cup {t} = ArenaAdders
    <2>1. t \notin AddersPast /\ AddersPast \cup {t} \in SUBSET ArenaAdders
      BY <1>3 DEF AddersPast
    <2>2. /\ IsFiniteSet(AddersPast \cup {t})
          /\ Cardinality(AddersPast \cup {t}) = Cardinality(AddersPast) + 1
      BY <1>1, <2>1, FS_AddElement
    <2>3. Cardinality(AddersPast \cup {t}) <= Cardinality(ArenaAdders)
      BY <1>0, <2>1, FS_Subset
    <2>4. Cardinality(ArenaAdders) = Cardinality(AddersPast \cup {t}) =>
            ArenaAdders = AddersPast \cup {t}
      BY <1>0, <2>1, FS_Subset
    <2>5. /\ Cardinality(AddersPast) <= ArenaCapacity
          /\ Cardinality(AddersPast) = ArenaCapacity =>
               Cardinality(ArenaAdders) = Cardinality(AddersPast \cup {t})
      BY <1>0, <1>2, <2>2, <2>3
    <2> QED BY <2>2, <2>4, <2>5
  <1> QED BY <1>1, <1>2, <1>3

(* worker_add preserves the inductive invariant.                            *)
LEMMA AdderInd ==
  ASSUME ArenaInd, NEW t \in ArenaAdders, Arena!worker_add(t)
  PROVE  ArenaInd'
  <1> USE ArenaAssumption
      DEF Arena!ArenaAssumption, Arena!Threads, Arena!Goto, Arena!Lock, Arena!Unlock,
          Arena!flags
  <1>a. Arena!TypeOK /\ ArenaLocked /\ ArenaFilled /\ ArenaEmptied
    BY DEF ArenaInd
  <1>b. t # Printer /\ t # Destroyer /\ t # None
    OBVIOUS
  <1>1. CASE Arena!Enter(t) \/ Arena!Leave(t)
    <2> USE <1>1 DEF Arena!Enter, Arena!Leave
    <2>1. Arena!TypeOK'
      BY <1>a DEF Arena!TypeOK
    <2>2. ArenaLocked'
      BY <1>a, <1>b DEF Arena!TypeOK, ArenaLocked
    <2>3. AddersPast' = AddersPast
      BY <1>a DEF Arena!TypeOK, AddersPast
    <2>4. ArenaFilled' /\ ArenaEmptied'
      BY <1>a, <1>b, <2>3, ArenaCalm DEF Arena!TypeOK
    <2> QED BY <2>1, <2>2, <2>4 DEF ArenaInd
  <1>2. ASSUME aPc[t] = "body", aPc' = [aPc EXCEPT ![t] = "unlock"]
        PROVE  AddersPast' = AddersPast \cup {t} /\ aPc'[Printer] = aPc[Printer]
    BY <1>a, <1>b, <1>2 DEF Arena!TypeOK, AddersPast
  <1>3. CASE Arena!Store(t)
    <2> USE <1>3 DEF Arena!Store, Arena!Full
    <2>1. /\ aPc[t] = "body" /\ AddersPast' = AddersPast \cup {t}
          /\ aPc'[Printer] = aPc[Printer]
      BY <1>2
    <2>2. /\ Len(aBuffer) \in Nat /\ Len(aBuffer) < ArenaCapacity
          /\ aBuffer \in Seq(2 .. ArenaCapacity + 1)
      BY <1>a DEF Arena!TypeOK
    <2>3. Len(aBuffer) + 2 \in 2 .. ArenaCapacity + 1
      BY <2>2
    <2>4. /\ aBuffer' \in Seq(2 .. ArenaCapacity + 1)
          /\ Len(aBuffer') = Len(aBuffer) + 1
          /\ \A k \in 1 .. Len(aBuffer) : aBuffer'[k] = aBuffer[k]
          /\ aBuffer'[Len(aBuffer) + 1] = Len(aBuffer) + 2
      BY <2>2, <2>3, AppendProperties
    <2>5. ~aIsFull
      BY <1>a, <2>1 DEF ArenaFilled, AddersPast
    <2>6. Arena!TypeOK'
      BY <1>a, <2>2, <2>4 DEF Arena!TypeOK
    <2>7. ArenaLocked'
      BY <1>a DEF Arena!TypeOK, ArenaLocked
    <2>8. ArenaFilled'
      <3>1. \A k \in 1 .. Len(aBuffer') : aBuffer'[k] = k + 1
        BY <1>a, <2>2, <2>4 DEF ArenaFilled
      <3>2. Len(aBuffer') <= Cardinality(AddersPast')
        <4>1. Cardinality(AddersPast') = Cardinality(AddersPast) + 1
          BY <2>1, PastAdders
        <4>2. Cardinality(AddersPast) \in Nat
          BY PastAdders
        <4>3. Len(aBuffer) <= Cardinality(AddersPast)
          BY <1>a DEF ArenaFilled
        <4> QED BY <2>2, <2>4, <4>1, <4>2, <4>3
      <3> QED BY <2>5, <3>1, <3>2 DEF ArenaFilled
    <2>9. ArenaEmptied'
      BY <1>a, <2>1, <2>5 DEF ArenaEmptied
    <2> QED BY <2>6, <2>7, <2>8, <2>9 DEF ArenaInd
  <1>4. CASE Arena!Refuse(t)
    <2> USE <1>4 DEF Arena!Refuse, Arena!Full
    <2>1. /\ aPc[t] = "body" /\ AddersPast' = AddersPast \cup {t}
          /\ aPc'[Printer] = aPc[Printer] /\ aBuffer' = aBuffer
      BY <1>2
    <2>2. Len(aBuffer) \in Nat /\ Len(aBuffer) = ArenaCapacity
      BY <1>a DEF Arena!TypeOK
    <2>3. /\ AddersPast' = ArenaAdders
          /\ Cardinality(AddersPast') >= Len(aBuffer)
      BY <1>a, <2>1, <2>2, PastAdders DEF ArenaFilled
    <2>4. Arena!TypeOK'
      <3>1. aFull' \subseteq {Printer} /\ aIsFull' \in BOOLEAN
        BY <1>a DEF Arena!TypeOK, Arena!CondSignal
      <3> QED BY <1>a, <3>1 DEF Arena!TypeOK
    <2>5. ArenaLocked'
      BY <1>a DEF Arena!TypeOK, ArenaLocked
    <2>6. ArenaFilled'
      BY <1>a, <2>1, <2>3 DEF ArenaFilled
    <2>7. ArenaEmptied'
      BY <1>a, <2>1, <2>2 DEF ArenaEmptied
    <2> QED BY <2>4, <2>5, <2>6, <2>7 DEF ArenaInd
  <1> QED BY <1>1, <1>3, <1>4 DEF Arena!worker_add

(* worker_print, arena_destroy and the spurious wakeups preserve it.        *)
LEMMA ArenaStep == ArenaInd /\ [Arena!Next]_(Arena!vars) => ArenaInd'
  <1> SUFFICES ASSUME ArenaInd, [Arena!Next]_(Arena!vars) PROVE ArenaInd'
    OBVIOUS
  <1> USE ArenaAssumption
      DEF Arena!ArenaAssumption, Arena!Threads, Arena!Goto, Arena!Lock, Arena!Unlock,
          Arena!flags
  <1>a. Arena!TypeOK /\ ArenaLocked /\ ArenaFilled /\ ArenaEmptied
    BY DEF ArenaInd
  <1>b. Printer \notin ArenaAdders /\ Destroyer \notin ArenaAdders /\ Printer # Destroyer
    OBVIOUS
  \* The mutex is taken or given back; nothing else of interest happens.
  <1>c. ASSUME NEW t \in {Printer, Destroyer},
               \/ /\ aLock = None /\ aLock' = t
                  /\ aPc[t] \in {"lock", "wait"} /\ aPc' = [aPc EXCEPT ![t] = "body"]
               \/ /\ aLock = t /\ aLock' = None
                  /\ \/ aPc[t] = "unlock" /\ aPc' = [aPc EXCEPT ![t] = "done"]
                     \/ aPc[t] = "body" /\ aPc' = [aPc EXCEPT ![t] = "wait"],
               aFull' \subseteq {Printer}, aReset' \subseteq {Destroyer},
               UNCHANGED <<aBuffer, aIsFull, aCanReset, aFreed, aPrinted, aSpurious>>
        PROVE  ArenaInd'
    <2>1. Arena!TypeOK'
      BY <1>a, <1>c DEF Arena!TypeOK
    <2>2. ArenaLocked'
      BY <1>a, <1>b, <1>c DEF Arena!TypeOK, ArenaLocked
    <2>3. AddersPast' = AddersPast
      BY <1>a, <1>b, <1>c DEF Arena!TypeOK, AddersPast
    <2>4. aPc[Printer] \in {"unlock", "done"} => aPc'[Printer] \in {"unlock", "done"}
      BY <1>a, <1>b, <1>c DEF Arena!TypeOK
    <2>5. ArenaFilled' /\ ArenaEmptied'
      BY <1>c, <2>3, <2>4, ArenaCalm
    <2> QED BY <2>1, <2>2, <2>5 DEF ArenaInd
  <1>1. ASSUME NEW t \in {Printer, Destroyer}, Arena!Enter(t) \/ Arena!Leave(t)
        PROVE  ArenaInd'
    BY <1>1, <1>a, <1>c DEF Arena!Enter, Arena!Leave, Arena!TypeOK
  <1>2. CASE Arena!Wait(Printer, aFull, aReset) \/ Arena!Wake(Printer, aFull)
    BY <1>2, <1>a, <1>c DEF Arena!Wait, Arena!Wake, Arena!CondWait, Arena!CondWake,
                            Arena!TypeOK
  <1>3. CASE Arena!Wait(Destroyer, aReset, aFull) \/ Arena!Wake(Destroyer, aReset)
    BY <1>3, <1>a, <1>c DEF Arena!Wait, Arena!Wake, Arena!CondWait, Arena!CondWake,
                            Arena!TypeOK
  <1>4. CASE Arena!print_buffer
    <2> USE <1>4 DEF Arena!print_buffer
    <2>1. aPc[Printer] = "body" /\ aPc'[Printer] = "unlock"
      BY <1>a DEF Arena!TypeOK
    <2>2. ~aCanReset /\ ~aFreed
      BY <1>a, <2>1 DEF ArenaEmptied
    <2>3. Arena!TypeOK'
      <3>1. aReset' \subseteq {Destroyer} /\ aCanReset' \in BOOLEAN
        BY <1>a DEF Arena!TypeOK, Arena!CondSignal
      <3> QED BY <1>a, <3>1 DEF Arena!TypeOK
    <2>4. ArenaLocked'
      BY <1>a DEF Arena!TypeOK, ArenaLocked
    <2>5. ArenaFilled'
      <3>1. AddersPast' = AddersPast
        BY <1>a, <1>b DEF Arena!TypeOK, AddersPast
      <3> QED BY <1>a, <3>1 DEF ArenaFilled
    <2>6. ArenaEmptied'
      <3>1. Len(aBuffer) = ArenaCapacity /\ aBuffer \in Seq(2 .. ArenaCapacity + 1)
        BY <1>a, <2>2 DEF ArenaEmptied, Arena!TypeOK
      <3>2. aBuffer = [k \in 1 .. ArenaCapacity |-> aBuffer[k]]
        BY <3>1
      <3>3. \A k \in 1 .. ArenaCapacity : aBuffer[k] = k + 1
        BY <1>a, <3>1 DEF ArenaFilled
      <3>4. aPrinted' = [k \in 1 .. ArenaCapacity |-> k + 1]
        BY <3>2, <3>3
      <3> QED BY <1>a, <2>1, <2>2, <3>4 DEF ArenaEmptied
    <2> QED BY <2>3, <2>4, <2>5, <2>6 DEF ArenaInd
  <1>5. CASE Arena!Free
    <2> USE <1>5 DEF Arena!Free, Arena!MayFree
    <2>1. Len(aBuffer') = 0 /\ aBuffer' \in Seq(2 .. ArenaCapacity + 1)
      OBVIOUS
    <2>2. Arena!TypeOK'
      <3>1. aFreed' \in BOOLEAN
        OBVIOUS
      <3> QED BY <1>a, <2>1, <3>1 DEF Arena!TypeOK
    <2>3. ArenaLocked'
      BY <1>a DEF Arena!TypeOK, ArenaLocked
    <2>4. ArenaFilled'
      <3>1. AddersPast' = AddersPast
        BY <1>a, <1>b DEF Arena!TypeOK, AddersPast
      <3>2. Cardinality(AddersPast') \in Nat
        BY <3>1, PastAdders
      <3> QED BY <1>a, <2>1, <3>1, <3>2 DEF ArenaFilled
    <2>5. ArenaEmptied'
      BY <1>a, <1>b DEF ArenaEmptied, Arena!TypeOK
    <2> QED BY <2>2, <2>3, <2>4, <2>5 DEF ArenaInd
  <1>6. CASE Arena!SpuriousWake
    <2> USE <1>6 DEF Arena!SpuriousWake
    <2>1. Arena!TypeOK'
      BY <1>a DEF Arena!TypeOK
    <2>2. ArenaLocked' /\ AddersPast' = AddersPast
      BY <1>a DEF ArenaLocked, AddersPast
    <2>3. ArenaFilled' /\ ArenaEmptied'
      BY <2>2, ArenaCalm
    <2> QED BY <2>1, <2>2, <2>3 DEF ArenaInd
  <1>7. CASE UNCHANGED Arena!vars
    <2> USE <1>7 DEF Arena!vars
    <2>1. Arena!TypeOK'
      BY <1>a DEF Arena!TypeOK
    <2>2. ArenaLocked' /\ AddersPast' = AddersPast
      BY <1>a DEF ArenaLocked, AddersPast
    <2>3. ArenaFilled' /\ ArenaEmptied'
      BY <2>2, ArenaCalm
    <2> QED BY <2>1, <2>2, <2>3 DEF ArenaInd
  <1> QED
    BY <1>1, <1>2, <1>3, <1>4, <1>5, <1>6, <1>7, AdderInd
    DEF Arena!Next, Arena!worker_print, Arena!arena_destroy, Arena!Terminated

(* custom_arena.c frees its arena last and prints it full and in order, for
   any capacity, as long as main starts one adder more than there are bytes. *)
LEMMA ArenaFreedLast ==
  Arena!Spec => [](Arena!TypeOK /\ Arena!FreedLast /\ Arena!PrintedFull)
  <1>1. ArenaInd => Arena!TypeOK /\ Arena!FreedLast /\ Arena!PrintedFull
    BY DEF ArenaInd, ArenaFilled, ArenaEmptied, AddersPast, Arena!FreedLast,
           Arena!PrintedFull
  <1> QED BY <1>1, ArenaInit, ArenaStep, PTL DEF Arena!Spec
-----------------------------------------------------------------------------
(* The arena of packets. *)

\* Adders that have stored their packet.
Stored == {t \in PacketAdders : kPc[t] \in {"unlock", "done"}}

PacketsLocked ==
  /\ \A t \in Packets!Threads : kPc[t] \in {"check", "store", "unlock"} <=> kLock = t
  /\ kPc[Reporter] \in {"lock", "check", "wait", "show", "done"}

\* Each packet has a slot of its own below the offset.
PacketsPlaced ==
  /\ kOffset = Cardinality(Stored)
  /\ \A t \in Stored : \E k \in 0 .. kOffset - 1 : kBuffer[k] = t

\* Whoever sleeps will be signalled: the packet about to be stored is not the
\* last.  Once the reporter has looked, nobody stores any more.
PacketsAnnounced ==
  /\ Reporter \in kFull =>
       /\ kPc[Reporter] = "wait" /\ kOffset < BLOCK_SIZE
       /\ \A t \in PacketAdders : kPc[t] = "store" => kOffset < BLOCK_SIZE - 1
  /\ kPc[Reporter] \in {"show", "done"} => kOffset = BLOCK_SIZE
  /\ kPc[Reporter] = "done" => kReported = kBuffer

PacketsInd == Packets!TypeOK /\ PacketsLocked /\ PacketsPlaced /\ PacketsAnnounced

(* add_packet's test in bytes is a test in packets.                         *)
LEMMA LastPacket ==
  ASSUME NEW n \in Nat, NEW b \in Nat \ {0}
  PROVE  n * b + b >= b * b <=> n >= b - 1
  <1>1. ASSUME n >= b - 1 PROVE n * b + b >= b * b
    <2>1. (n + 1) * b >= b * b
      BY <1>1
    <2> QED BY <2>1
  <1>2. ASSUME n < b - 1 PROVE n * b + b < b * b
    <2>1. (n + 1) * b < b * b
      BY <1>2
    <2> QED BY <2>1
  <1> QED BY <1>1, <1>2

(* An empty arena satisfies the inductive invariant.                        *)
LEMMA PacketsInit == Packets!Init => PacketsInd
  <1> SUFFICES ASSUME Packets!Init PROVE PacketsInd
    OBVIOUS
  <1> USE PacketsAssumption DEF Packets!PacketAssumption, Packets!Init, Packets!Threads
  <1>1. Packets!TypeOK
    BY DEF Packets!TypeOK
  <1>2. PacketsLocked
    BY DEF PacketsLocked
  <1>3. PacketsPlaced
    <2>1. Stored = {}
      BY DEF Stored
    <2>2. kOffset = 0 /\ Cardinality(Stored) = 0
      BY <2>1, FS_EmptySet
    <2> QED BY <2>1, <2>2 DEF PacketsPlaced
  <1>4. PacketsAnnounced
    BY DEF PacketsAnnounced
  <1> QED BY <1>1, <1>2, <1>3, <1>4 DEF PacketsInd

(* Stored packets can be counted; an adder that is inside leaves room for its
   packet, and with the arena full all of them are stored.                  *)
LEMMA StoredAdders ==
  /\ IsFiniteSet(Stored) /\ Cardinality(Stored) \in Nat
  /\ Cardinality(Stored) = BLOCK_SIZE => Stored = PacketAdders
  /\ \A t \in PacketAdders : t \notin Stored =>
       /\ Cardinality(Stored) < BLOCK_SIZE
       /\ Cardinality(Stored \cup {t}) = Cardinality(Stored) + 1
  <1>0. /\ IsFiniteSet(PacketAdders) /\ Cardinality(PacketAdders) = BLOCK_SIZE
        /\ BLOCK_SIZE \in Nat
    <2>1. Packets!IsFiniteSet(PacketAdders) <=> IsFiniteSet(PacketAdders)
      BY DEF Packets!IsFiniteSet, IsFiniteSet
    <2>2. Packets!Cardinality(PacketAdders) = Cardinality(PacketAdders)
      BY DEF Packets!Cardinality, Cardinality
    <2> QED BY <2>1, <2>2, PacketsAssumption DEF Packets!PacketAssumption
  <1>1. Stored \in SUBSET PacketAdders
    BY DEF Stored
  <1>2. IsFiniteSet(Stored)
    BY <1>0, <1>1, FS_Subset
  <1>3. Cardinality(Stored) \in Nat
    BY <1>2, FS_CardinalityType
  <1>4. Cardinality(Stored) = BLOCK_SIZE => Stored = PacketAdders
    BY <1>0, <1>1, FS_Subset
  <1>5. ASSUME NEW t \in PacketAdders, t \notin Stored
        PROVE  /\ Cardinality(Stored) < BLOCK_SIZE
               /\ Cardinality(Stored \cup {t}) = Cardinality(Stored) + 1
    <2>1. Cardinality(Stored \cup {t}) = Cardinality(Stored) + 1
      BY <1>2, <1>5, FS_AddElement
    <2>2. Stored \cup {t} \in SUBSET PacketAdders
      BY <1>1
    <2>3. Cardinality(Stored \cup {t}) <= Cardinality(PacketAdders)
      BY <1>0, <2>2, FS_Subset
    <2> QED BY <1>0, <1>3, <2>1, <2>3
  <1> QED BY <1>2, <1>3, <1>4, <1>5

(* add_packet preserves the inductive invariant.                            *)
LEMMA PacketInd ==
  ASSUME PacketsInd, NEW t \in PacketAdders, Packets!add_packet(t)
  PROVE  PacketsInd'
  <1> USE PacketsAssumption
      DEF Packets!PacketAssumption, Packets!Threads, Packets!Slots, Packets!Goto,
          Packets!Lock, Packets!Unlock
  <1>a. Packets!TypeOK /\ PacketsLocked /\ PacketsPlaced /\ PacketsAnnounced
    BY DEF PacketsInd
  <1>b. t # Reporter /\ t # None /\ Reporter # None
    OBVIOUS
  <1>1. CASE Packets!Enter(t)
    <2> USE <1>1 DEF Packets!Enter
    <2>1. Packets!TypeOK'
      BY <1>a DEF Packets!TypeOK
    <2>2. PacketsLocked'
      BY <1>a, <1>b DEF Packets!TypeOK, PacketsLocked
    <2>3. Stored' = Stored
      BY <1>a DEF Packets!TypeOK, Stored
    <2>4. PacketsPlaced'
      BY <1>a, <2>3 DEF PacketsPlaced
    <2>5. PacketsAnnounced'
      BY <1>a, <1>b DEF Packets!TypeOK, PacketsAnnounced
    <2> QED BY <2>1, <2>2, <2>4, <2>5 DEF PacketsInd
  <1>2. CASE Packets!Announce(t)
    <2> USE <1>2 DEF Packets!Announce
    <2>1. t \notin Stored /\ Stored' = Stored
      BY <1>a DEF Packets!TypeOK, Stored
    <2>2. kFull' \subseteq kFull
      BY <1>a DEF Packets!CondSignal
    <2>3. Packets!Last => Reporter \notin kFull'
      BY <1>a DEF Packets!CondSignal, Packets!TypeOK
    <2>4. Packets!Last <=> kOffset >= BLOCK_SIZE - 1
      BY <1>a, LastPacket DEF Packets!Last, Packets!TypeOK
    <2>5. Packets!TypeOK'
      BY <1>a, <2>2 DEF Packets!TypeOK
    <2>6. PacketsLocked'
      BY <1>a, <1>b DEF Packets!TypeOK, PacketsLocked
    <2>7. PacketsPlaced'
      BY <1>a, <2>1 DEF PacketsPlaced
    <2>8. PacketsAnnounced'
      <3>1. kPc'[Reporter] = kPc[Reporter]
        BY <1>a, <1>b DEF Packets!TypeOK
      <3>2. Reporter \in kFull' => kOffset < BLOCK_SIZE - 1
        BY <1>a, <2>3, <2>4 DEF Packets!TypeOK
      <3> QED BY <1>a, <2>2, <3>1, <3>2 DEF PacketsAnnounced
    <2> QED BY <2>5, <2>6, <2>7, <2>8 DEF PacketsInd
  <1>3. CASE Packets!Store(t)
    <2> USE <1>3 DEF Packets!Store
    <2>1. t \notin Stored /\ Stored' = Stored \cup {t}
      BY <1>a DEF Packets!TypeOK, Stored
    <2>2. /\ kOffset \in Nat /\ kOffset < BLOCK_SIZE /\ kOffset = Cardinality(Stored)
          /\ kOffset' = Cardinality(Stored') /\ kOffset' = kOffset + 1
      BY <1>a, <2>1, StoredAdders DEF PacketsPlaced
    <2>3. kOffset \in 0 .. BLOCK_SIZE - 1 /\ kOffset' \in 0 .. BLOCK_SIZE
      BY <2>2
    <2>4. kBuffer' = [kBuffer EXCEPT ![kOffset] = t] /\ kBuffer'[kOffset] = t
      BY <1>a, <2>3 DEF Packets!TypeOK
    <2>5. Packets!TypeOK'
      BY <1>a, <2>3 DEF Packets!TypeOK
    <2>6. PacketsLocked'
      BY <1>a, <1>b DEF Packets!TypeOK, PacketsLocked
    <2>7. PacketsPlaced'
      <3>1. ASSUME NEW u \in Stored PROVE \E k \in 0 .. kOffset' - 1 : kBuffer'[k] = u
        <4>1. PICK k \in 0 .. kOffset - 1 : kBuffer[k] = u
          BY <1>a DEF PacketsPlaced
        <4>2. k \in 0 .. kOffset' - 1 /\ k # kOffset /\ k \in 0 .. BLOCK_SIZE - 1
          BY <2>2
        <4>3. kBuffer'[k] = u
          BY <1>a, <2>4, <4>1, <4>2 DEF Packets!TypeOK
        <4> QED BY <4>2, <4>3
      <3>2. kOffset \in 0 .. kOffset' - 1
        BY <2>2
      <3> QED BY <2>1, <2>2, <2>4, <3>1, <3>2 DEF PacketsPlaced
    <2>8. PacketsAnnounced'
      <3>1. kPc'[Reporter] = kPc[Reporter] /\ kPc[t] = "store"
        BY <1>a, <1>b DEF Packets!TypeOK
      <3>2. kPc[Reporter] \notin {"show", "done"}
        BY <1>a, <2>2 DEF PacketsAnnounced
      <3>3. \A u \in PacketAdders : kPc'[u] # "store"
        BY <1>a DEF PacketsLocked, Packets!TypeOK
      <3>4. Reporter \in kFull' => kOffset' < BLOCK_SIZE /\ kPc[Reporter] = "wait"
        BY <1>a, <2>2, <3>1 DEF PacketsAnnounced
      <3> QED BY <3>1, <3>2, <3>3, <3>4 DEF PacketsAnnounced
    <2> QED BY <2>5, <2>6, <2>7, <2>8 DEF PacketsInd
  <1>4. CASE Packets!Leave(t)
    <2> USE <1>4 DEF Packets!Leave
    <2>1. Packets!TypeOK'
      BY <1>a DEF Packets!TypeOK
    <2>2. PacketsLocked'
      BY <1>a, <1>b DEF Packets!TypeOK, PacketsLocked
    <2>3. Stored' = Stored
      BY <1>a DEF Packets!TypeOK, Stored
    <2>4. PacketsPlaced'
      BY <1>a, <2>3 DEF PacketsPlaced
    <2>5. PacketsAnnounced'
      BY <1>a, <1>b DEF Packets!TypeOK, PacketsAnnounced
    <2> QED BY <2>1, <2>2, <2>4, <2>5 DEF PacketsInd
  <1> QED BY <1>1, <1>2, <1>3, <1>4 DEF Packets!add_packet

(* report and the spurious wakeups preserve it.                             *)
LEMMA PacketsStep == PacketsInd /\ [Packets!Next]_(Packets!vars) => PacketsInd'
  <1> SUFFICES ASSUME PacketsInd, [Packets!Next]_(Packets!vars) PROVE PacketsInd'
    OBVIOUS
  <1> USE PacketsAssumption
      DEF Packets!PacketAssumption, Packets!Threads, Packets!Slots, Packets!Goto,
          Packets!Lock, Packets!Unlock
  <1>a. Packets!TypeOK /\ PacketsLocked /\ PacketsPlaced /\ PacketsAnnounced
    BY DEF PacketsInd
  <1>b. Reporter \notin PacketAdders /\ Reporter # None
    OBVIOUS
  \* The reporter's steps change neither the arena nor an adder.
  <1>c. ASSUME NEW to, kPc' = [kPc EXCEPT ![Reporter] = to], UNCHANGED <<kBuffer, kOffset>>
        PROVE  PacketsPlaced' /\ \A t \in PacketAdders : kPc'[t] = kPc[t]
    <2>1. Stored' = Stored /\ \A t \in PacketAdders : kPc'[t] = kPc[t]
      BY <1>a, <1>b, <1>c DEF Packets!TypeOK, Stored
    <2> QED BY <1>a, <1>c, <2>1 DEF PacketsPlaced
  <1>1. CASE Packets!Enter(Reporter)
    <2> USE <1>1 DEF Packets!Enter
    <2>1. Packets!TypeOK'
      BY <1>a DEF Packets!TypeOK
    <2>2. PacketsLocked'
      BY <1>a, <1>b DEF Packets!TypeOK, PacketsLocked
    <2>3. PacketsPlaced' /\ \A t \in PacketAdders : kPc'[t] = kPc[t]
      BY <1>c
    <2>4. PacketsAnnounced'
      BY <1>a, <1>b, <2>3 DEF PacketsAnnounced, Packets!TypeOK
    <2> QED BY <2>1, <2>2, <2>3, <2>4 DEF PacketsInd
  <1>2. CASE Packets!Wait
    <2> USE <1>2 DEF Packets!Wait, Packets!CondWait, Packets!Complete
    <2>1. Packets!TypeOK'
      BY <1>a DEF Packets!TypeOK
    <2>2. PacketsLocked'
      BY <1>a, <1>b DEF Packets!TypeOK, PacketsLocked
    <2>3. PacketsPlaced' /\ \A t \in PacketAdders : kPc'[t] = kPc[t]
      BY <1>c
    <2>4. PacketsAnnounced'
      <3>1. kPc'[Reporter] = "wait" /\ kOffset' < BLOCK_SIZE
        BY <1>a DEF Packets!TypeOK
      <3>2. \A t \in PacketAdders : kPc'[t] # "store"
        BY <1>a, <1>b, <2>3 DEF PacketsLocked
      <3> QED BY <3>1, <3>2 DEF PacketsAnnounced
    <2> QED BY <2>1, <2>2, <2>3, <2>4 DEF PacketsInd
  <1>3. CASE Packets!Wake
    <2> USE <1>3 DEF Packets!Wake, Packets!CondWake
    <2>1. Packets!TypeOK'
      BY <1>a DEF Packets!TypeOK
    <2>2. PacketsLocked'
      BY <1>a, <1>b DEF Packets!TypeOK, PacketsLocked
    <2>3. PacketsPlaced' /\ \A t \in PacketAdders : kPc'[t] = kPc[t]
      BY <1>c
    <2>4. PacketsAnnounced'
      BY <1>a, <1>b, <2>3 DEF PacketsAnnounced, Packets!TypeOK
    <2> QED BY <2>1, <2>2, <2>3, <2>4 DEF PacketsInd
  <1>4. CASE Packets!LeaveReport
    <2> USE <1>4 DEF Packets!LeaveReport, Packets!Complete
    <2>1. Packets!TypeOK'
      BY <1>a DEF Packets!TypeOK
    <2>2. PacketsLocked'
      BY <1>a, <1>b DEF Packets!TypeOK, PacketsLocked
    <2>3. PacketsPlaced' /\ \A t \in PacketAdders : kPc'[t] = kPc[t]
      BY <1>c
    <2>4. PacketsAnnounced'
      BY <1>a, <1>b, <2>3 DEF PacketsAnnounced, Packets!TypeOK
    <2> QED BY <2>1, <2>2, <2>3, <2>4 DEF PacketsInd
  <1>5. CASE Packets!Show
    <2> USE <1>5 DEF Packets!Show
    <2>1. Packets!TypeOK'
      BY <1>a DEF Packets!TypeOK
    <2>2. PacketsLocked'
      BY <1>a, <1>b DEF Packets!TypeOK, PacketsLocked
    <2>3. PacketsPlaced' /\ \A t \in PacketAdders : kPc'[t] = kPc[t]
      BY <1>c
    <2>4. PacketsAnnounced'
      BY <1>a, <1>b, <2>3 DEF PacketsAnnounced, Packets!TypeOK
    <2> QED BY <2>1, <2>2, <2>3, <2>4 DEF PacketsInd
  <1>6. CASE Packets!SpuriousWake \/ UNCHANGED Packets!vars
    <2> USE <1>6 DEF Packets!SpuriousWake, Packets!vars
    <2>1. Packets!TypeOK'
      BY <1>a DEF Packets!TypeOK
    <2>2. PacketsLocked' /\ Stored' = Stored
      BY <1>a DEF PacketsLocked, Stored
    <2>3. PacketsPlaced'
      BY <1>a, <2>2 DEF PacketsPlaced
    <2>4. PacketsAnnounced'
      BY <1>a DEF PacketsAnnounced
    <2> QED BY <2>1, <2>2, <2>3, <2>4 DEF PacketsInd
  <1> QED
    BY <1>1, <1>2, <1>3, <1>4, <1>5, <1>6, PacketInd
    DEF Packets!Next, Packets!report, Packets!Terminated

(* arena-alloc.c's signal, sent before the packet it announces, finds no one
   asleep too early, and the reporter reads every packet without the mutex,
   for any number of packets that main has exactly as many threads for.     *)
LEMMA PacketsReported ==
  Packets!Spec => [](Packets!TypeOK /\ Packets!SignalInTime /\ Packets!ReportsAll)
  <1>1. PacketsInd => Packets!TypeOK /\ Packets!SignalInTime /\ Packets!ReportsAll
    <2> SUFFICES ASSUME PacketsInd
                 PROVE  Packets!TypeOK /\ Packets!SignalInTime /\ Packets!ReportsAll
      OBVIOUS
    <2>1. Packets!TypeOK
      BY DEF PacketsInd
    <2>2. Packets!SignalInTime
      BY <2>1, PacketsAssumption
      DEF PacketsInd, PacketsAnnounced, Packets!SignalInTime, Packets!Complete,
          Packets!TypeOK, Packets!PacketAssumption
    <2>3. ASSUME kPc[Reporter] = "done", NEW t \in PacketAdders
          PROVE  \E k \in Packets!Slots : kReported[k] = t
      <3>1. kOffset = BLOCK_SIZE /\ kReported = kBuffer /\ Stored = PacketAdders
        BY <2>3, StoredAdders DEF PacketsInd, PacketsAnnounced, PacketsPlaced
      <3>2. PICK k \in 0 .. kOffset - 1 : kBuffer[k] = t
        BY <3>1 DEF PacketsInd, PacketsPlaced
      <3> QED BY <3>1, <3>2 DEF Packets!Slots
    <2> QED BY <2>1, <2>2, <2>3 DEF Packets!ReportsAll
  <1> QED BY <1>1, PacketsInit, PacketsStep, PTL DEF Packets!Spec

(* Both arenas: freed last and printed full, and signalled in time and
   reported complete, for any capacity and any number of spurious wakeups.  *)
THEOREM ArenasAreSound == Arena!Spec /\ Packets!Spec => []ArenasSound
  <1>1. /\ Arena!TypeOK /\ Arena!FreedLast /\ Arena!PrintedFull
        /\ Packets!TypeOK /\ Packets!SignalInTime /\ Packets!ReportsAll
        => ArenasSound
    BY DEF ArenasSound
  <1> QED BY <1>1, ArenaFreedLast, PacketsReported, PTL
=============================================================================
