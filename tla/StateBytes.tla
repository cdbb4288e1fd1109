----------------------------- MODULE StateBytes -----------------------------
(***************************************************************************)
(* The programs that keep a state in the bits of a byte:                   *)
(* bitwise/smarth_fan.c ("fan") and the packets of problems/f1_engine.c    *)
(* ("engine").  A byte is the set of its bits that are one, so that the    *)
(* masks are set operations.                                               *)
(***************************************************************************)
EXTENDS Integers, FiniteSetsExt

CONSTANTS
  DB_CAPACITY,  \* packets of an engine
  MaxBatches,   \* bound: calls of add_radio_packet from outside
  Checksums     \* the checksums a batch starts from

\* What a project that gives them values has to see to: n is a byte.
BatchAssumption ==
  DB_CAPACITY \in 0 .. 255 /\ MaxBatches \in Nat /\ Checksums \subseteq 0 .. 255

VARIABLES
  kind,      \* which program it is
  phase,     \* what runs, or how the program ended
  fan,       \* fan_config
  meant,     \* history: the fan that the calls so far should have made
  src, dest, \* the packets of the radio and of the analytics
  size,      \* radio->size
  id, n,     \* arguments of the recursion ...
  last,      \* ... and the timestamp, payload and checksum it passes on
  total,     \* history: n of the last batch
  batches

fanVars == <<fan, meant>>
engineVars == <<src, dest, size, id, n, last, total, batches>>
vars == <<kind, phase, fanVars, engineVars>>

Bits == 0 .. 7
BitsOf(byte) == {b \in Bits : (byte \div 2 ^ b) % 2 = 1}

LED == {0, 1, 2}
Oscillation == {3}
MASK_FAN_ISOLATE == {4, 5, 6}
Power == 7
MAX_SPEED_VAL == 7
MIN_SPEED_VAL == 0

is_on(byte) == Power \in byte
\* What a bit of the mask counts for once it is shifted to the right.
Counts(b, byte) == IF b \in byte \cap MASK_FAN_ISOLATE THEN 2 ^ (b - 4) ELSE 0
get_fan_speed(byte) == Counts(4, byte) + Counts(5, byte) + Counts(6, byte)

\* The fan's functions take whatever register they are given.
Init ==
  /\ kind \in {"fan", "engine"} /\ phase = "idle"
  /\ fan \in IF kind = "fan" THEN SUBSET Bits ELSE {{}}
  /\ meant = [on |-> is_on(fan), speed |-> get_fan_speed(fan), others |-> fan \cap (LED \cup Oscillation)]
  /\ src = <<>> /\ dest = <<>> /\ size = 0 /\ id = 0 /\ n = 0 /\ total = 0 /\ batches = 0
  /\ last = [timestamp |-> 10, degrees |-> TRUE, checksum |-> 1]
-----------------------------------------------------------------------------
(* bitwise/smarth_fan.c *)

\* What set_speed_direct leaves of the register; the variant drops its mask.
OrOnly(byte) == byte
Cleared(byte) == byte \ MASK_FAN_ISOLATE

\* The speed is shifted, not masked: a ninth bit would be lost.
set_speed_direct(byte, speed) == Cleared(byte) \cup ({b + 4 : b \in BitsOf(speed)} \cap Bits)
reset_speed_flags(byte) == byte \ MASK_FAN_ISOLATE
check_speed_status(byte, value) == IF get_fan_speed(byte) # value THEN reset_speed_flags(byte) ELSE byte

FanCall == kind = "fan" /\ phase = "idle" /\ UNCHANGED <<kind, engineVars>>

set_max_speed ==
  /\ FanCall
  /\ IF is_on(fan)
     THEN /\ fan' = check_speed_status(set_speed_direct(fan, MAX_SPEED_VAL), MAX_SPEED_VAL)
          /\ meant' = [meant EXCEPT !.speed = MAX_SPEED_VAL] /\ UNCHANGED phase
     ELSE phase' = "refused" /\ UNCHANGED fanVars

\* Works with the power off as well.
set_min_speed ==
  /\ FanCall
  /\ IF get_fan_speed(reset_speed_flags(fan)) # 0
     THEN phase' = "failed" /\ UNCHANGED fanVars
     ELSE /\ fan' = check_speed_status(reset_speed_flags(fan), MIN_SPEED_VAL)
          /\ meant' = [meant EXCEPT !.speed = MIN_SPEED_VAL] /\ UNCHANGED phase

turn_on ==
  /\ FanCall
  /\ fan' = fan \cup {Power}
  /\ phase' = IF is_on(fan') THEN phase ELSE "failed"
  /\ meant' = [meant EXCEPT !.on = TRUE]

\* The variant wipes the register.
SwitchedToZero == {}
SwitchedOff == fan \ {Power}

turn_off == FanCall /\ fan' = SwitchedOff /\ meant' = [meant EXCEPT !.on = FALSE] /\ UNCHANGED phase

\* The variant does not stop at the fastest or at the slowest.
Wraps(speed, by) == (speed + by) % 8
Steps(speed, by) == IF speed + by \in MIN_SPEED_VAL .. MAX_SPEED_VAL THEN speed + by ELSE speed

change_speed(by) ==
  /\ FanCall /\ is_on(fan)
  /\ fan' = set_speed_direct(fan, Steps(get_fan_speed(fan), by))
  /\ meant' = [meant EXCEPT !.speed = Max({MIN_SPEED_VAL, Min({MAX_SPEED_VAL, @ + by})})]
  /\ UNCHANGED phase
-----------------------------------------------------------------------------
(* problems/f1_engine.c *)

Engine(p) == kind = "engine" /\ phase = p /\ UNCHANGED <<kind, fanVars>>

\* A batch of m packets is asked for; ids always start at 0.
batch(m, cs) ==
  /\ Engine("idle") /\ batches < MaxBatches
  /\ phase' = IF m >= DB_CAPACITY THEN "refused" ELSE "adding"
  /\ batches' = batches + 1 /\ n' = m /\ total' = m /\ id' = 0
  /\ last' = [timestamp |-> 10, degrees |-> TRUE, checksum |-> cs]
  /\ UNCHANGED <<src, dest, size>>

DEFAULT_FLAG_MASK == {0, 1, 2, 3}
\* The variant turns the bit round every time.
Toggled == DEFAULT_FLAG_MASK \ {1}
Flag == IF n % 2 = 0 THEN DEFAULT_FLAG_MASK \cup {1} ELSE DEFAULT_FLAG_MASK \ {1}

\* What is written for a packet.  Its payload is a temperature; what the
\* recursion passes on is the number its bits stand for.
Packet == [sensor_id |-> id, timestamp |-> last.timestamp + id, degrees |-> last.degrees,
           checksum |-> (last.checksum + id) % 256, status_flag |-> Flag]

add_radio_packet ==
  /\ Engine("adding") /\ n > 0
  /\ src' = [i \in DOMAIN src \cup {id} |-> IF i = id THEN Packet ELSE src[i]]
  /\ size' = (size + 1) % 256
  /\ id' = id + 1 /\ n' = n - 1
  /\ last' = [timestamp |-> Packet.timestamp, degrees |-> FALSE, checksum |-> Packet.checksum]
  /\ UNCHANGED <<phase, dest, total, batches>>

\* Whether the batch is reported as whole.
SizeIsId == size = id

\* The end of the recursion and verify_batch of the radio.
verify_batch ==
  /\ Engine("adding") /\ n = 0
  /\ phase' = IF SizeIsId THEN "verified" ELSE "failed"
  /\ UNCHANGED engineVars

batch_copy ==
  /\ Engine("verified")
  /\ dest' = [i \in 0 .. size - 1 |-> src[i]]
  /\ phase' = "idle"
  /\ UNCHANGED <<src, size, id, n, last, total, batches>>

\* verify_batch of the analytics prints the packets; main frees both engines.
report == Engine("idle") /\ batches > 0 /\ phase' = "reported" /\ UNCHANGED engineVars

Terminated == phase \in {"refused", "failed", "reported"} /\ UNCHANGED vars

Next ==
  \/ set_max_speed \/ set_min_speed \/ turn_on \/ turn_off
  \/ \E by \in {1, -1} : change_speed(by)
  \/ \E m \in 0 .. DB_CAPACITY, cs \in Checksums : batch(m, cs)
  \/ add_radio_packet \/ verify_batch \/ batch_copy \/ report \/ Terminated

Spec == Init /\ [][Next]_vars
-----------------------------------------------------------------------------
TypeOK == /\ phase \in {"idle", "adding", "verified", "refused", "failed", "reported"}
          /\ fan \subseteq Bits /\ meant.speed \in 0 .. 7 /\ size \in 0 .. 255
          /\ DOMAIN src \subseteq 0 .. DB_CAPACITY - 1

(* Whatever is called in between, the register stands for the fan that the
   calls ask for: a speed is kept while the power is off, it moves one level
   at a time and never wraps, and nobody touches the LED and the oscillation.  *)
RegisterMeans ==
  /\ meant = [on |-> is_on(fan), speed |-> get_fan_speed(fan), others |-> fan \cap (LED \cup Oscillation)]
  /\ kind = "fan" => phase # "failed"  \* none of the checks after a change fails

Triangle(i) == (i * (i + 1)) \div 2

(* What the analytics hold are the packets of a whole batch, numbered from 0,
   with timestamps and checksums that add up and the flag of every other
   packet set; a second batch on top of a first one never gets there.       *)
CopiesWhole ==
  phase \in {"idle", "reported"} /\ dest # <<>> =>
    /\ size < DB_CAPACITY /\ DOMAIN dest = 0 .. size - 1
    /\ \A i \in DOMAIN dest :
         /\ dest[i] = src[i] /\ dest[i].sensor_id = i
         /\ dest[i].timestamp = 10 + Triangle(i)
         /\ (dest[i].checksum + 256 - Triangle(i)) % 256 \in Checksums
         /\ 1 \in dest[i].status_flag <=> (size - i) % 2 = 0

(* As the comment on add_radio_packet has it, the value of each variable is
   incremented from packet to packet, the temperature with the others.      *)
TemperaturesIncrease == \A i \in DOMAIN src : src[i].degrees
=============================================================================
