----------------------------- MODULE IdGenerator -----------------------------
(***************************************************************************)
(* SnowflakeIdGenerator (pm_common/id_generator.py), which names orders    *)
(* and trades.  next_id holds a threading.Lock, so that calls do not       *)
(* overlap; only the wait for the next millisecond lets time pass inside a *)
(* call.  now is the wall clock in milliseconds since _EPOCH_MS.           *)
(***************************************************************************)
EXTENDS Integers, Sequences

CONSTANTS
  MaxSequence,   \* _MAX_SEQUENCE (4095)
  Machines,      \* how many machine ids there are (1024)
  MachineId,     \* machine_id (0)
  MaxTime,       \* bound on the clock
  MaxIssued      \* bound on the number of ids issued

ASSUME SequenceAssumption == MaxSequence \in Nat
ASSUME MachinesAssumption == Machines \in Nat \ {0} /\ MachineId \in 0 .. Machines - 1
ASSUME BoundsAssumption == MaxTime \in Nat /\ MaxIssued \in Nat

VARIABLES
  now,        \* what _current_ms would read
  last,       \* _last_timestamp_ms
  sequence,   \* _sequence
  pc,         \* "ready", or "waiting" inside _wait_next_ms
  issued      \* the ids returned so far

idVars == <<now, last, sequence, pc, issued>>

-----------------------------------------------------------------------------
\* Timestamp, machine id and sequence side by side.  The fields of the code
\* do not overlap, so that its shifts and ORs are products and sums.
Shift == Machines * (MaxSequence + 1)
Id(ts, seq) == ts * Shift + (MachineId * (MaxSequence + 1) + seq)

Init ==
  /\ now \in 0 .. MaxTime
  /\ last = -1 /\ sequence = 0 /\ pc = "ready"
  /\ issued = <<>>

Issue(ts, seq) ==
  /\ last' = ts
  /\ sequence' = seq
  /\ issued' = Append(issued, Id(ts, seq))
  /\ pc' = "ready"
  /\ UNCHANGED now

\* Faulty: the mask is forgotten.
SequenceUnmasked == sequence + 1

\* (_sequence + 1) & _MAX_SEQUENCE
NextSequence == IF sequence = MaxSequence THEN 0 ELSE sequence + 1

\* next_id in a new millisecond ...
FirstOfMs ==
  /\ pc = "ready" /\ Len(issued) < MaxIssued
  /\ now # last
  /\ Issue(now, 0)

\* ... and in the millisecond of the id before,
AnotherOfMs ==
  /\ pc = "ready" /\ Len(issued) < MaxIssued
  /\ now = last /\ NextSequence # 0
  /\ Issue(now, NextSequence)

\* where it waits once the sequence is used up.
BeginWait ==
  /\ pc = "ready" /\ Len(issued) < MaxIssued
  /\ now = last /\ NextSequence = 0
  /\ sequence' = 0
  /\ pc' = "waiting"
  /\ UNCHANGED <<now, last, issued>>

\* Faulty: the wait ends within the same millisecond.
EndWaitEarly == pc = "waiting" /\ now >= last /\ Issue(now, 0)

\* _wait_next_ms returns
EndWait == pc = "waiting" /\ now > last /\ Issue(now, 0)

\* The clock goes on; it stands still at the bound.
Tick ==
  /\ now' = IF now < MaxTime THEN now + 1 ELSE now
  /\ UNCHANGED <<last, sequence, pc, issued>>

\* The process is started again, which takes longer than a millisecond.
Restart ==
  /\ now < MaxTime
  /\ now' = now + 1
  /\ last' = -1 /\ sequence' = 0 /\ pc' = "ready"
  /\ UNCHANGED issued

NextId == FirstOfMs \/ AnotherOfMs \/ BeginWait \/ EndWait

\* The wall clock is taken never to go back.
Spec == Init /\ [][NextId \/ Tick \/ Restart]_idVars

-----------------------------------------------------------------------------
\* The variables keep their types; the sequence stays within its 12 bits.
IdTypeOK ==
  /\ now \in Nat
  /\ last \in Nat \union {-1}
  /\ sequence \in 0 .. MaxSequence
  /\ pc \in {"ready", "waiting"}
  /\ issued \in Seq(Int)

\* id_generator.py:3 "Generates monotonically increasing, unique string IDs":
\* each id is greater than all before it, across full milliseconds and
\* restarts.
IdsIncrease ==
  \A i, j \in 1 .. Len(issued) : i < j => issued[i] < issued[j]
=============================================================================
