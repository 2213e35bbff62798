---------------------------- MODULE SmokeSensor -----------------------------
(***************************************************************************)
(* 03-message-broker/04-nack: ConsumeMessages reads a smoke sensor and     *)
(* starts or stops an alarm.  A call that fails is nacked: the broker      *)
(* offers the same reading again, before the ones behind it.  A reading    *)
(* that is neither "0" nor "1" is neither acked nor nacked: the broker     *)
(* waits for it, and offers nothing more.                                  *)
(***************************************************************************)
EXTENDS Naturals, Sequences, SequencesExt

CONSTANTS
  MaxReadings, \* bound: readings of the sensor
  MaxFaults    \* bound: calls that fail, acks that are lost

Readings == {"0", "1", "other"}

VARIABLES
  sensor,      \* all readings, in the order they were published
  acked,       \* how many of them are acked
  alarm,       \* the alarm: TRUE when it was started
  alarmFaults  \* faults so far (bounds the model)

vars == <<sensor, acked, alarm, alarmFaults>>

TypeOK ==
  /\ sensor \in Seq(Readings)
  /\ acked \in 0..Len(sensor)
  /\ alarm \in BOOLEAN
  /\ alarmFaults \in 0..MaxFaults

Fault == alarmFaults < MaxFaults /\ alarmFaults' = alarmFaults + 1

-----------------------------------------------------------------------------
Publish(reading) ==
  /\ Len(sensor) < MaxReadings
  /\ sensor' = Append(sensor, reading)
  /\ UNCHANGED <<acked, alarm, alarmFaults>>

\* The reading that the broker offers; another one is never handled.
Offers(reading) == acked < Len(sensor) /\ sensor[acked + 1] = reading

\* The alarm does as it is told and the reading is acked, unless that is lost.
Ack(started) ==
  /\ alarm' = started
  /\ \/ acked' = acked + 1 /\ UNCHANGED alarmFaults
     \/ Fault /\ UNCHANGED acked

\* Mutant: the error is followed by an ack.
Nack_Acked(started) ==
  /\ Fault
  /\ alarm' \in {alarm, started}
  /\ acked' = acked + 1

\* An error of the alarm, which may have done it all the same.
Nack(started) ==
  /\ Fault
  /\ alarm' \in {alarm, started}
  /\ UNCHANGED acked

StartAlarm == Offers("1") /\ (Ack(TRUE) \/ Nack(TRUE)) /\ UNCHANGED sensor

StopAlarm == Offers("0") /\ (Ack(FALSE) \/ Nack(FALSE)) /\ UNCHANGED sensor

-----------------------------------------------------------------------------
Init ==
  /\ sensor = <<>>
  /\ acked = 0
  /\ alarm = FALSE
  /\ alarmFaults = 0

Next ==
  \/ \E reading \in Readings : Publish(reading)
  \/ StartAlarm
  \/ StopAlarm

Spec == Init /\ [][Next]_vars

\* ConsumeMessages goes on with what it is offered.
Fairness == WF_vars(StartAlarm \/ StopAlarm)

-----------------------------------------------------------------------------
(* Properties *)

\* Calls that fail and readings that come again never leave the alarm behind the sensor:
\* it shows the last reading that was acked, or already the one that is offered.
AlarmFollowsSensor ==
  LET Shows(i) == alarm = (i > 0 /\ sensor[i] = "1")
  IN  Shows(acked) \/ (acked < Len(sensor) /\ Shows(acked + 1))

\* Every reading is handled, unless it is behind one that is neither "0" nor "1".
ReadingsAreHandled ==
  []<>(acked = Len(sensor) \/ \E i \in DOMAIN sensor : sensor[i] = "other")

=============================================================================
