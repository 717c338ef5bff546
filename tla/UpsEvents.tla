------------------------------ MODULE UpsEvents ------------------------------
(***************************************************************************)
(* ups.status as a set of flags (ups_status.rs) and the events a change of *)
(* it amounts to (ups_event.rs), which is all that listeners of the event  *)
(* API hear of the change.                                                 *)
(***************************************************************************)
EXTENDS Integers, Sequences, SequencesExt, FiniteSets

(* The flags in the order of their bits, with their words. *)
FlagTable == <<
    <<"ALARM", "ALARM">>, <<"BOOST", "BOOST">>, <<"BYPASS", "BYPASS">>, <<"CALIBRATING", "CAL">>,
    <<"CHARGING", "CHRG">>, <<"COMM", "COMM">>, <<"DISCHARGE", "DISCHRG">>,
    <<"FORCED_SHUTDOWN", "FSD">>, <<"LOW_BATTERY", "LB">>, <<"NOCOMM", "NOCOMM">>,
    <<"OFFLINE", "OFF">>, <<"ONLINE", "OL">>, <<"ON_BATTERY", "OB">>, <<"OVERLOADED", "OVER">>,
    <<"REPLACE_BATTERY", "RB">>, <<"TEST", "TEST">>, <<"TICK", "TICK">>, <<"TOCK", "TOCK">>,
    <<"TRIM", "TRIM">> >>

Flags == {FlagTable[i][1] : i \in 1..Len(FlagTable)}

(* UpsStatus::new: unknown words are ignored. *)
UpsStatus(words) ==
    {FlagTable[i][1] : i \in {j \in 1..Len(FlagTable) : \E w \in 1..Len(words) : words[w] = FlagTable[j][2]}}

(* Display: the words of the flags, lowest bit first. *)
StatusWords(status) ==
    LET Written[i \in 1..(Len(FlagTable) + 1)] ==
            IF i = 1 THEN <<>>
            ELSE IF FlagTable[i - 1][1] \in status THEN Append(Written[i - 1], FlagTable[i - 1][2])
            ELSE Written[i - 1]
    IN Written[Len(FlagTable) + 1]

Unset(status, flags) == status \ flags

-----------------------------------------------------------------------------
(* The event of a flag that appears ... *)
Added == [ALARM |-> "AlarmOn", BOOST |-> "Boosting", BYPASS |-> "BypassOn",
          CALIBRATING |-> "Calibrating", CHARGING |-> "Charging", COMM |-> "COMM",
          DISCHARGE |-> "Discharging", FORCED_SHUTDOWN |-> "FSD", LOW_BATTERY |-> "LowBattery",
          NOCOMM |-> "NoCOMM", OFFLINE |-> "DeviceOff", ONLINE |-> "Online",
          ON_BATTERY |-> "OnBattery", OVERLOADED |-> "Overloaded",
          REPLACE_BATTERY |-> "ReplaceBattery", TEST |-> "Testing", TRIM |-> "Trimming"]

(* Faulty variant: a device that is switched on again is reported off. *)
RemovedCopied ==
    [ALARM |-> "AlarmOff", BOOST |-> "BoostingEnded", BYPASS |-> "BypassOff",
     CALIBRATING |-> "CalibrationCompleted", CHARGING |-> "ChargingEnded",
     DISCHARGE |-> "DischargingEnded", LOW_BATTERY |-> "LowBatteryEnded",
     OFFLINE |-> "DeviceOff", OVERLOADED |-> "OverloadEnded",
     REPLACE_BATTERY |-> "ReplaceBatteryEnded", TEST |-> "TestCompleted", TRIM |-> "TrimmingEnded"]

(* ... and of one that disappears. *)
Removed ==
    [ALARM |-> "AlarmOff", BOOST |-> "BoostingEnded", BYPASS |-> "BypassOff",
     CALIBRATING |-> "CalibrationCompleted", CHARGING |-> "ChargingEnded",
     DISCHARGE |-> "DischargingEnded", LOW_BATTERY |-> "LowBatteryEnded",
     OFFLINE |-> "DeviceOn", OVERLOADED |-> "OverloadEnded",
     REPLACE_BATTERY |-> "ReplaceBatteryEnded", TEST |-> "TestCompleted", TRIM |-> "TrimmingEnded"]

(* UpsEvents::new *)
Events(old, new) ==
    {Removed[f] : f \in Unset(old, new) \cap DOMAIN Removed}
      \cup {Added[f] : f \in Unset(new, old) \cap DOMAIN Added}

-----------------------------------------------------------------------------
(* What a listener makes of the events: it knew the flags before. *)
Listen(old, events) ==
    (old \cup {f \in DOMAIN Added : Added[f] \in events})
      \ {f \in DOMAIN Removed : Removed[f] \in events}

(* Flags whose end is reported as well. *)
TwoSided == DOMAIN Removed
=============================================================================
