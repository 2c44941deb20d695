----------------------------- MODULE MCRecords -----------------------------
(***************************************************************************)
(* The two stores that keep a record in two flash copies: boot settings    *)
(* that take three values, and calibration data with two fields of one     *)
(* value each, four records.  A behaviour is one or the other.             *)
(***************************************************************************)
EXTENDS BootSetting

CONSTANTS s1, s2, dflt, Field, Value, Unset

VARIABLES part, main, backup, g_cal_nv_data, calStep, result, calCuts, calFaults

calVars == <<main, backup, g_cal_nv_data, calStep, result, calCuts, calFaults>>

Cal == INSTANCE CalNvm WITH step <- calStep, cuts <- calCuts, faults <- calFaults

ASSUME RecordAssumption == {Blank, Torn, None} \cap Cal!Record = {}

mcVars == <<part, bsvars, calVars>>

MCSetting == {s1, s2, dflt}

MCInit == part \in {"settings", "calibration"} /\ Init /\ Cal!Init

SettingsNext == part = "settings" /\ Next /\ UNCHANGED <<part, calVars>>
CalibrationNext == part = "calibration" /\ Cal!Next /\ UNCHANGED <<part, bsvars>>

MCSpec == MCInit /\ [][SettingsNext \/ CalibrationNext]_mcVars

(* The variables of both stores keep their types.                          *)
TypesOK == TypeOK /\ Cal!TypeOK

(* When ftm_cal_nvm_storage_update returns EN_CAL_OK, a load finds what    *)
(* was to be saved.                                                        *)
OkMeansSaved == Cal!OkMeansSaved

(* No power cut and no failing operation in ftm_cal_nvm_storage_update     *)
(* loses the old record before the new one is saved.                       *)
CalImplementsDurableRecord == Cal!ImplementsDurableRecord
=============================================================================
