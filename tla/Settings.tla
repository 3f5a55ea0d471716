------------------------------ MODULE Settings ------------------------------
(***************************************************************************)
(* The global settings of settings.c: a RAM copy that every module reads   *)
(* and the "global" record behind it. Three of the settings stand for all: *)
(* one axis value, the boolean flags, which share a byte, and the homing   *)
(* pull-off, which is the last of the structure.                           *)
(***************************************************************************)
EXTENDS Eeprom

VARIABLE settings    \* the RAM copy

HomingFlag == 1      \* BITFLAG_HOMING_ENABLE
SoftFlag == 2        \* BITFLAG_SOFT_LIMIT_ENABLE
Defaults == [steps |-> 1, homing |-> FALSE, soft |-> FALSE, pulloff |-> 1]

Flags(s) == (IF s.homing THEN HomingFlag ELSE 0) + (IF s.soft THEN SoftFlag ELSE 0)
EncodeSettings(s) == <<s.steps, Flags(s), s.pulloff>>
DecodeSettings(data) ==
    [steps |-> data[1], homing |-> data[2] % 2 = 1,
     soft |-> (data[2] \div SoftFlag) % 2 = 1, pulloff |-> data[3]]

(* The version byte first, then the record. *)
WriteGlobal(s) == <<PutChar("version", 1, SettingsVersion)>>
                    \o WriteRecord("global", EncodeSettings(s))

(* settings_restore: defaults ($), parameters (#) or everything ( * ). *)
RestoredSettings(what) == IF what = "#" THEN settings ELSE Defaults
RestoreWrites(what) ==
    (IF what = "#" THEN <<>> ELSE WriteGlobal(Defaults))
      \o (IF what = "$" THEN <<>> ELSE RestoreParameters)

GlobalReadable(mem) ==
    /\ mem["version"][1] = SettingsVersion
    /\ Intact(mem, "global")

(* What settings_store_global_setting makes of $number=value; soft limits *)
(* need homing, and turning homing off turns them off.                    *)
StoreRefused(number, value) ==
    \/ value < 0
    \/ number = 20 /\ value # 0 /\ ~settings.homing

(* Turning homing off leaves the soft limits as they are. *)
StoredKeepSoft(number, value) ==
    CASE number = 100 -> [settings EXCEPT !.steps = value]
      [] number = 20  -> [settings EXCEPT !.soft = value # 0]
      [] number = 22  -> [settings EXCEPT !.homing = value # 0]
      [] number = 27  -> [settings EXCEPT !.pulloff = value]

StoredSettings(number, value) ==
    CASE number = 100 -> [settings EXCEPT !.steps = value]
      [] number = 20  -> [settings EXCEPT !.soft = value # 0]
      [] number = 22  -> [settings EXCEPT !.homing = value # 0,
                                          !.soft = @ /\ value # 0]
      [] number = 27  -> [settings EXCEPT !.pulloff = value]

=============================================================================
