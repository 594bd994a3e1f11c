--------------------------- MODULE EntityPresence ---------------------------
(***************************************************************************)
(* One entity of the chassis (a fan tray, a PSU tray or a fixed board):    *)
(* its presence, the cache of its EEPROM (entity_info) and the             *)
(* initialisation of its fans.  Units are plugged and pulled at any time;  *)
(* the entity API learns of it only when sdi_entity_presence_get polls.    *)
(*                                                                         *)
(* Each access to hardware (presence pin or BMC sensor, power sensor,      *)
(* EEPROM, reset pins, fans) is a step of its own.  The entity layer takes *)
(* no lock: its callers are one thread.                                    *)
(***************************************************************************)
EXTENDS Naturals

CONSTANTS
  Unit,   \* field-replaceable units that may be in the slot
  Config, \* kinds of entity: [psu, hotswap, bmc, powerPin : BOOLEAN]
  Fault,  \* the accesses that may fail
  NoUnit, \* an empty slot
  Zero    \* entity_info after memset, a fan set to speed 0

ConfigType == [psu : BOOLEAN, hotswap : BOOLEAN, bmc : BOOLEAN, powerPin : BOOLEAN]

ASSUME EntityAssumption ==
  /\ Config \subseteq ConfigType
  /\ Fault \subseteq {"pin", "bmc", "power", "eeprom", "reset", "fan"}
  /\ NoUnit \notin Unit /\ Zero \notin Unit /\ Zero # NoUnit

VARIABLES
  cfg,      \* the entity's configuration, constant
  unit,     \* the unit in the slot
  power,    \* its output is good (PSU)
  present,  \* entity_priv_hdl->present
  valid,    \* entity_priv_hdl->entity_info_valid
  info,     \* entity_priv_hdl->entity_info: whose contents
  fans,     \* what the fans were last initialised with, NoUnit after a reset
  pc,       \* the next step of the call under way
  op,       \* the API function called
  pres,     \* *presence, and the local presence of the callers
  good,     \* power_good
  rc,
  actual,   \* history: was a unit there when its presence was read?
  since,    \* history: units in the slot since a poll last found it empty
  late      \* history: a unit was inserted after a poll had found the slot
            \* empty and before it read the EEPROM; until nothing of what
            \* that poll has read is left

slot   == <<unit, power>>
entity == <<present, valid, info>>
vars   == <<cfg, slot, entity, fans, pc, op, pres, good, rc, actual, since, late>>

Op == {"presence", "fault", "output", "init", "reset", "power_on", "power_off"}

TypeOK ==
  /\ cfg \in Config
  /\ unit \in Unit \cup {NoUnit}
  /\ power \in BOOLEAN
  /\ present \in BOOLEAN
  /\ valid \in BOOLEAN
  /\ info \in Unit \cup {Zero}
  /\ fans \in Unit \cup {Zero, NoUnit}
  /\ pc \in {"idle", "pins", "presence", "power", "update", "eeprom", "finish"}
  /\ op \in Op
  /\ pres \in BOOLEAN
  /\ good \in BOOLEAN
  /\ rc \in {"ok", "err"}
  /\ actual \in BOOLEAN
  /\ since \subseteq Unit
  /\ late \in BOOLEAN

Init ==
  /\ cfg \in Config
  /\ unit \in IF cfg.hotswap THEN Unit \cup {NoUnit} ELSE Unit
  /\ power = TRUE
  /\ present = FALSE /\ valid = FALSE /\ info = Zero
  /\ fans = NoUnit
  /\ pc = "idle" /\ op = "presence"
  /\ pres = FALSE /\ good = FALSE /\ rc = "ok"
  /\ actual = FALSE
  /\ since = {unit} \ {NoUnit}
  /\ late = FALSE

-----------------------------------------------------------------------------
(* The slot.                                                               *)

Exchange(u) ==
  /\ cfg.hotswap
  /\ unit' = u
  /\ since' = since \cup ({u} \ {NoUnit})

Plug == \E u \in Unit :
  /\ unit = NoUnit
  /\ Exchange(u)
  /\ late' = (late \/ (pc \in {"power", "update", "eeprom"} /\ ~pres))
  /\ UNCHANGED <<cfg, power, entity, fans, pc, op, pres, good, rc, actual>>

Pull ==
  /\ unit # NoUnit
  /\ Exchange(NoUnit)
  /\ UNCHANGED <<cfg, power, entity, fans, pc, op, pres, good, rc, actual, late>>

\* The input of a PSU comes and goes.
SwitchPower ==
  /\ cfg.psu
  /\ power' = ~power
  /\ UNCHANGED <<cfg, unit, entity, fans, pc, op, pres, good, rc, actual, since, late>>

-----------------------------------------------------------------------------
(* The calls.                                                              *)

\* A caller of sdi_entity_presence_get passes a variable of any value.
Call(o) ==
  /\ pc = "idle"
  /\ o = "output" => cfg.psu
  /\ op' = o
  /\ pres' \in IF o = "presence" THEN BOOLEAN ELSE {FALSE}
  /\ rc' = "ok"
  /\ pc' = IF o \in {"reset", "power_on", "power_off"} THEN "pins" ELSE "presence"
  /\ UNCHANGED <<cfg, slot, entity, fans, good, actual, since, late>>

\* sdi_entity_reset writes its pin groups, sdi_entity_power_status_control
\* its pin; a reset of the second level may fail after the first was done.
DrivePins ==
  /\ pc = "pins"
  /\ \/ /\ fans' = NoUnit
        /\ pc' = IF op = "power_off" THEN "idle" ELSE "presence"
        /\ UNCHANGED rc
     \/ /\ "reset" \in Fault
        /\ fans' \in {fans, NoUnit}
        /\ rc' = "err" /\ pc' = "idle"
  /\ UNCHANGED <<cfg, slot, entity, op, pres, good, actual, since, late>>

\* Slip: a presence pin that cannot be read counts as an empty slot.
ReadPresenceUnchecked ==
  /\ pc = "presence"
  /\ actual' = (unit # NoUnit)
  /\ pres' \in {actual'} \cup (IF cfg.hotswap /\ Fault # {} THEN {FALSE} ELSE {})
  /\ pc' = IF cfg.psu THEN "power" ELSE "update"
  /\ good' = ~cfg.psu
  /\ since' = IF pres' THEN since ELSE {}
  /\ late' = (late /\ valid)
  /\ UNCHANGED <<cfg, slot, entity, fans, op, rc>>

\* The presence pin or sensor.  A pin that cannot be read ends the call; a
\* sensor that cannot be read leaves *presence as it was.
ReadPresence ==
  /\ pc = "presence"
  /\ actual' = (unit # NoUnit)
  /\ \/ /\ pres' = actual'
        /\ pc' = IF cfg.psu THEN "power" ELSE "update"
        /\ good' = ~cfg.psu
        /\ since' = IF pres' THEN since ELSE {}
        /\ UNCHANGED rc
     \/ /\ "pin" \in Fault /\ cfg.hotswap /\ ~cfg.bmc
        /\ rc' = "err" /\ pc' = "finish"
        /\ UNCHANGED <<pres, good, since>>
     \/ /\ "bmc" \in Fault /\ cfg.hotswap /\ cfg.bmc
        /\ rc' = "err"
        /\ pc' = IF cfg.psu THEN "power" ELSE "update"
        /\ good' = ~cfg.psu
        /\ UNCHANGED <<pres, since>>
  /\ late' = (late /\ valid)
  /\ UNCHANGED <<cfg, slot, entity, fans, op>>

\* The output of a PSU: its pin, else its sensor, else taken to be bad.  The
\* result of this access replaces that of the presence.
ReadPower ==
  /\ pc = "power"
  /\ pc' = "update"
  /\ \/ /\ cfg.powerPin
        /\ good' = (unit # NoUnit /\ power)
        /\ rc' = "ok"
     \/ /\ ~cfg.powerPin /\ cfg.bmc
        /\ good' \in IF unit = NoUnit THEN BOOLEAN ELSE {power}
        /\ rc' = "ok"
     \/ /\ ~cfg.powerPin /\ ~cfg.bmc
        /\ UNCHANGED <<good, rc>>
     \/ /\ "power" \in Fault /\ (cfg.powerPin \/ cfg.bmc)
        /\ rc' = "err"
        /\ UNCHANGED good
  /\ UNCHANGED <<cfg, slot, entity, fans, op, pres, actual, since, late>>

\* Slip: the cache is read only when a unit appears.
UpdateOnce ==
  /\ pc = "update"
  /\ present' = pres
  /\ \/ /\ pres /\ ~present
        /\ info' = Zero /\ pc' = "eeprom"
        /\ UNCHANGED valid
     \/ /\ ~(pres /\ ~present)
        /\ valid' = (valid /\ ~(~pres /\ present))
        /\ pc' = "finish"
        /\ UNCHANGED info
  /\ UNCHANGED <<cfg, slot, fans, op, pres, good, rc, actual, since, late>>

\* Slip: a removal leaves the cache valid.
UpdateKeeping ==
  /\ pc = "update"
  /\ present' = pres
  /\ LET inserted == (pres /\ ~present) \/ (~valid /\ good)
     IN  /\ info' = IF inserted THEN Zero ELSE info
         /\ pc' = IF inserted THEN "eeprom" ELSE "finish"
  /\ UNCHANGED <<cfg, slot, valid, fans, op, pres, good, rc, actual, since, late>>

\* "If presence state changed, take action": an insertion, or an invalid
\* cache with good power, clears the cache and reads the EEPROM; a removal
\* invalidates the cache.
Update ==
  /\ pc = "update"
  /\ present' = pres
  /\ LET inserted == (pres /\ ~present) \/ (~valid /\ good)
     IN  \/ /\ inserted
            /\ info' = Zero /\ pc' = "eeprom"
            /\ UNCHANGED valid
         \/ /\ ~inserted
            /\ valid' = (valid /\ ~(~pres /\ present))
            /\ pc' = "finish"
            /\ UNCHANGED info
  /\ UNCHANGED <<cfg, slot, fans, op, pres, good, rc, actual, since, late>>

\* Slip: the contents are taken without a look at the result of the read.
ReadEepromBlind ==
  /\ pc = "eeprom"
  /\ pc' = "finish"
  /\ info' = unit /\ valid' = TRUE
  /\ late' = (late /\ ~pres)
  /\ UNCHANGED <<cfg, slot, present, fans, op, pres, good, rc, actual, since>>

\* Slip: the cache is valid whether or not the EEPROM could be read.
ReadEepromUnchecked ==
  /\ pc = "eeprom"
  /\ pc' = "finish"
  /\ info' \in (IF unit = NoUnit THEN {} ELSE {unit}) \cup
               (IF unit = NoUnit \/ "eeprom" \in Fault THEN {Zero} ELSE {})
  /\ valid' = TRUE
  /\ late' = (late /\ ~pres)
  /\ UNCHANGED <<cfg, slot, present, fans, op, pres, good, rc, actual, since>>

\* The EEPROM of the unit; its result is not the caller's.
ReadEeprom ==
  /\ pc = "eeprom"
  /\ pc' = "finish"
  /\ \/ /\ unit # NoUnit
        /\ info' = unit /\ valid' = TRUE
        /\ late' = (late /\ ~pres)
     \/ /\ unit = NoUnit \/ "eeprom" \in Fault
        /\ UNCHANGED <<info, valid, late>>
  /\ UNCHANGED <<cfg, slot, present, fans, op, pres, good, rc, actual, since>>

\* The functions that only ask: presence returns what it has; the others
\* need a unit, and sdi_entity_psu_output_power_status_get asks for the power
\* once more.
FinishQuery ==
  /\ pc = "finish" /\ op \in {"presence", "fault", "output"}
  /\ pc' = "idle"
  /\ \/ op = "presence" /\ UNCHANGED rc
     \/ op # "presence" /\ pres /\ UNCHANGED rc
     \/ op # "presence" /\ ~pres /\ rc' = "err"
     \/ op = "output" /\ pres /\ "power" \in Fault /\ rc' = "err"
  /\ UNCHANGED <<cfg, slot, entity, fans, op, pres, good, actual, since, late>>

\* Slip: the result of sdi_entity_info_read is lost.
FinishInitUnchecked ==
  /\ pc = "finish" /\ op \in {"init", "reset", "power_on"}
  /\ pc' = "idle"
  /\ \/ /\ ~pres
        /\ rc' = IF op = "init" THEN "err" ELSE "ok"
        /\ UNCHANGED fans
     \/ /\ pres
        /\ fans' = IF valid THEN info ELSE Zero
        /\ rc' = "ok"
  /\ UNCHANGED <<cfg, slot, entity, op, pres, good, actual, since, late>>

\* sdi_entity_init sets the fans to the maximum speed of the cached contents,
\* and to 0 without them.  Its result is not looked at by reset and power on.
FinishInit ==
  /\ pc = "finish" /\ op \in {"init", "reset", "power_on"}
  /\ pc' = "idle"
  /\ \/ /\ ~pres
        /\ rc' = IF op = "init" THEN "err" ELSE "ok"
        /\ UNCHANGED fans
     \/ /\ pres
        /\ fans' = IF valid THEN info ELSE Zero
        /\ rc' = IF op = "init" /\ ~valid THEN "err" ELSE "ok"
     \/ /\ pres /\ "fan" \in Fault
        /\ rc' = IF op = "init" THEN "err" ELSE "ok"
        /\ UNCHANGED fans
  /\ UNCHANGED <<cfg, slot, entity, op, pres, good, actual, since, late>>

Advance == DrivePins \/ ReadPresence \/ ReadPower \/ Update \/ ReadEeprom
           \/ FinishQuery \/ FinishInit

Next == Plug \/ Pull \/ SwitchPower \/ Advance \/ \E o \in Op : Call(o)

Spec == Init /\ [][Next]_vars

\* The poller calls again and again, and no access fails for ever.
FairPolls ==
  /\ Spec
  /\ WF_vars(Advance)
  /\ SF_vars(Call("presence"))
  /\ SF_vars(ReadPresence /\ pc' # "finish")
  /\ SF_vars(ReadPower /\ rc' = "ok")
  /\ SF_vars(ReadEeprom /\ valid')

-----------------------------------------------------------------------------
(* Correctness.                                                            *)

(***************************************************************************)
(* An entity that is recorded as absent has no valid entity_info: the      *)
(* contents of a pulled unit are not given out (sdi_entity.c:150-158).     *)
(* The one way round it: a poll that found the slot empty reads the EEPROM *)
(* of a unit inserted in the meantime; the cache then stays valid until    *)
(* the EEPROM of a unit that a poll has found is read.                     *)
(***************************************************************************)
NoInfoWhenAbsent == pc = "idle" /\ ~present => ~valid \/ late

(***************************************************************************)
(* Valid contents are those of a unit that has been in the slot since a    *)
(* poll last found it empty, never those of an earlier unit and never the  *)
(* zeroes left by a failed read (sdi_entity.c:42-57), unless such a late   *)
(* reading had left the cache valid.                                       *)
(***************************************************************************)
InfoIsRecent == valid /\ pc = "idle" => info \in since \/ late

(***************************************************************************)
(* A call that goes on without error goes on with what the presence pin or *)
(* sensor said (sdi_entity.c:76-161).                                      *)
(***************************************************************************)
PresenceHonest == pc = "finish" /\ rc = "ok" => pres = actual

(***************************************************************************)
(* sdi_entity_init reports success only if the fans run at the maximum     *)
(* speed a unit's EEPROM states (sdi_entity_framework.c:698-757), unless   *)
(* a late reading had left the cache valid.                                *)
(***************************************************************************)
InitHonest == pc = "idle" /\ op = "init" /\ rc = "ok" => fans \in since \/ late

(***************************************************************************)
(* A unit that stays, with good power, is eventually known for good to be  *)
(* present and its contents are available, whatever reads fail on the way: *)
(* failed EEPROM reads are repeated (sdi_entity.c:153-155).                *)
(***************************************************************************)
UnitBecomesKnown ==
  \A u \in Unit : <>[](unit = u /\ power) => <>[](present /\ valid)
=============================================================================
