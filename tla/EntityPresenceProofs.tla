------------------------ MODULE EntityPresenceProofs ------------------------
(***************************************************************************)
(* Theorems about EntityPresence for every set of units, every kind of     *)
(* entity and, where a theorem says so, under a condition on the faults.   *)
(* Units are inserted and pulled at any time, in the middle of a poll too. *)
(***************************************************************************)
EXTENDS EntityPresence, TLAPS

-----------------------------------------------------------------------------
(* Types.                                                                  *)

LEMMA InitType == Init => TypeOK
BY EntityAssumption DEF Init, TypeOK, Op

LEMMA SlotType ==
  ASSUME TypeOK, Plug \/ Pull \/ SwitchPower
  PROVE  TypeOK'
<1>1. CASE Plug
  BY <1>1 DEF TypeOK, Plug, Exchange, entity
<1>2. CASE Pull
  BY <1>2 DEF TypeOK, Pull, Exchange, entity
<1>3. CASE SwitchPower
  BY <1>3 DEF TypeOK, SwitchPower, entity
<1> QED BY <1>1, <1>2, <1>3

LEMMA CallType == ASSUME TypeOK, NEW o \in Op, Call(o) PROVE TypeOK'
BY DEF TypeOK, Call, entity, slot

LEMMA AdvanceType == TypeOK /\ Advance => TypeOK'
<1> SUFFICES ASSUME TypeOK, Advance PROVE TypeOK'
  OBVIOUS
<1>1. CASE DrivePins
  BY <1>1 DEF TypeOK, DrivePins, entity, slot
<1>2. CASE ReadPresence
  BY <1>2 DEF TypeOK, ReadPresence, entity, slot
<1>3. CASE ReadPower
  <2>1. good' \in BOOLEAN /\ rc' \in {"ok", "err"} /\ pc' = "update"
    BY <1>3 DEF TypeOK, ReadPower
  <2>2. UNCHANGED <<cfg, slot, entity, fans, op, pres, actual, since, late>>
    BY <1>3 DEF ReadPower
  <2> QED
    BY <2>1, <2>2 DEF TypeOK, entity, slot
<1>4. CASE Update
  BY <1>4 DEF TypeOK, Update, slot
<1>5. CASE ReadEeprom
  BY <1>5 DEF TypeOK, ReadEeprom, slot
<1>6. CASE FinishQuery
  BY <1>6 DEF TypeOK, FinishQuery, entity, slot
<1>7. CASE FinishInit
  BY <1>7 DEF TypeOK, FinishInit, entity, slot
<1> QED BY <1>1, <1>2, <1>3, <1>4, <1>5, <1>6, <1>7 DEF Advance

LEMMA NextType == TypeOK /\ [Next]_vars => TypeOK'
<1> SUFFICES ASSUME TypeOK, [Next]_vars PROVE TypeOK'
  OBVIOUS
<1>1. CASE UNCHANGED vars
  BY <1>1 DEF TypeOK, vars, slot, entity
<1> QED BY <1>1, SlotType, CallType, AdvanceType DEF Next

(***************************************************************************)
(* Every variable of the entity keeps its type: the cache holds a unit's   *)
(* contents or zeroes, never anything else (sdi_entity.c:42-57).           *)
(***************************************************************************)
THEOREM EntityTypeInvariant == Spec => []TypeOK
BY InitType, NextType, PTL DEF Spec

-----------------------------------------------------------------------------
(* The cache.                                                              *)

\* What a poll has found and not yet recorded: that the slot is empty.
Emptied == pc \in {"power", "update"} /\ ~pres

(***************************************************************************)
(* The inductive invariant.  The unit in the slot has been there since a   *)
(* poll last found the slot empty.  Unless a unit was inserted late: a     *)
(* poll that reports an empty slot is right until it ends; while the       *)
(* EEPROM is read the cache is invalid; an entity with a valid cache is    *)
(* recorded as present; and outside the steps of a poll that has found the *)
(* slot empty, a valid cache belongs to a unit that has been there since.  *)
(***************************************************************************)
CacheInv ==
  /\ unit # NoUnit => unit \in since
  /\ pc \in {"power", "update", "eeprom"} /\ ~pres => unit = NoUnit \/ late
  /\ pc = "eeprom" => (~valid \/ late) /\ (present <=> pres)
  /\ valid => present \/ late
  /\ valid /\ ~Emptied => info \in since \/ late
  /\ InitHonest

LEMMA CacheInit == Init => CacheInv
BY EntityAssumption DEF Init, CacheInv, InitHonest, Emptied

LEMMA CacheSlot ==
  ASSUME TypeOK, CacheInv, Plug \/ Pull \/ SwitchPower
  PROVE  CacheInv'
<1>1. CASE Plug
  <2>1. PICK u \in Unit : unit = NoUnit /\ unit' = u /\ since' = since \cup ({u} \ {NoUnit})
    BY <1>1 DEF Plug, Exchange
  <2>2. UNCHANGED <<present, valid, info, fans, pc, op, pres, rc>>
    BY <1>1 DEF Plug, entity
  <2>3. late' = (late \/ (pc \in {"power", "update", "eeprom"} /\ ~pres))
    BY <1>1 DEF Plug
  <2>4. unit' \in since' /\ since \subseteq since' /\ (late => late')
    BY <2>1, <2>3, EntityAssumption
  <2>5. InitHonest'
    BY <2>2, <2>4 DEF CacheInv, InitHonest
  <2> QED
    BY <2>2, <2>3, <2>4, <2>5 DEF CacheInv, Emptied
<1>2. CASE Pull
  BY <1>2 DEF TypeOK, CacheInv, InitHonest, Emptied, Pull, Exchange, entity
<1>3. CASE SwitchPower
  BY <1>3 DEF TypeOK, CacheInv, InitHonest, Emptied, SwitchPower, entity
<1> QED BY <1>1, <1>2, <1>3

LEMMA CacheCall ==
  ASSUME TypeOK, CacheInv, NEW o \in Op, Call(o)
  PROVE  CacheInv'
BY DEF TypeOK, CacheInv, InitHonest, Emptied, Call, entity, slot

LEMMA CacheAdvance ==
  ASSUME "bmc" \notin Fault, TypeOK, CacheInv, Advance
  PROVE  CacheInv'
<1>1. CASE DrivePins
  BY <1>1 DEF TypeOK, CacheInv, InitHonest, Emptied, DrivePins, entity, slot
<1>2. CASE ReadPresence
  BY <1>2 DEF TypeOK, CacheInv, InitHonest, Emptied, ReadPresence, entity, slot
<1>3. CASE ReadPower
  BY <1>3 DEF TypeOK, CacheInv, InitHonest, Emptied, ReadPower, entity, slot
<1>4. CASE Update
  BY <1>4 DEF TypeOK, CacheInv, InitHonest, Emptied, Update, slot
<1>5. CASE ReadEeprom
  BY <1>5 DEF TypeOK, CacheInv, InitHonest, Emptied, ReadEeprom, slot
<1>6. CASE FinishQuery
  BY <1>6 DEF TypeOK, CacheInv, InitHonest, Emptied, FinishQuery, entity, slot
<1>7. CASE FinishInit
  BY <1>7 DEF TypeOK, CacheInv, InitHonest, Emptied, FinishInit, entity, slot
<1> QED BY <1>1, <1>2, <1>3, <1>4, <1>5, <1>6, <1>7 DEF Advance

LEMMA CacheNext ==
  ASSUME "bmc" \notin Fault
  PROVE  TypeOK /\ CacheInv /\ [Next]_vars => CacheInv'
<1> SUFFICES ASSUME TypeOK, CacheInv, [Next]_vars PROVE CacheInv'
  OBVIOUS
<1>1. CASE UNCHANGED vars
  BY <1>1 DEF CacheInv, InitHonest, Emptied, vars, slot, entity
<1> QED BY <1>1, CacheSlot, CacheCall, CacheAdvance DEF Next

(***************************************************************************)
(* While no BMC sensor fails, valid contents are those of a unit that has  *)
(* been in the slot since a poll last found it empty, or a unit was        *)
(* inserted between the presence and the EEPROM read of a poll and the     *)
(* cache has not been read again (sdi_entity.c:42-57, 150-158).            *)
(***************************************************************************)
THEOREM CacheSafety ==
  ASSUME "bmc" \notin Fault
  PROVE  Spec => []InfoIsRecent
<1>1. Init => TypeOK /\ CacheInv
  BY InitType, CacheInit
<1>2. (TypeOK /\ CacheInv) /\ [Next]_vars => (TypeOK /\ CacheInv)'
  BY NextType, CacheNext
<1>3. TypeOK /\ CacheInv => InfoIsRecent
  BY DEF CacheInv, InfoIsRecent, Emptied
<1> QED BY <1>1, <1>2, <1>3, PTL DEF Spec

(***************************************************************************)
(* While no BMC sensor fails, an entity recorded as absent has valid       *)
(* contents only after such an insertion (sdi_entity.c:59-66, 149-158):    *)
(* whenever units come and go otherwise, and whatever reads fail.          *)
(***************************************************************************)
THEOREM AbsenceSafety ==
  ASSUME "bmc" \notin Fault
  PROVE  Spec => []NoInfoWhenAbsent
<1>1. Init => TypeOK /\ CacheInv
  BY InitType, CacheInit
<1>2. (TypeOK /\ CacheInv) /\ [Next]_vars => (TypeOK /\ CacheInv)'
  BY NextType, CacheNext
<1>3. TypeOK /\ CacheInv => NoInfoWhenAbsent
  BY DEF CacheInv, NoInfoWhenAbsent
<1> QED BY <1>1, <1>2, <1>3, PTL DEF Spec

(***************************************************************************)
(* Under the same condition a successful sdi_entity_init has set the fans  *)
(* from the contents of a unit that was there since, or after such an      *)
(* insertion (sdi_entity_framework.c:698-757).                             *)
(***************************************************************************)
THEOREM InitSafety ==
  ASSUME "bmc" \notin Fault
  PROVE  Spec => []InitHonest
<1>1. Init => TypeOK /\ CacheInv
  BY InitType, CacheInit
<1>2. (TypeOK /\ CacheInv) /\ [Next]_vars => (TypeOK /\ CacheInv)'
  BY NextType, CacheNext
<1>3. TypeOK /\ CacheInv => InitHonest
  BY DEF CacheInv
<1> QED BY <1>1, <1>2, <1>3, PTL DEF Spec

-----------------------------------------------------------------------------
(* The presence.                                                           *)

\* Once the presence is read, the poll goes on with what was read.
PresenceInv ==
  /\ pc \in {"power", "update", "eeprom"} => (pres <=> actual)
  /\ pc = "finish" /\ rc = "ok" => (pres <=> actual)

(***************************************************************************)
(* While no BMC sensor fails, a call that goes on without error goes on    *)
(* with what the presence pin or sensor said, whenever units are inserted  *)
(* or pulled (sdi_entity.c:76-161).                                        *)
(***************************************************************************)
THEOREM PresenceSafety ==
  ASSUME "bmc" \notin Fault
  PROVE  Spec => []PresenceHonest
<1>1. Init => TypeOK /\ PresenceInv
  BY InitType DEF Init, PresenceInv
<1>2. (TypeOK /\ PresenceInv) /\ [Next]_vars => (TypeOK /\ PresenceInv)'
  <2> SUFFICES ASSUME TypeOK, PresenceInv, [Next]_vars PROVE PresenceInv'
    BY NextType
  <2>1. CASE Plug \/ Pull \/ SwitchPower
    BY <2>1 DEF PresenceInv, Plug, Pull, SwitchPower, entity
  <2>2. ASSUME NEW o \in Op, Call(o) PROVE PresenceInv'
    BY <2>2 DEF PresenceInv, Call
  <2>3. CASE DrivePins \/ FinishQuery \/ FinishInit
    BY <2>3 DEF PresenceInv, DrivePins, FinishQuery, FinishInit
  <2>4. CASE ReadPresence
    BY <2>4 DEF TypeOK, PresenceInv, ReadPresence
  <2>5. CASE ReadPower \/ Update \/ ReadEeprom
    BY <2>5 DEF TypeOK, PresenceInv, ReadPower, Update, ReadEeprom
  <2>6. CASE UNCHANGED vars
    BY <2>6 DEF PresenceInv, vars
  <2> QED BY <2>1, <2>2, <2>3, <2>4, <2>5, <2>6 DEF Next, Advance
<1>3. TypeOK /\ PresenceInv => PresenceHonest
  BY DEF TypeOK, PresenceInv, PresenceHonest
<1> QED BY <1>1, <1>2, <1>3, PTL DEF Spec
=============================================================================
