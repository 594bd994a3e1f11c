---------------------------------- MODULE SfBus ----------------------------------
(* The SmartFusion bus, its fans, temperature sensors, external controls and *)
(* entity information. A byte of its RAM moves in three port accesses: high  *)
(* byte of the address, low byte, data. The drivers take the lock of the bus *)
(* around a call; the entity information is read through sdi_bus_read_byte,  *)
(* which does not.                                                           *)
EXTENDS DeviceBus, SequencesExt

CONSTANTS Thread,    \* the threads that call
          SfConf     \* the boards: who is on the bus, and where

ASSUME SfConfAssumption == \A c \in SfConf : c.dev = "sf"

Nobody == "nobody"
Idle == [call |-> "idle", step |-> "idle", todo |-> <<>>, got |-> <<>>, arg |-> 0]

(* conf.users are the drivers on the bus and callers the threads; fan, temp,  *)
(* low, high, status and ctrl are offsets, -1 where the configuration names   *)
(* none; fields, ppid and parts are ranges of the entity information with the *)
(* room there is for each, ppidEnds says how many ends of the PPID's are      *)
(* configured; ram is what the RAM holds.                                     *)
SfInit ==
  /\ conf \in SfConf
  /\ chip = [hi |-> 0, lo |-> 0, ram |-> conf.ram]
  /\ drv = [lock |-> Nobody, th |-> [t \in Thread |-> Idle]]
  /\ out = NoCall
  /\ seen = [sets |-> {conf.ram[conf.ctrl] * 256 + conf.ram[conf.ctrl + conf.step]},
             info |-> <<>>]

OnSf(user) == Is("sf") /\ user \in conf.users

(* Mutant: the read of a fan's speed goes to the ports at once. *)
FirstStepUnlocked(call) == IF call \in {"info", "fan"} THEN "high" ELSE "acquire"

FirstStep(call) == IF call = "info" THEN "high" ELSE "acquire"

MayCall(t) == t \in conf.callers /\ drv.th[t] = Idle /\ out.call = "none"

Start(t, call, todo, arg) ==
  /\ MayCall(t)
  /\ drv' = [drv EXCEPT !.th[t] = [call |-> call, step |-> FirstStep(call), todo |-> todo,
                                   got |-> <<>>, arg |-> arg]]
  /\ UNCHANGED <<conf, chip, out, seen>>

Read(addr) == [op |-> "read", addr |-> addr, val |-> 0]
Write(addr, val) == [op |-> "write", addr |-> addr, val |-> val]
ReadWord(offset) == <<Read(offset), Read(offset + 1)>>

--------------------------------------------------------------------------------
(* The calls. *)

SfFanSpeedGet(t) == OnSf("fan") /\ Start(t, "fan", ReadWord(conf.fan), 0)

(* The status is a pin of another bus: low, or not to be read, is a fault. *)
SfFanStatusGet ==
  /\ OnSf("fan") /\ out.call = "none"
  /\ \E level \in {"low", "high", "failed"} :
       Outcome("fan_status", IF level = "failed" THEN "failed" ELSE "ok", level # "high")
  /\ UNCHANGED <<conf, chip, drv, seen>>

SfTmpTemperatureGet(t) == OnSf("tmp") /\ Start(t, "temp", ReadWord(conf.temp), 0)

SfTmpThresholdGet(t, offset) ==
  /\ OnSf("tmp")
  /\ IF offset = -1 THEN Refuse("threshold_get", "unsupported") /\ MayCall(t)
     ELSE Start(t, "threshold", ReadWord(offset), 0)

SfTmpThresholdSet(t) == OnSf("tmp") /\ MayCall(t) /\ Refuse("threshold_set", "unsupported")

SfTmpStatusGet(t) ==
  /\ OnSf("tmp")
  /\ IF conf.status = -1 THEN Refuse("alarm_get", "unsupported") /\ MayCall(t)
     ELSE Start(t, "alarm", <<Read(conf.status)>>, 0)

SfExtCtrlGet(t) ==
  /\ OnSf("ext")
  /\ Start(t, "ext_get",
           IF conf.width = 2 THEN <<Read(conf.ctrl), Read(conf.ctrl + conf.step)>>
           ELSE <<Read(conf.ctrl)>>, 0)

(* Ten times the value, over as many bytes as steps fit the width, if two or *)
(* less.                                                                     *)
ExtBytes(v) ==
  CASE conf.width \div conf.step > 2 -> <<>>
    [] conf.width \div conf.step = 2 ->
         <<Write(conf.ctrl, ((v * 10) \div 256) % 256),
           Write(conf.ctrl + conf.step, (v * 10) % 256)>>
    [] OTHER -> <<Write(conf.ctrl, (v * 10) % 256)>>

SfExtCtrlSet(t) ==
  OnSf("ext") /\ \E v \in conf.values : Start(t, "ext_set", ExtBytes(v), v)

ExtCtrlApiRefuses(t) == OnSf("ext") /\ MayCall(t) /\ Refuse("ext_ctrl", "not_a_control")

--------------------------------------------------------------------------------
(* The entity information: one field after the other, each up to its first byte *)
(* that is not printable; arg is the number of the field, a field whose range   *)
(* starts where it ends is left out.                                            *)

Blank == 255
Printable(b) == b # Blank

(* The PPID has a range of its own, both ends configured, or is put together *)
(* from others; with one end only the registration fails.                    *)
Fields ==
  CASE conf.ppidEnds = 2 -> Append(conf.fields, conf.ppid)
    [] conf.ppidEnds = 0 -> conf.fields \o conf.parts
    [] OTHER -> <<>>

Field(k) == Fields[k]
FieldsFrom(k) == {j \in k..Len(Fields) : Field(j).first # Field(j).last}
FieldReads(k) ==
  LET f == Field(k)
  IN [j \in 1..Min2(f.room, f.last - f.first + 1) |-> Read(f.first + j - 1)]

SfEntityInfoGet(t) ==
  /\ OnSf("info") /\ FieldsFrom(1) # {}
  /\ LET k == Min(FieldsFrom(1)) IN Start(t, "info", FieldReads(k), k)

FieldEnds(th, byte) == ~Printable(byte) \/ Len(th.todo) = 1

(* What a thread does after a byte of the information. *)
AfterInfoByte(t, byte) ==
  LET th == drv.th[t]
      got == IF Printable(byte) THEN Append(th.got, byte) ELSE th.got
      next == FieldsFrom(th.arg + 1)
      field == <<th.arg, got>>
  IN IF ~FieldEnds(th, byte)
     THEN /\ drv' = [drv EXCEPT !.th[t] = [th EXCEPT !.got = got, !.todo = Tail(@), !.step = "high"]]
          /\ seen' = seen
     ELSE /\ drv' = [drv EXCEPT !.th[t] =
                       IF next = {} THEN Idle
                       ELSE [th EXCEPT !.got = <<>>, !.todo = FieldReads(Min(next)),
                                       !.arg = Min(next), !.step = "high"]]
          /\ seen' = [seen EXCEPT !.info = field]

--------------------------------------------------------------------------------
(* The steps of a call. *)

SfAcquireBus(t) ==
  /\ Is("sf") /\ drv.th[t].step = "acquire" /\ drv.lock = Nobody
  /\ drv' = [drv EXCEPT !.lock = t,
                        !.th[t].step = IF drv.th[t].todo = <<>> THEN "release" ELSE "high"]
  /\ UNCHANGED <<conf, chip, out, seen>>

Access1(t) == Head(drv.th[t].todo)

PortHigh(t) ==
  /\ Is("sf") /\ drv.th[t].step = "high"
  /\ chip' = [chip EXCEPT !.hi = Access1(t).addr \div 256]
  /\ drv' = [drv EXCEPT !.th[t].step = "low"]
  /\ UNCHANGED <<conf, out, seen>>

PortLow(t) ==
  /\ Is("sf") /\ drv.th[t].step = "low"
  /\ chip' = [chip EXCEPT !.lo = Access1(t).addr % 256]
  /\ drv' = [drv EXCEPT !.th[t].step = "data"]
  /\ UNCHANGED <<conf, out, seen>>

(* The byte at the address the ports hold: the thread's own, unless another *)
(* came between.                                                            *)
Latched == chip.hi * 256 + chip.lo

PortWrite(t) ==
  /\ Is("sf") /\ drv.th[t].step = "data" /\ Access1(t).op = "write"
  /\ chip' = [chip EXCEPT !.ram = IF Latched \in DOMAIN @ THEN [@ EXCEPT ![Latched] = Access1(t).val]
                                  ELSE @]
  /\ drv' = [drv EXCEPT !.th[t].todo = Tail(@),
                        !.th[t].step = IF Len(drv.th[t].todo) = 1 THEN "release" ELSE "high"]
  /\ UNCHANGED <<conf, out, seen>>

PortRead(t) ==
  /\ Is("sf") /\ drv.th[t].step = "data" /\ Access1(t).op = "read"
  /\ LET byte == IF Latched \in DOMAIN chip.ram THEN chip.ram[Latched] ELSE Blank
     IN IF drv.th[t].call = "info" THEN AfterInfoByte(t, byte)
        ELSE /\ drv' = [drv EXCEPT !.th[t].todo = Tail(@), !.th[t].got = Append(@, byte),
                           !.th[t].step = IF Len(drv.th[t].todo) = 1 THEN "release" ELSE "high"]
             /\ seen' = seen
  /\ UNCHANGED <<conf, chip, out>>

(* What the bytes mean: a temperature of two bytes 0xff is not ready, a control *)
(* whose last byte is 0xff is refused; temperatures and controls come in        *)
(* tenths.                                                                      *)
Word(got) == IF Len(got) = 2 THEN got[1] * 256 + got[2] ELSE got[1]
Meaning(call, got) ==
  CASE call = "fan" -> [res |-> "ok", val |-> Word(got)]
    [] call = "alarm" -> [res |-> "ok", val |-> IF got[1] = 0 THEN 0 ELSE 1]
    [] call = "ext_set" -> [res |-> "ok", val |-> 0]
    [] call = "ext_get" -> IF Last(got) = 255 THEN [res |-> "invalid", val |-> 0]
                           ELSE [res |-> "ok", val |-> Word(got) \div 10]
    [] OTHER -> IF Word(got) = 65535 THEN [res |-> "invalid", val |-> 0]
                ELSE [res |-> "ok", val |-> Word(got) \div (IF call = "temp" THEN 10 ELSE 1)]

LockAfter(call, got) == Nobody

SfReleaseBus(t) ==
  /\ Is("sf") /\ drv.th[t].step = "release" /\ out.call = "none"
  /\ LET th == drv.th[t]
         m == Meaning(th.call, th.got)
     IN /\ drv' = [drv EXCEPT !.lock = LockAfter(th.call, th.got), !.th[t] = Idle]
        /\ Outcome(th.call, m.res, m.val)
        /\ seen' = [seen EXCEPT !.sets = IF th.call = "ext_set"
                                         THEN @ \cup {th.arg * 10} ELSE @]
  /\ UNCHANGED <<conf, chip>>

(* The world: the fan and the sensor show other values. *)
SfMeasures ==
  /\ Is("sf")
  /\ \E w \in conf.words : LET put(r, a) == [r EXCEPT ![a] = w[1], ![a + 1] = w[2]]
                           IN chip' = [chip EXCEPT !.ram = put(put(@, conf.fan), conf.temp)]
  /\ UNCHANGED <<conf, drv, out, seen>>

--------------------------------------------------------------------------------
SfCall(t) ==
  \/ SfFanSpeedGet(t) \/ SfTmpTemperatureGet(t) \/ SfTmpThresholdSet(t) \/ SfTmpStatusGet(t)
  \/ SfTmpThresholdGet(t, conf.low) \/ SfTmpThresholdGet(t, conf.high)
  \/ SfExtCtrlGet(t) \/ SfExtCtrlSet(t) \/ ExtCtrlApiRefuses(t) \/ SfEntityInfoGet(t)

SfStep(t) ==
  SfAcquireBus(t) \/ PortHigh(t) \/ PortLow(t) \/ PortWrite(t) \/ PortRead(t) \/ SfReleaseBus(t)

SfNext == (\E t \in Thread : SfCall(t) \/ SfStep(t)) \/ SfFanStatusGet \/ SfMeasures

--------------------------------------------------------------------------------
(* "Read/Write api's acquire bus lock before Read/Write sequence and release   *)
(* bus lock after Read/Write sequence" (sdi_smartfusion_io.h:75): a byte moves *)
(* at the address its thread put on the ports.                                 *)
OwnRegister ==
  Is("sf") => \A t \in Thread :
    /\ drv.th[t].step = "data" => Latched = Access1(t).addr
    /\ drv.th[t].step = "low" => chip.hi = Access1(t).addr \div 256

(* A control of two bytes holds a word that some call asked for whenever nobody *)
(* has the bus, never the high byte of one and the low byte of another, and a   *)
(* get delivers such a word.                                                    *)
ControlWhole ==
  (Is("sf") /\ conf.width = 2 /\ conf.step = 1) =>
    LET word == chip.ram[conf.ctrl] * 256 + chip.ram[conf.ctrl + 1]
    IN /\ drv.lock = Nobody => word \in seen.sets
       /\ (out.call = "ext_get" /\ out.res = "ok") => \E w \in seen.sets : out.val = w \div 10

(* No call comes back with the lock of the bus in its hands, whatever its bytes *)
(* meant.                                                                       *)
LockReturned ==
  Is("sf") => \A t \in Thread : drv.lock = t => drv.th[t].step \notin {"idle", "acquire"}

(* A field of the entity information is the text its range holds: everything *)
(* before the first byte that is not printable, as far as there is room.     *)
InfoExact ==
  (Is("sf") /\ seen.info # <<>>) =>
    LET f == Field(seen.info[1])
        n == Min2(f.room, f.last - f.first + 1)
        text == [j \in 1..n |-> chip.ram[f.first + j - 1]]
        bad == {j \in 1..n : ~Printable(text[j])}
    IN seen.info[2] = SubSeq(text, 1, IF bad = {} THEN n ELSE Min(bad) - 1)

(* The RAM behind two address ports and one data port is used whole: no thread *)
(* moves another's byte, no word is a mixture of two, no call keeps the bus,   *)
(* and a text is delivered as far as it goes.                                  *)
SfWhole == OwnRegister /\ ControlWhole /\ LockReturned /\ InfoExact
================================================================================
