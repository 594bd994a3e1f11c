----------------------------- MODULE FanControllers -----------------------------
(* The fan drivers MAX6620, EMC2305 and PMBus power supply, under the fan API. *)
EXTENDS DeviceBus, SequencesExt

CONSTANTS Fan,       \* the fans of a controller
          Speed,     \* the speeds callers ask for, in rpm
          FanConf    \* the configurations of the fan devices

FanDevs == {"max6620", "emc2305", "pmbus"}
Byte == 0..255

(* What the file says of a fan is read as unsigned numbers; a controller counts *)
(* pulses and poles, a supply's map is in percent, and a supply that has a       *)
(* maximum has one that a percentage can be taken of.                            *)
ASSUME FanConfAssumption ==
  /\ Speed \subseteq Nat
  /\ \A c \in FanConf :
       /\ c.dev \in FanDevs /\ c.max \in Nat
       /\ c.dev # "pmbus" => c.maxRpm \subseteq Nat
       /\ c.dev = "max6620" => c.np \in Nat \ {0} /\ c.volt \in Nat
       /\ c.dev = "emc2305" => c.poles \in Nat \ {0}
       /\ c.dev = "pmbus" =>
            /\ c.map \in Seq([rpm : Nat, pct : Byte]) /\ c.words \subseteq Byte \X Byte
            /\ c.default \in Nat /\ (c.max = 0 \/ c.max >= 100)

NoSpeed == -1
Stopped == 2047      \* MAX6620_MAX_TACH_COUNT

(* resource_init runs for every fan at the start, and again when the entity of  *)
(* the fan is initialised again; it sets a speed of its own. A fan is called    *)
(* once it has run: the fans in drv.ready.                                      *)
Usable(d, f) == On(d) /\ f \in drv.ready
Forgotten(f) == [seen EXCEPT !.want[f] = NoSpeed]
NothingSeen == [want |-> [f \in Fan |-> NoSpeed], raised |-> {}]

(* The world: whenever its turns are counted, a fan has not started yet, is stuck *)
(* or turns at the speed its controller drives.                                   *)
FansTurn == {"stopped", "stuck", "target"}

--------------------------------------------------------------------------------
(* MAX6620. fault is FANFAULT, which reading clears; a fan in armed has its    *)
(* fault detection on: a fault turns it off until the target is written again. *)

Max6620Init ==
  /\ conf \in {c \in FanConf : c.dev = "max6620"}
  /\ chip = [full |-> FALSE, fault |-> {}, armed |-> Fan,
             count |-> [f \in Fan |-> Stopped],
             volt |-> [f \in Fan |-> conf.volt], rpmMode |-> [f \in Fan |-> FALSE]]
  /\ drv = [stage |-> "registered", ready |-> {}, latch |-> {},
            max |-> [f \in Fan |-> conf.max], period |-> [f \in Fan |-> 0]]
  /\ out = NoCall
  /\ seen = NothingSeen

Max6620ChipInit(n) ==
  /\ On("max6620") /\ drv.stage = "registered"
  /\ LET s0 == Begin(n)
         s1 == Access(s0, s0)
         s2 == Access(s1, [s1 EXCEPT !.chip.full = conf.fullOnFail])
         s3 == Access(s2, [s2 EXCEPT !.chip.fault = {}])
     IN Finish("chip_init", [s3 EXCEPT !.drv.stage = "up"], 0,
               [seen EXCEPT !.raised = @ \cap s3.chip.fault])

(* The counting period is the shortest in which the fastest turn still fits. *)
PeriodFor(max) ==
  LET fits == {p \in {1, 2, 4, 8, 16} : max <= 500 * p}
  IN IF max = 0 \/ fits = {} THEN 32 ELSE Min(fits)

TachCountPeriodSet(s, f) ==
  LET s1 == [s EXCEPT !.drv.period[f] = PeriodFor(s.drv.max[f])]
      s2 == Access(s1, s1)
  IN Access(s2, s2)

Max6620Count(s, f, rpm) ==
  IF rpm = 0 THEN Stopped ELSE (s.drv.period[f] * 60 * 8192) \div (conf.np * rpm)

(* The register takes 11 bits; writing it arms the fault detection. *)
TargetTachCountSet(s, f, count) ==
  LET s1 == Access(s, s)
  IN Access(s1, [s1 EXCEPT !.chip.count[f] = count % 2048, !.chip.armed = @ \cup {f}])

Max6620InitFan(s, f) ==
  LET s1 == GoOn(TachCountPeriodSet(s, f))
      s2 == Access(s1, s1)
      rpm == (s2.drv.max[f] * ((s2.chip.volt[f] * 100) \div 511)) \div 100
      s3 == Then(s2, TargetTachCountSet(s2, f, Max6620Count(s2, f, rpm)))
  IN Access(s3, [s3 EXCEPT !.chip.rpmMode[f] = TRUE])

Max6620ResourceInit(n, f) ==
  /\ On("max6620") /\ drv.stage = "up"
  /\ \E maxRpm \in conf.maxRpm :
       LET s0 == [Begin(n) EXCEPT !.drv.max[f] = IF maxRpm = 0 THEN @ ELSE maxRpm,
                                  !.drv.ready = @ \cup {f}]
       IN Finish("resource_init", Max6620InitFan(s0, f), 0, Forgotten(f))

Max6620SpeedSet(n, f, rpm) ==
  /\ Usable("max6620", f)
  /\ IF rpm > drv.max[f] THEN Refuse("speed_set", "unsupported")
     ELSE LET s == TargetTachCountSet(Begin(n), f, Max6620Count(Begin(n), f, rpm))
          IN Finish("speed_set", s, 0, IF s.ok THEN [seen EXCEPT !.want[f] = rpm] ELSE seen)

(* What the counter of a fan shows: its target once it turns as told. *)
Max6620Tach(f, run) ==
  CASE run = "target" -> chip.count[f] [] run = "stuck" -> 0 [] OTHER -> Stopped

Max6620Rpm(f, tach) == (drv.period[f] * 60 * 8192) \div (conf.np * tach)

(* A count of 0 leaves the caller's variable as it was. The properties need to *)
(* know how the fan turned.                                                    *)
Max6620SpeedGet(n, f) ==
  /\ Usable("max6620", f)
  /\ \E run \in FansTurn :
       LET s == Access(Begin(n), Begin(n))
           tach == Max6620Tach(f, run)
       IN Finish("speed_get", s,
               [fan |-> f, run |-> run,
                rpm |-> CASE tach = 0 -> NoSpeed
                          [] tach = Stopped -> 0
                          [] OTHER -> Max6620Rpm(f, tach)], seen)

(* Mutant: the latch holds what the last read brought. *)
LatchFaultsOver(s) == [s EXCEPT !.drv.latch = s.chip.fault, !.chip.fault = {}]

(* Reading FANFAULT takes the bits of every fan: they go to the driver's latch, *)
(* and the bit of fan f leaves it once f is armed again.                        *)
LatchFaults(s) == [s EXCEPT !.drv.latch = @ \cup s.chip.fault, !.chip.fault = {}]
Reported(f) == [seen EXCEPT !.raised = @ \ {f}]
Unlatch(s, f) == Then(s, [s EXCEPT !.drv.latch = @ \ {f}])

Max6620StatusGet(n, f) ==
  /\ Usable("max6620", f)
  /\ LET s0 == Begin(n)
         s1 == Access(s0, LatchFaults(s0))
         s == Unlatch(TargetTachCountSet(s1, f, s1.chip.count[f]), f)
     IN IF f \in s1.drv.latch
        THEN Finish("status_get", s, [fan |-> f, bad |-> TRUE],
                    IF s.ok THEN Reported(f) ELSE seen)
        ELSE Finish("status_get", s1, [fan |-> f, bad |-> FALSE], seen)

(* The world: a fan fails. *)
Max6620Fault(f) ==
  /\ Usable("max6620", f) /\ f \in chip.armed
  /\ chip' = [chip EXCEPT !.fault = @ \cup {f}, !.armed = @ \ {f}]
  /\ seen' = [seen EXCEPT !.raised = @ \cup {f}]
  /\ UNCHANGED <<conf, drv, out>>

--------------------------------------------------------------------------------
(* EMC2305. The three fault registers clear as they are read. *)

EdgesOf(poles) == 2 * poles + 1

Emc2305Init ==
  /\ conf \in {c \in FanConf : c.dev = "emc2305"}
  /\ chip = [stall |-> {}, spin |-> {}, fail |-> {}, watchdog |-> FALSE,
             min |-> [f \in Fan |-> 102], hi |-> [f \in Fan |-> 255],
             lo |-> [f \in Fan |-> 248], setting |-> [f \in Fan |-> 0]]
  /\ drv = [stage |-> "registered", ready |-> {}, max |-> [f \in Fan |-> conf.max]]
  /\ out = NoCall
  /\ seen = NothingSeen

ReadAndClear(s, reg) == Access(s, [s EXCEPT !.val = s.chip[reg], !.chip[reg] = {}])

Emc2305ChipInit(n) ==
  /\ On("emc2305") /\ drv.stage = "registered"
  /\ LET s0 == Begin(n)
         s1 == Access(s0, [s0 EXCEPT !.chip.watchdog = FALSE])
         s2 == ReadAndClear(ReadAndClear(ReadAndClear(s1, "stall"), "spin"), "fail")
     IN Finish("chip_init", [s2 EXCEPT !.drv.stage = "up"], 0, seen)

(* sdi_rpm_to_tach_count: a 16 bit count, shifted left by 3 in 16 bits. *)
RpmToTachCount(rpm) ==
  LET k == ((((EdgesOf(conf.poles) - 1) * 32768 * 60) \div conf.poles) * conf.poles) \div rpm
  IN (((k % 65536) * 8) % 65536)

Percent(s, f, rpm) == (rpm * 100) \div s.drv.max[f]

(* speed_set: no faster than the maximum; two bytes of the target and the mode, *)
(* or the drive setting.                                                        *)
Emc2305Divides(s, f, rpm) ==
  IF conf.control = "rpm" THEN Min2(rpm, s.drv.max[f]) # 0 ELSE s.drv.max[f] # 0

Emc2305Target(s, f, tach) ==
  LET s1 == Access(s, [s EXCEPT !.chip.hi[f] = tach \div 256])
      s2 == Access(s1, [s1 EXCEPT !.chip.lo[f] = tach % 256])
  IN Access(s2, s2)

Emc2305SetSpeed(s, f, asked) ==
  LET rpm == Min2(asked, s.drv.max[f])
  IN IF conf.control = "rpm" THEN Emc2305Target(s, f, RpmToTachCount(rpm))
     ELSE Access(s, [s EXCEPT !.chip.setting[f] = (Percent(s, f, rpm) * 255) \div 100])

(* The maximum of the entity counts where the file has none. *)
Emc2305ResourceInit(n, f) ==
  /\ On("emc2305") /\ drv.stage = "up"
  /\ \E maxRpm \in conf.maxRpm :
       LET s1 == [GoOn(Access(Begin(n), [Begin(n) EXCEPT !.chip.min[f] = 80])) EXCEPT
                    !.drv.max[f] = IF @ = 0 THEN maxRpm ELSE @,
                    !.drv.ready = @ \cup {f}]
       IN IF Emc2305Divides(s1, f, s1.drv.max[f])
          THEN Finish("resource_init", Emc2305SetSpeed(s1, f, s1.drv.max[f]), 0, Forgotten(f))
          ELSE Die("resource_init")

Emc2305SpeedSet(n, f, rpm) ==
  /\ Usable("emc2305", f)
  /\ IF ~Emc2305Divides(Begin(n), f, rpm) THEN Die("speed_set")
     ELSE LET s == Emc2305SetSpeed(Begin(n), f, rpm)
          IN Finish("speed_set", s, 0,
                    [seen EXCEPT !.want[f] = IF s.ok THEN rpm ELSE NoSpeed])

Emc2305Tach(f, run) ==
  CASE run = "target" -> (chip.hi[f] * 256 + chip.lo[f]) \div 8
    [] run = "stuck" -> 0
    [] OTHER -> 8191

Emc2305SpeedGet(n, f) ==
  /\ Usable("emc2305", f)
  /\ \E run \in FansTurn :
       LET s1 == Access(Begin(n), Begin(n))
           s == Access(s1, s1)
           top == (EdgesOf(conf.poles) - 1) * 32768 * 2 * 60
           tach == Emc2305Tach(f, run)
       IN IF s.ok /\ tach = 0 THEN Die("speed_get")
          ELSE Finish("speed_get", s, [fan |-> f, rpm |-> top \div (tach * conf.poles)], seen)

(* Mutant: the search goes on after the bit was found, and the last word *)
(* counts.                                                               *)
Emc2305FaultsLast(s, f) ==
  LET s1 == ReadAndClear(ReadAndClear(ReadAndClear(s, "stall"), "spin"), "fail")
  IN Access(s1, [s1 EXCEPT !.val = IF s1.chip.watchdog THEN {f} ELSE {}])

(* status_get: the first fault register with the fan's bit ends the search; the *)
(* last word is the watchdog's.                                                 *)
Emc2305Look(s, f, reg) ==
  IF f \in s.val THEN s ELSE ReadAndClear([s EXCEPT !.val = {}], reg)

Emc2305Faults(s, f) ==
  LET s0 == [s EXCEPT !.val = {}]
      s1 == Emc2305Look(Emc2305Look(Emc2305Look(s0, f, "stall"), f, "spin"), f, "fail")
      found == s1.ok /\ f \in s1.val
      s2 == Access(s1, [s1 EXCEPT !.val = IF s1.chip.watchdog THEN {f} ELSE {}])
  IN IF found THEN s1 ELSE s2

Emc2305StatusGet(n, f) ==
  /\ Usable("emc2305", f)
  /\ LET s == Emc2305Faults(Begin(n), f)
     IN Finish("status_get", s, [fan |-> f, bad |-> f \in s.val], seen)

(* The world: one of the fault registers notes a fan. *)
Emc2305Fault(f) ==
  /\ Usable("emc2305", f) /\ ~\E r \in {"stall", "spin", "fail"} : f \in chip[r]
  /\ \E reg \in {"stall", "spin", "fail"} : chip' = [chip EXCEPT ![reg] = @ \cup {f}]
  /\ UNCHANGED <<conf, drv, out, seen>>

--------------------------------------------------------------------------------
(* PMBus power supply (the S6000's): one fan, one temperature, words in the *)
(* linear format, a map from rpm to percent for the unit's part number, if  *)
(* configured.                                                              *)

PsuFan == Min(Fan)

(* The speeds of the file, each put before those that were read before it. *)
S6kPsuSpeeds(map) == Reverse(map)

PmbusInit ==
  /\ conf \in {c \in FanConf : c.dev = "pmbus"}
  /\ chip = [pct |-> 0, word |-> <<0, 0>>, fault |-> FALSE]
  /\ drv = [ready |-> {}, max |-> 0, map |-> S6kPsuSpeeds(conf.map)]
  /\ out = NoCall
  /\ seen = NothingSeen

TwoTo[n \in 0..16] == IF n = 0 THEN 1 ELSE 2 * TwoTo[n - 1]

(* An 11 bit mantissa and a 5 bit exponent, both in two's complement, rounded *)
(* toward zero.                                                               *)
LinearDataToInt(msb, lsb) ==
  LET y0 == (msb % 8) * 256 + lsb
      n0 == msb \div 8
      y == IF y0 >= 1024 THEN y0 - 2048 ELSE y0
      n == IF n0 >= 16 THEN n0 - 32 ELSE n0
  IN IF n >= 0 THEN y * TwoTo[n]
     ELSE IF y < 0 THEN -((-y) \div TwoTo[-n]) ELSE y \div TwoTo[-n]

AbsDiff(a, b) == IF a >= b THEN a - b ELSE b - a

(* The entry of the map nearest in one field, the first of those as near: the  *)
(* best of the first k entries.                                                *)
Best(map, field, x) ==
  LET best[k \in 1..Len(map)] ==
        IF k > 1 /\ AbsDiff(x, map[k][field]) >= AbsDiff(x, best[k - 1][field])
        THEN best[k - 1] ELSE map[k]
  IN best
Nearest(map, field, x) == Best(map, field, x)[Len(map)]

FanSpeedRpmToPct(max, mapped, rpm) ==
  IF mapped /\ drv.map # <<>> THEN Nearest(drv.map, "rpm", rpm).pct
  ELSE IF max # 0 THEN rpm \div (max \div 100) ELSE 100

FanSpeedPctToRpm(max, pct) ==
  IF drv.map # <<>> THEN Nearest(drv.map, "pct", pct).rpm
  ELSE IF max # 0 THEN (pct * max) \div 100 ELSE 0

PmbusSetSpeed(s, mapped, rpm) ==
  Access(s, [s EXCEPT !.chip.pct = FanSpeedRpmToPct(s.drv.max, mapped, rpm) % 256])

(* The start-up has no resource handle, so it does not use the map. *)
PmbusResourceInit(n, f) ==
  /\ On("pmbus") /\ f = PsuFan
  /\ LET s == [Begin(n) EXCEPT !.drv.ready = {f}, !.drv.max = conf.max]
     IN Finish("resource_init",
               IF conf.default # 0 THEN PmbusSetSpeed(s, FALSE, conf.default) ELSE s, 0,
               Forgotten(f))

PmbusSpeedSet(n, f, rpm) ==
  /\ Usable("pmbus", f)
  /\ LET s == PmbusSetSpeed(Begin(n), TRUE, rpm)
     IN Finish("speed_set", s, 0, IF s.ok THEN [seen EXCEPT !.want[f] = rpm] ELSE seen)

(* Fan speed and temperature are words of the same format. *)
PmbusWordGet(n) ==
  Finish("word_get", Access(Begin(n), Begin(n)), LinearDataToInt(chip.word[1], chip.word[2]), seen)
PmbusTemperatureGet(n) == On("pmbus") /\ PmbusWordGet(n)
PmbusSpeedGet(n, f) == On("pmbus") /\ f = PsuFan /\ PmbusWordGet(n)

PmbusStatusGet(n, f) ==
  /\ Usable("pmbus", f)
  /\ Finish("status_get", Access(Begin(n), Begin(n)), [fan |-> f, bad |-> chip.fault], seen)

PmbusThresholds == On("pmbus") /\ Refuse("threshold", "unsupported")

PmbusWorld ==
  /\ On("pmbus")
  /\ \E b \in BOOLEAN, w \in conf.words : chip' = [chip EXCEPT !.fault = b, !.word = w]
  /\ UNCHANGED <<conf, drv, out, seen>>

--------------------------------------------------------------------------------
(* The fan API: a handle of another type is refused; without a conversion of *)
(* the driver's own, percent and rpm come from the entity's information.     *)

OnFans == \E d \in FanDevs : On(d)

FanApiRefuses == OnFans /\ Refuse("fan_api", "not_a_fan")

FanApiRpmToPct(rpm) ==
  /\ OnFans /\ drv.ready # {}
  /\ IF conf.dev = "pmbus"
     THEN Finish("rpm_to_pct", Begin(Accesses), FanSpeedRpmToPct(drv.max, TRUE, rpm), seen)
     ELSE \E info \in conf.info :
            IF info.valid /\ info.max = 0 THEN Die("rpm_to_pct")
            ELSE Finish("rpm_to_pct", Begin(Accesses),
                        IF info.valid THEN (100 * rpm) \div info.max ELSE 100, seen)

FanApiPctToRpm(pct) ==
  /\ OnFans /\ drv.ready # {}
  /\ IF conf.dev = "pmbus"
     THEN Finish("pct_to_rpm", Begin(Accesses), FanSpeedPctToRpm(drv.max, pct), seen)
     ELSE \E info \in conf.info :
            Finish("pct_to_rpm", Begin(Accesses),
                   IF info.valid THEN (pct * info.max) \div 100 ELSE 0, seen)

--------------------------------------------------------------------------------
FanInit == Max6620Init \/ Emc2305Init \/ PmbusInit

FanStart(n) == Max6620ChipInit(n) \/ Emc2305ChipInit(n)

FanCall(n, f) ==
  \/ Max6620ResourceInit(n, f) \/ Emc2305ResourceInit(n, f) \/ PmbusResourceInit(n, f)
  \/ Max6620SpeedGet(n, f) \/ Max6620StatusGet(n, f)
  \/ Emc2305SpeedGet(n, f) \/ Emc2305StatusGet(n, f)
  \/ PmbusSpeedGet(n, f) \/ PmbusStatusGet(n, f)
  \/ \E rpm \in Speed :
       Max6620SpeedSet(n, f, rpm) \/ Emc2305SpeedSet(n, f, rpm) \/ PmbusSpeedSet(n, f, rpm)

FanNext ==
  \/ \E n \in Fails : FanStart(n) \/ PmbusTemperatureGet(n)
  \/ \E n \in Fails, f \in Fan : FanCall(n, f)
  \/ \E f \in Fan : Max6620Fault(f) \/ Emc2305Fault(f)
  \/ PmbusWorld
  \/ PmbusThresholds \/ FanApiRefuses
  \/ \E rpm \in Speed : FanApiRpmToPct(rpm)
  \/ \E pct \in {0, 50} : FanApiPctToRpm(pct)

--------------------------------------------------------------------------------
(* sdi_max6620_fan_status_get takes the fault bits of every fan in one read: a  *)
(* fault nobody was told of is still in the register or in the latch, and a fan *)
(* whose speed was ever set has its detection on, or its fault is still to be   *)
(* told.                                                                        *)
FaultKept ==
  Is("max6620") =>
    /\ seen.raised \subseteq chip.fault \cup drv.latch
    /\ \A f \in Fan : seen.want[f] # NoSpeed => f \in chip.armed \cup chip.fault \cup drv.latch

(* A poll of a fan that comes back without an error tells of every fault that *)
(* the registers or the latch held of that fan, whichever access comes last.  *)
Noted(f) ==
  CASE Is("max6620") -> f \in chip.fault \cup drv.latch
    [] Is("emc2305") -> f \in chip.stall \cup chip.spin \cup chip.fail
    [] OTHER -> FALSE
FaultTold ==
  [][\A f \in Fan : (out'.call = "status_get" /\ out'.res = "ok" /\ Noted(f))
                      => (out'.val.fan = f => out'.val.bad)]_device

Fits(count, top) == count \in 1..top

(* MAX6620: the count is the one of the speed, if that fits the register. *)
CountStands(count, max, w) ==
  LET k == (PeriodFor(max) * 60 * 8192) \div conf.np
  IN Fits(k \div w, 2046) => count * w <= k /\ k < (count + 1) * w

(* EMC2305: the target holds the count, the setting the share of the maximum. *)
Pulses == 32768 * 60 * 4
Drives(hi, lo, setting, max, w) ==
  LET v == Min2(w, max)
      c == (hi * 256 + lo) \div 8
  IN IF conf.control = "rpm"
     THEN (conf.poles = 2 /\ Fits(Pulses \div v, 8191)) => (c * v <= Pulses /\ Pulses < (c + 1) * v)
     ELSE /\ setting * 100 * max <= v * 100 * 255
          /\ (setting + 4) * 100 * max > v * 100 * 255

(* A supply: the percentage is that of an entry no other one is nearer than. *)
MapStands(pct, w) ==
  conf.map # <<>> =>
    \E q \in ToSet(conf.map) :
      q.pct = pct /\ \A r \in ToSet(conf.map) : AbsDiff(w, q.rpm) <= AbsDiff(w, r.rpm)

(* The speed the controller drives is the one of the last call that was      *)
(* accepted: the target of MAX6620 and EMC2305 gives the speed back in whole *)
(* counts, for the speeds whose count fits its register, and no failing call *)
(* leaves another one.                                                       *)
SpeedStands ==
  conf.dev \in FanDevs => \A f \in Fan : seen.want[f] > 0 =>
    CASE Is("max6620") -> CountStands(chip.count[f], drv.max[f], seen.want[f])
      [] Is("emc2305") ->
           Drives(chip.hi[f], chip.lo[f], chip.setting[f], drv.max[f], seen.want[f])
      [] OTHER -> MapStands(chip.pct, seen.want[f])

(* A speed read back from a fan that runs at the count it was given is the *)
(* speed asked for, or the least above it that the count can tell apart.   *)
SpeedReadsBack ==
  (out.call = "speed_get" /\ out.res = "ok" /\ Is("max6620")) =>
    LET f == out.val.fan
        w == seen.want[f]
        k == (drv.period[f] * 60 * 8192) \div conf.np
    IN (w > 0 /\ Fits(k \div w, 2046) /\ out.val.run = "target")
         => (out.val.rpm >= w /\ k \div out.val.rpm = k \div w)

(* A word of the linear format is the mantissa times a power of two, rounded *)
(* toward 0.                                                                 *)
LinearExact ==
  (Is("pmbus") /\ out.call = "word_get" /\ out.res = "ok") =>
    LET w == chip.word[1] * 256 + chip.word[2]
        y == ((w + 1024) % 2048) - 1024
        n == (((w \div 2048) + 16) % 32) - 16
        Abs(x) == IF x < 0 THEN -x ELSE x
    IN IF n >= 0 THEN out.val = y * TwoTo[n]
       ELSE /\ Abs(out.val) * TwoTo[-n] <= Abs(y) /\ Abs(y) < (Abs(out.val) + 1) * TwoTo[-n]
            /\ out.val * y >= 0

FanTypeOK ==
  conf.dev \in FanDevs =>
    /\ drv.ready \subseteq Fan
    /\ seen.want \in [Fan -> Speed \cup {NoSpeed}] /\ seen.raised \subseteq Fan
    /\ Is("max6620") => /\ chip.count \in [Fan -> 0..2047]
                           /\ drv.period \in [Fan -> {0, 1, 2, 4, 8, 16, 32}]
    /\ Is("emc2305") => /\ chip.hi \in [Fan -> 0..255] /\ chip.lo \in [Fan -> 0..255]
                           /\ chip.setting \in [Fan -> 0..255]
    /\ Is("pmbus") => chip.pct \in 0..255

(* Whatever sequence of calls and failing accesses came before: the registers *)
(* keep their width, no fault is lost, the fan turns at the speed of the last *)
(* accepted call, and what is read back or converted is what the chip says.   *)
FansHonest == FanTypeOK /\ FaultKept /\ SpeedStands /\ SpeedReadsBack /\ LinearExact
================================================================================
