-------------------------------- MODULE Sensors --------------------------------
(* The temperature sensors EMC142x, MAX6699 and TMP75 under the thermal API and *)
(* the power monitor INA219 under its API. The drivers keep the limits they     *)
(* wrote in a cache that answers threshold_get.                                 *)
EXTENDS DeviceBus, SequencesExt

CONSTANTS Sensor,      \* the connected sensors of a chip
          Limit,       \* the limits callers ask for, some out of range
          SensorConf   \* the configurations

--------------------------------------------------------------------------------
(* The kinds of limits: EMC142x low, high and critical, MAX6699 high, TMP75 low *)
(* and high. conf.types are the kinds of the chip, conf.sensors its connected   *)
(* sensors in their order; conf.default is what the file says.                  *)

ThermalDevs == {"emc142x", "max6699", "tmp75"}
Thermal == \E d \in ThermalDevs : On(d)
Types == ToSet(conf.types)
Connected == ToSet(conf.sensors)

(* Each chip has the kinds of limits of its driver and a default for each. *)
TypesOf142x == {"low", "high", "critical"}
TypesOf6699 == {"high"}
TypesOf75 == {"low", "high"}
ASSUME SensorConfAssumption ==
  \A c \in SensorConf :
    /\ c.dev \in ThermalDevs \cup {"ina219"}
    /\ c.dev \in ThermalDevs =>
         c.sensors \in Seq(Sensor) /\ \A t \in ToSet(c.types) : c.default[t] \in Int
    /\ c.dev = "emc142x" => ToSet(c.types) = TypesOf142x
    /\ c.dev = "max6699" => ToSet(c.types) = TypesOf6699
    /\ c.dev = "tmp75" => ToSet(c.types) = TypesOf75
PowerOnLimit == 85

Registered(d) ==
  /\ conf \in {c \in SensorConf : c.dev = d}
  /\ chip = [limit |-> [s \in Connected |-> [t \in Types |-> PowerOnLimit]],
             temp |-> 25, alarm |-> {}]
  /\ drv = [stage |-> "registered", limit |-> [s \in Connected |-> [t \in Types |-> 0]]]
  /\ out = NoCall
  /\ seen = [told |-> {}]
Emc142xRegister == Registered("emc142x")
Max6699Register == Registered("max6699")
Tmp75Register == Registered("tmp75")

(* A sensor of a chip whose chip_init has run. *)
Ready(d, i) == On(d) /\ drv.stage # "registered" /\ i \in Connected

InRange(v) == v \in 0..255

WriteLimit(s, i, t, v) == Access(s, [s EXCEPT !.chip.limit[i][t] = v])
CacheLimit(s, i, t, v) == [s EXCEPT !.drv.limit[i][t] = v]

(* Mutant: the cache is filled whatever became of the write. *)
Emc142xLimitCachedAlways(s, i, t, v) == CacheLimit(WriteLimit(s, i, t, v), i, t, v)

(* The write of a limit, which must fit a byte: EMC142x and MAX6699 cache it when *)
(* it arrived, TMP75 before it is sent.                                           *)
Emc142xLimit(s, i, t, v) == LET s1 == WriteLimit(s, i, t, v) IN Then(s1, CacheLimit(s1, i, t, v))
Max6699Limit(s, i, t, v) == LET s1 == WriteLimit(s, i, t, v) IN Then(s1, CacheLimit(s1, i, t, v))
Tmp75Limit(s, i, t, v) == WriteLimit(CacheLimit(s, i, t, v), i, t, v)
LimitOfChip(s, i, t, v) ==
  IF ~InRange(v) THEN [s EXCEPT !.ok = FALSE]
  ELSE CASE Is("emc142x") -> Emc142xLimit(s, i, t, v)
         [] Is("max6699") -> Max6699Limit(s, i, t, v)
         [] Is("tmp75")   -> Tmp75Limit(s, i, t, v)

(* What is known of the limits: those of a call that succeeded were written and *)
(* cached. A limit that is cached whether it arrives or not is unknown after a  *)
(* call that failed: either one of TMP75, the critical one of EMC142x after a   *)
(* start.                                                                       *)
Written(limits) == [seen EXCEPT !.told = @ \cup limits]
Doubted(limits) == [seen EXCEPT !.told = @ \ limits]
CachedEarly(t) == Is("tmp75") \/ (Is("emc142x") /\ t = "critical")

(* threshold_set: the value must fit a byte, the chip must have the kind. *)
ThresholdSet(n, i, t, v) ==
  IF ~InRange(v) THEN Refuse("threshold_set", "invalid")
  ELSE IF t \notin Types THEN Refuse("threshold_set", "unsupported")
  ELSE LET s == LimitOfChip(Begin(n), i, t, v)
       IN Finish("threshold_set", s, 0,
                 IF s.ok THEN Written({<<i, t>>})
                 ELSE Doubted(IF Is("tmp75") THEN {<<i, t>>} ELSE {}))
Emc142xThresholdSet(n, i, t, v) == Ready("emc142x", i) /\ ThresholdSet(n, i, t, v)
Max6699ThresholdSet(n, i, t, v) == Ready("max6699", i) /\ ThresholdSet(n, i, t, v)
Tmp75ThresholdSet(n, i, t, v) == Ready("tmp75", i) /\ ThresholdSet(n, i, t, v)

(* The start of one sensor: the defaults, kind after kind, each cached again *)
(* when it was set. EMC142x caches the critical one even when it was not.    *)
Default(s, i, t) ==
  LET s1 == IF s.ok THEN LimitOfChip(s, i, t, conf.default[t]) ELSE s
  IN Then(s1, CacheLimit(s1, i, t, conf.default[t]))
Emc142xSensorInit(s, i) ==
  LET s1 == Default(Default(s, i, "low"), i, "high")
      s2 == Default(s1, i, "critical")
  IN Then(s1, CacheLimit(s2, i, "critical", conf.default["critical"]))
Max6699SensorInit(s, i) == Default(s, i, "high")
Tmp75SensorInit(s, i) == Default(Default(s, i, "low"), i, "high")
SensorInit(s, i) ==
  CASE Is("emc142x") -> Emc142xSensorInit(s, i)
    [] Is("max6699") -> Max6699SensorInit(s, i)
    [] Is("tmp75")   -> Tmp75SensorInit(s, i)

AfterInit(s, sensors) ==
  IF s.ok THEN Written(sensors \X Types) ELSE Doubted(sensors \X {t \in Types : CachedEarly(t)})

(* chip_init takes the connected sensors in their order and stops at a failure: *)
(* the call after the first k of them.                                          *)
Started(n) ==
  LET after[k \in 0..Len(conf.sensors)] ==
        IF k = 0 THEN Begin(n)
        ELSE Then(after[k - 1], SensorInit(after[k - 1], conf.sensors[k]))
  IN after

ChipInit(n) ==
  /\ drv.stage = "registered"
  /\ LET s1 == Started(n)[Len(conf.sensors)]
     IN Finish("chip_init", [s1 EXCEPT !.drv.stage = "up"], 0, AfterInit(s1, Connected))
Emc142xChipInit(n) == On("emc142x") /\ ChipInit(n)
Max6699ChipInit(n) == On("max6699") /\ ChipInit(n)
Tmp75ChipInit(n) == On("tmp75") /\ ChipInit(n)

(* resource_init does the same for one sensor again, at the start and whenever *)
(* its entity is initialised again; TMP75 has none.                            *)
ThermalResourceInit(n, i) ==
  /\ Ready("emc142x", i) \/ Ready("max6699", i)
  /\ LET s1 == SensorInit(Begin(n), i)
     IN Finish("resource_init", [s1 EXCEPT !.drv.stage = "ready"], 0, AfterInit(s1, {i}))

(* threshold_get answers from the cache. *)
ThresholdGet(i, t) ==
  IF t \notin Types THEN Refuse("threshold_get", "unsupported")
  ELSE Finish("threshold_get", Begin(Accesses), <<i, t, drv.limit[i][t]>>, seen)
Emc142xThresholdGet(i, t) == Ready("emc142x", i) /\ ThresholdGet(i, t)
Max6699ThresholdGet(i, t) == Ready("max6699", i) /\ ThresholdGet(i, t)
Tmp75ThresholdGet(i, t) == Ready("tmp75", i) /\ ThresholdGet(i, t)

(* The register is a byte, whatever the sign of the temperature. *)
TemperatureGet(n) ==
  Finish("temperature_get", Access(Begin(n), Begin(n)), chip.temp % 256, seen)
Emc142xTemperatureGet(n, i) == Ready("emc142x", i) /\ TemperatureGet(n)
Max6699TemperatureGet(n, i) == Ready("max6699", i) /\ TemperatureGet(n)
Tmp75TemperatureGet(n, i) == Ready("tmp75", i) /\ TemperatureGet(n)

(* The alarm is a bit of the chip, or the comparison with both cached limits. *)
StatusGet(n, alarm) == Finish("alarm_get", Access(Begin(n), Begin(n)), alarm, seen)
Emc142xStatusGet(n, i) == Ready("emc142x", i) /\ StatusGet(n, i \in chip.alarm)
Max6699StatusGet(n, i) == Ready("max6699", i) /\ StatusGet(n, i \in chip.alarm)
Tmp75StatusGet(n, i) ==
  /\ Ready("tmp75", i)
  /\ StatusGet(n, \/ chip.temp % 256 >= drv.limit[i]["high"]
                  \/ chip.temp % 256 <= drv.limit[i]["low"])

ThermalApiRefuses == Thermal /\ Refuse("thermal_api", "not_a_sensor")

ThermalWorld ==
  /\ Thermal
  /\ \E v \in {-5, 75, 90}, a \in {{}, Connected} :
       chip' = [chip EXCEPT !.temp = v, !.alarm = a]
  /\ UNCHANGED <<conf, drv, out, seen>>

--------------------------------------------------------------------------------
(* INA219. Its registers are words, high byte first; the bus reads and writes *)
(* words low byte first, and only the first read of the start-up swaps the    *)
(* bytes. Bit 15 of the configuration resets the chip.                        *)

DefaultConfig == 14751     \* 0x399F
ResetBit == 32768
SwapBytes(w) == (w % 256) * 256 + w \div 256

Ina219Init ==
  /\ conf \in {c \in SensorConf : c.dev = "ina219"}
  /\ chip = [config |-> DefaultConfig, calib |-> 0, word |-> 0]
  /\ drv = [stage |-> "registered"]
  /\ out = NoCall
  /\ seen = [told |-> {}]

WriteConfig(s, w) ==
  LET v == SwapBytes(w)
      after == IF v >= ResetBit THEN [s.chip EXCEPT !.config = DefaultConfig, !.calib = 0]
               ELSE [s.chip EXCEPT !.config = v]
  IN Access(s, [s EXCEPT !.chip = after])
WriteCalib(s, w) == Access(s, [s EXCEPT !.chip.calib = SwapBytes(w)])

Ina219Setup(s) == WriteCalib(WriteConfig(s, conf.config), conf.calib)

Ina219ChipInit(n) ==
  /\ On("ina219") /\ drv.stage = "registered"
  /\ LET s1 == Access(Begin(n), Begin(n))
         expected == chip.config = DefaultConfig
         s2 == IF ~s1.ok \/ expected THEN s1 ELSE [s1 EXCEPT !.ok = FALSE]
         s3 == Ina219Setup(s2)
     IN Finish("chip_init", [s3 EXCEPT !.drv.stage = IF s3.ok THEN "up" ELSE "refused"], 0, seen)

(* Current and voltage are one word each, power is both: none is swapped. *)
Ina219CurrentGet(n) ==
  /\ On("ina219") /\ drv.stage # "registered"
  /\ Finish("current_get", Access(Begin(n), Begin(n)), SwapBytes(chip.word), seen)

Ina219VoltageGet(n) ==
  /\ On("ina219") /\ drv.stage # "registered"
  /\ Finish("voltage_get", Access(Begin(n), Begin(n)), SwapBytes(chip.word) \div 8, seen)

Ina219PowerGet(n) ==
  /\ On("ina219") /\ drv.stage # "registered"
  /\ LET s1 == Access(Begin(n), Begin(n))
     IN Finish("power_get", Access(s1, s1), 0, seen)

PowerApiRefuses == On("ina219") /\ Refuse("power_api", "not_a_monitor")

(* The world: a measurement; the process starts again over a chip that kept its *)
(* registers, and the power comes back.                                         *)
Ina219Measures ==
  On("ina219") /\ \E w \in {0, 258} : chip' = [chip EXCEPT !.word = w]
               /\ UNCHANGED <<conf, drv, out, seen>>
Ina219Restart ==
  On("ina219") /\ drv' = [stage |-> "registered"] /\ UNCHANGED <<conf, chip, out, seen>>
Ina219PowerCycle ==
  /\ On("ina219") /\ drv' = [stage |-> "registered"]
  /\ chip' = [config |-> DefaultConfig, calib |-> 0, word |-> 0]
  /\ UNCHANGED <<conf, out, seen>>

--------------------------------------------------------------------------------
SensorsInit == Emc142xRegister \/ Max6699Register \/ Tmp75Register \/ Ina219Init

LimitTypes == TypesOf142x

SensorsStart(n) == Emc142xChipInit(n) \/ Max6699ChipInit(n) \/ Tmp75ChipInit(n) \/ Ina219ChipInit(n)

SensorCall(n, i) ==
  \/ ThermalResourceInit(n, i)
  \/ Emc142xTemperatureGet(n, i) \/ Max6699TemperatureGet(n, i) \/ Tmp75TemperatureGet(n, i)
  \/ Emc142xStatusGet(n, i) \/ Max6699StatusGet(n, i) \/ Tmp75StatusGet(n, i)

LimitCall(n, i, t, v) ==
  \/ Emc142xThresholdSet(n, i, t, v) \/ Max6699ThresholdSet(n, i, t, v)
  \/ Tmp75ThresholdSet(n, i, t, v)

SensorsNext ==
  \/ \E n \in Fails : SensorsStart(n)
  \/ \E n \in Fails : Ina219CurrentGet(n) \/ Ina219VoltageGet(n) \/ Ina219PowerGet(n)
  \/ \E n \in Fails, i \in Sensor : SensorCall(n, i)
  \/ \E n \in Fails, i \in Sensor, t \in LimitTypes, v \in Limit : LimitCall(n, i, t, v)
  \/ \E i \in Sensor, t \in LimitTypes :
       Emc142xThresholdGet(i, t) \/ Max6699ThresholdGet(i, t) \/ Tmp75ThresholdGet(i, t)
  \/ ThermalApiRefuses \/ PowerApiRefuses
  \/ ThermalWorld \/ Ina219Measures \/ Ina219Restart \/ Ina219PowerCycle

--------------------------------------------------------------------------------
(* A limit that was written once is the one threshold_get tells, through every   *)
(* later call that fails half way, save that a failed call leaves unknown the    *)
(* limits it caches early: a failed threshold_set of TMP75 the limit it was to   *)
(* set, a failed start of TMP75 both, a failed start of EMC142x the critical one *)
(* of its sensors, each until it is written again.                               *)
LimitsAgree ==
  conf.dev \in ThermalDevs => \A p \in seen.told : drv.limit[p[1]][p[2]] = chip.limit[p[1]][p[2]]

(* A monitor whose start-up succeeded has in its register the word this start-up *)
(* sent: the configuration, which may reset the chip, is written before it, and  *)
(* a restart over a chip that kept its registers sends it again. The register    *)
(* holds it as sdi_smbus_write_word sends it, bytes exchanged: it is NOT the     *)
(* value of the file, which the comments of the driver promise.                  *)
CalibrationStands == (Is("ina219") /\ drv.stage = "up") => chip.calib = SwapBytes(conf.calib)

(* A sensor that answers calls and its driver agree on what the chip was set  *)
(* to: its limits, through the cache, and the calibration sent to it, through *)
(* a restart.                                                                 *)
SensorsAgree == LimitsAgree /\ CalibrationStands
================================================================================
