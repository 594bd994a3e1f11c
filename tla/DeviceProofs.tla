------------------------------ MODULE DeviceProofs ------------------------------
(* The displays, the sensors and the communication device: a display shows what  *)
(* was written to it last; the limits, resolutions and calibrations the          *)
(* temperature and power chips hold are those their drivers set; what the host   *)
(* is told of the chassis controller is so, and messages go through the          *)
(* mailboxes whole or not at all. For every board.                               *)
EXTENDS MC_Devices, WellFoundedInduction, SequenceTheorems, TLAPS

--------------------------------------------------------------------------------
(* Whose steps they are. A step of a driver is a step on a board with a device   *)
(* of that driver, and no step changes the board.                                *)

LEMMA FanSteps ==
  ASSUME FanNext
  PROVE  conf.dev \in FanDevs /\ UNCHANGED conf
<1> USE DEF FanDevs, On, Is, Finish, Refuse, Die
<1>1. ASSUME NEW n \in Fails, FanStart(n)
      PROVE  conf.dev \in FanDevs /\ UNCHANGED conf
  BY <1>1 DEF FanStart, Max6620ChipInit, Emc2305ChipInit
<1>2. ASSUME NEW n \in Fails, NEW f \in Fan, FanCall(n, f)
      PROVE  conf.dev \in FanDevs /\ UNCHANGED conf
  <2> USE DEF Usable
  <2>1. CASE Max6620SpeedGet(n, f) \/ Max6620StatusGet(n, f)
    BY <2>1 DEF Max6620SpeedGet, Max6620StatusGet
  <2>2. CASE Emc2305SpeedGet(n, f) \/ Emc2305StatusGet(n, f)
    <3>1. CASE Emc2305StatusGet(n, f)
      BY <3>1 DEF Emc2305StatusGet
    <3>2. CASE Emc2305SpeedGet(n, f)
      <4>1. conf.dev \in FanDevs
        BY <3>2 DEF Emc2305SpeedGet
      <4>2. PICK run \in FansTurn :
              LET s1 == Access(Begin(n), Begin(n))
                  s == Access(s1, s1)
                  top == (EdgesOf(conf.poles) - 1) * 32768 * 2 * 60
                  tach == Emc2305Tach(f, run)
              IN IF s.ok /\ tach = 0 THEN Die("speed_get")
                 ELSE Finish("speed_get", s, [fan |-> f, rpm |-> top \div (tach * conf.poles)], seen)
        BY <3>2 DEF Emc2305SpeedGet
      <4>3. (\E s, v : Finish("speed_get", s, v, seen)) => UNCHANGED conf
        OBVIOUS
      <4>4. Die("speed_get") => UNCHANGED conf
        OBVIOUS
      <4>5. Die("speed_get") \/ \E s, v : Finish("speed_get", s, v, seen)
        <5> USE <4>2
        <5> HIDE DEF Finish, Die
        <5> QED
          OBVIOUS
      <4> QED
        BY <4>1, <4>3, <4>4, <4>5
    <3> QED
      BY <2>2, <3>1, <3>2
  <2>3. CASE PmbusSpeedGet(n, f) \/ PmbusStatusGet(n, f)
    BY <2>3 DEF PmbusSpeedGet, PmbusStatusGet, PmbusWordGet
  <2>4. ASSUME NEW rpm \in Speed,
               Max6620SpeedSet(n, f, rpm) \/ Emc2305SpeedSet(n, f, rpm) \/ PmbusSpeedSet(n, f, rpm)
        PROVE  conf.dev \in FanDevs /\ UNCHANGED conf
    BY <2>4 DEF Max6620SpeedSet, Emc2305SpeedSet, PmbusSpeedSet
  <2>5. CASE Max6620ResourceInit(n, f)
    BY <2>5 DEF Max6620ResourceInit
  <2>6. CASE Emc2305ResourceInit(n, f)
    BY <2>6 DEF Emc2305ResourceInit
  <2>7. CASE PmbusResourceInit(n, f)
    BY <2>7 DEF PmbusResourceInit
  <2> QED
    BY <1>2, <2>1, <2>2, <2>3, <2>4, <2>5, <2>6, <2>7 DEF FanCall
<1>3. ASSUME \/ \E n \in Fails : PmbusTemperatureGet(n)
             \/ \E f \in Fan : Max6620Fault(f) \/ Emc2305Fault(f)
             \/ PmbusWorld \/ PmbusThresholds \/ FanApiRefuses
             \/ \E rpm \in Speed : FanApiRpmToPct(rpm)
             \/ \E pct \in {0, 50} : FanApiPctToRpm(pct)
      PROVE  conf.dev \in FanDevs /\ UNCHANGED conf
  BY <1>3 DEF PmbusTemperatureGet, PmbusWordGet, Max6620Fault, Emc2305Fault, PmbusWorld,
              Usable, PmbusThresholds, FanApiRefuses, FanApiRpmToPct, FanApiPctToRpm, OnFans
<1> QED
  BY <1>1, <1>2, <1>3 DEF FanNext

LEMMA SensorSteps ==
  ASSUME SensorsNext
  PROVE  conf.dev \in ThermalDevs \cup {"ina219"} /\ UNCHANGED conf
<1> USE DEF ThermalDevs, On, Is, Ready, Finish, Refuse
<1>1. ASSUME NEW n \in Fails, SensorsStart(n)
      PROVE  conf.dev \in ThermalDevs \cup {"ina219"} /\ UNCHANGED conf
  BY <1>1 DEF SensorsStart, Emc142xChipInit, Max6699ChipInit, Tmp75ChipInit, ChipInit, Ina219ChipInit
<1>2. ASSUME NEW n \in Fails, Ina219CurrentGet(n) \/ Ina219VoltageGet(n) \/ Ina219PowerGet(n)
      PROVE  conf.dev \in ThermalDevs \cup {"ina219"} /\ UNCHANGED conf
  BY <1>2 DEF Ina219CurrentGet, Ina219VoltageGet, Ina219PowerGet
<1>3. ASSUME NEW n \in Fails, NEW i \in Sensor, SensorCall(n, i)
      PROVE  conf.dev \in ThermalDevs \cup {"ina219"} /\ UNCHANGED conf
  BY <1>3 DEF SensorCall, ThermalResourceInit, Emc142xTemperatureGet, Max6699TemperatureGet,
              Tmp75TemperatureGet, TemperatureGet, Emc142xStatusGet, Max6699StatusGet,
              Tmp75StatusGet, StatusGet
<1>4. ASSUME NEW n \in Fails, NEW i \in Sensor, NEW t \in LimitTypes, NEW v \in Limit,
             LimitCall(n, i, t, v)
      PROVE  conf.dev \in ThermalDevs \cup {"ina219"} /\ UNCHANGED conf
  BY <1>4 DEF LimitCall, Emc142xThresholdSet, Max6699ThresholdSet, Tmp75ThresholdSet, ThresholdSet
<1>5. ASSUME NEW i \in Sensor, NEW t \in LimitTypes,
             Emc142xThresholdGet(i, t) \/ Max6699ThresholdGet(i, t) \/ Tmp75ThresholdGet(i, t)
      PROVE  conf.dev \in ThermalDevs \cup {"ina219"} /\ UNCHANGED conf
  BY <1>5 DEF Emc142xThresholdGet, Max6699ThresholdGet, Tmp75ThresholdGet, ThresholdGet
<1>6. ASSUME \/ ThermalApiRefuses \/ PowerApiRefuses
             \/ ThermalWorld \/ Ina219Measures \/ Ina219Restart \/ Ina219PowerCycle
      PROVE  conf.dev \in ThermalDevs \cup {"ina219"} /\ UNCHANGED conf
  BY <1>6 DEF ThermalApiRefuses, PowerApiRefuses, ThermalWorld, Ina219Measures, Ina219Restart,
              Ina219PowerCycle, Thermal
<1> QED
  BY <1>1, <1>2, <1>3, <1>4, <1>5, <1>6 DEF SensorsNext

LEMMA SfSteps ==
  ASSUME SfNext
  PROVE  Is("sf") /\ UNCHANGED conf
  BY DEF SfNext, SfCall, SfStep, SfFanSpeedGet, SfTmpTemperatureGet, SfTmpThresholdSet,
         SfTmpStatusGet, SfTmpThresholdGet, SfExtCtrlGet, SfExtCtrlSet, ExtCtrlApiRefuses,
         SfEntityInfoGet, SfAcquireBus, PortHigh, PortLow, PortWrite, PortRead, SfReleaseBus,
         SfFanStatusGet, SfMeasures, OnSf, Start, Refuse, Is

LEMMA CommSteps ==
  ASSUME CommNext
  PROVE  Is("comm") /\ UNCHANGED conf
  BY DEF CommNext, MsgRead, MsgWrite, PlatformInfoGet, HostSwVersionGet, HostSwVersionSet,
         HostTemperatureSet, HostAmbientTemperatureSet, MessagingEnable, FlushMsgBufferCall,
         IsWriteBufferReady, IsMsgPresent, ExtCtrlGet, ExtCtrlSet, CommApiRefuses, WriteOffset,
         RecvByte, WriteBlock, ControllerPuts, ControllerTakes, ControllerResets, Asked, Calls,
         StartCall, OnComm, Busy, World, Refuse, Is

LEMMA LedSteps ==
  ASSUME LedNext
  PROVE  conf.dev \in LedDevs \cup DisplayDevs /\ UNCHANGED conf
  BY DEF LedNext, LedOn, LedOff, DisplaySet, DisplayGet, DisplayOn, DisplayOff, DisplayGetState,
         LedApiRefuses, OnLed, OnDisplay, LedDevs, DisplayDevs, On, Is, Commanded, Finish, Refuse

LEMMA EepromSteps ==
  ASSUME EepromNext
  PROVE  Is("eeprom") /\ UNCHANGED conf
  BY DEF EepromNext, EntityInfoGet, Exchanged, On, Is, Finish, Refuse

LEMMA Starts ==
  ASSUME Init
  PROVE  /\ conf.dev \in FanDevs => FanInit
         /\ conf.dev \in ThermalDevs \cup {"ina219"} => SensorsInit
         /\ Is("sf") => SfInit
         /\ Is("comm") => CommInit
         /\ conf.dev \in LedDevs \cup DisplayDevs => LedInit
<1>1. FanInit => conf.dev \in FanDevs
  BY FanConfAssumption DEF FanInit, Max6620Init, Emc2305Init, PmbusInit
<1>2. SensorsInit => conf.dev \in ThermalDevs \cup {"ina219"}
  BY SensorConfAssumption DEF SensorsInit, Emc142xRegister, Max6699Register, Tmp75Register,
                              Registered, Ina219Init
<1>3. /\ SfInit => Is("sf")
      /\ CommInit => Is("comm")
      /\ EepromInit => Is("eeprom")
  BY SfConfAssumption, CommConfAssumption, EepromConfAssumption DEF SfInit, CommInit, EepromInit, Is
<1>4. LedInit => conf.dev \in LedDevs \cup DisplayDevs
  BY LedConfAssumption DEF LedInit
<1> QED
  BY <1>1, <1>2, <1>3, <1>4 DEF Init, Is, FanDevs, ThermalDevs, LedDevs, DisplayDevs

LEMMA Steps ==
  ASSUME [Next]_device
  PROVE  /\ UNCHANGED conf
         /\ conf.dev \in FanDevs => FanNext \/ Taken \/ UNCHANGED device
         /\ conf.dev \in ThermalDevs \cup {"ina219"} => SensorsNext \/ Taken \/ UNCHANGED device
         /\ Is("sf") => SfNext \/ Taken \/ UNCHANGED device
         /\ Is("comm") => CommNext \/ Taken \/ UNCHANGED device
         /\ conf.dev \in LedDevs \cup DisplayDevs => LedNext \/ Taken \/ UNCHANGED device
<1>1. Taken \/ UNCHANGED device => UNCHANGED conf
  BY DEF Taken, device
<1> QED
  BY <1>1, FanSteps, SensorSteps, SfSteps, CommSteps, LedSteps, EepromSteps
     DEF Next, Is, FanDevs, ThermalDevs, LedDevs, DisplayDevs

--------------------------------------------------------------------------------
(* The displays. *)

LEMMA LeastElement ==
  ASSUME NEW S \in SUBSET Nat, S # {}
  PROVE  \E x \in S : \A y \in S : x <= y
<1>1. PICK x \in S : \A y \in S : ~(<<y, x>> \in OpToRel(<, Nat))
  BY NatLessThanWellFounded, WFMin
<1>2. ASSUME NEW y \in S
      PROVE  x <= y
  <2>1. <<y, x>> \in Nat \X Nat /\ ~(<<y, x>> \in {p \in Nat \X Nat : p[1] < p[2]})
    BY <1>1 DEF OpToRel
  <2>2. ~(<<y, x>>[1] < <<y, x>>[2])
    BY <2>1
  <2> QED
    BY <2>2
<1> QED
  BY <1>2

LEMMA LeastNatural ==
  ASSUME NEW S \in SUBSET Nat, S # {}
  PROVE  Min(S) \in S /\ \A y \in S : Min(S) <= y
  BY LeastElement DEF Min

LEMMA TextIsByte ==
  ASSUME ADisplay, conf \in LedConf, NEW text \in conf.strings, ~DisplayRefuses(text)
  PROVE  Len(text) = 1 /\ text # <<>> /\ text[1] \in 0..255
<1>1. Len(text) = 1
  BY DEF DisplayRefuses
<1>2. text \in Seq(0..255)
  BY LedConfAssumption DEF ADisplay, Is
<1>3. text[1] \in 0..255
  <2>1. 1 \in 1..Len(text)
    BY <1>1
  <2> QED
    BY <1>2, <2>1, ElementOfSeq
<1>4. text # <<>>
  <2>1. Len(<<>>) = 0
    OBVIOUS
  <2> QED
    BY <1>1, <2>1
<1> QED
  BY <1>1, <1>3, <1>4

(* What a read tells of a level that shows a text is a text with that pattern. *)
LEMMA ReadInvertsMap ==
  ASSUME NEW c \in 0..255
  PROVE  CharMap(Parsed(CharMap(c))) = CharMap(c)
<1> DEFINE chars == {d \in 0..(MapSize - 1) : CharMap(d) = CharMap(c)}
<1>1. chars \in SUBSET Nat /\ c \in chars
  BY DEF MapSize
<1>2. Min(chars) \in chars
  BY <1>1, LeastNatural
<1> QED
  BY <1>1, <1>2 DEF Parsed

LEMMA DigitInvertsValue ==
  ASSUME NEW c, IsDisplayStringValid(c)
  PROVE  HexValue(FirstDigit(HexValue(c))) = HexValue(c)
<1>1. HexValue(c) \in 0..15
  BY DEF IsDisplayStringValid, HexValue
<1>2. FirstDigit(HexValue(c)) = Char(HexValue(c))
  BY <1>1 DEF FirstDigit
<1> DEFINE v == HexValue(c)
<1> HIDE DEF v
<1>3. v \in 0..15
  BY <1>1 DEF v
<1>4. HexValue(Char(v)) = v
  BY <1>3 DEF HexValue, Char
<1> QED
  BY <1>2, <1>4 DEF v

(* A call that writes the pins leaves them as they were or shows the level. *)
RegShape == chip = [shown |-> chip.shown, lit |-> chip.lit]

LEMMA LevelWritten ==
  ASSUME RegShape, NEW n, NEW v
  PROVE  LET s == WriteLevel(Begin(n), v)
         IN /\ s = [ok |-> s.ok, left |-> s.left, val |-> 0, chip |-> s.chip, drv |-> drv]
            /\ s.chip = IF s.ok THEN [chip EXCEPT !.shown = v] ELSE chip
  BY DEF WriteLevel, Access, Begin, RegShape

LEMMA LevelRead ==
  ASSUME NEW n
  PROVE  ReadLevel(Begin(n)).drv = drv /\ ReadLevel(Begin(n)).chip = chip
  BY DEF ReadLevel, Access, Begin

LEMMA PinSwitched ==
  ASSUME RegShape, NEW n, NEW v
  PROVE  LET s == SwitchPin(Begin(n), v)
         IN /\ s.drv = drv
            /\ s.chip = IF s.ok THEN [chip EXCEPT !.lit = v] ELSE chip
  BY DEF SwitchPin, Access, Begin, RegShape

(* The inductive invariant of the displays: what the hardware shows and what the *)
(* driver remembers follow from the text and the state the callers know.         *)
SevenHolds ==
  Is("seven") =>
    /\ seen.text # <<>> => /\ IsDisplayStringValid(seen.text[1])
                           /\ chip.shown = HexValue(seen.text[1])
    /\ seen.state = "on" => chip.lit = 1
    /\ seen.state = "off" => chip.lit = 0
SegmentHolds ==
  Is("segment") =>
    /\ seen.text # <<>> => /\ seen.text[1] \in 0..255
                           /\ drv.last = CharMap(seen.text[1])
                           /\ seen.state = "on" => chip.shown = CharMap(seen.text[1])
    /\ seen.state = "off" => chip.shown = conf.off
DisplayShape ==
  /\ conf \in LedConf
  /\ RegShape
  /\ drv = [last |-> drv.last]
  /\ seen = [text |-> seen.text, state |-> seen.state]
DisplayInv == ADisplay => DisplayShape /\ SevenHolds /\ SegmentHolds /\ GetTellsText /\ StateTold

LEMMA DisplayStarts == Init => DisplayInv
<1> SUFFICES ASSUME Init, ADisplay
             PROVE  DisplayShape /\ SevenHolds /\ SegmentHolds /\ GetTellsText /\ StateTold
  BY DEF DisplayInv
<1>1. LedInit
  BY Starts DEF ADisplay, Is, DisplayDevs
<1> QED
  BY <1>1 DEF LedInit, DisplayShape, RegShape, SevenHolds, SegmentHolds, GetTellsText, StateTold, NoCall

LEMMA DisplayKept == DisplayInv /\ [Next]_device => DisplayInv'
<1> SUFFICES ASSUME DisplayInv, [Next]_device, ADisplay'
             PROVE  (DisplayShape /\ SevenHolds /\ SegmentHolds /\ GetTellsText /\ StateTold)'
  BY DEF DisplayInv
<1>1. conf' = conf /\ ADisplay
  BY Steps DEF ADisplay, Is
<1>2. DisplayShape /\ SevenHolds /\ SegmentHolds /\ GetTellsText /\ StateTold
  BY <1>1 DEF DisplayInv
<1>3. Is("seven") \/ Is("segment")
  BY <1>1 DEF ADisplay, DisplayDevs
<1>4. \A c : CharMap(c)' = CharMap(c) /\ Pattern(c)' = Pattern(c)
  BY <1>1 DEF CharMap, Pattern, Is
<1>5. CASE Taken \/ UNCHANGED device
  BY <1>1, <1>2, <1>4, <1>5
     DEF Taken, device, DisplayShape, RegShape, SevenHolds, SegmentHolds, GetTellsText, StateTold,
         NoCall, Dark, Is, ADisplay
<1>6. CASE DisplaySet
  <2>1. PICK n \in Fails, text \in conf.strings :
          IF DisplayRefuses(text) THEN Refuse("display_set", "invalid")
          ELSE LET s == WriteLevel(Begin(n), Pattern(text[1]))
               IN Commanded("display_set",
                            IF Is("segment") THEN Remember(s, Pattern(text[1])) ELSE s, text,
                            IF Is("segment") THEN "on" ELSE seen.state)
    BY <1>6 DEF DisplaySet
  <2>2. CASE DisplayRefuses(text)
    BY <1>1, <1>2, <1>4, <2>1, <2>2
       DEF Refuse, Outcome, DisplayShape, RegShape, SevenHolds, SegmentHolds, GetTellsText,
           StateTold, Dark, Is, ADisplay
  <2>3. CASE ~DisplayRefuses(text)
    <3> DEFINE p == Pattern(text[1])
               s == WriteLevel(Begin(n), p)
               r == IF Is("segment") THEN Remember(s, p) ELSE s
    <3>1. /\ s = [ok |-> s.ok, left |-> s.left, val |-> 0, chip |-> s.chip, drv |-> drv]
          /\ s.chip = IF s.ok THEN [chip EXCEPT !.shown = p] ELSE chip
      BY <1>2, LevelWritten DEF DisplayShape
    <3>2. /\ r.ok = s.ok /\ r.chip = s.chip
          /\ r.drv = IF s.ok /\ Is("segment") THEN [drv EXCEPT !.last = p] ELSE drv
      <4> HIDE DEF s, p
      <4> QED
        BY <3>1 DEF Remember, Then
    <3>3. /\ chip' = s.chip /\ drv' = r.drv
          /\ seen' = IF s.ok THEN [seen EXCEPT !.text = text,
                                               !.state = IF Is("segment") THEN "on" ELSE @]
                     ELSE seen
          /\ out'.call = "display_set"
      <4>1. Commanded("display_set", r, text, IF Is("segment") THEN "on" ELSE seen.state)
        BY <2>1, <2>3
      <4> HIDE DEF r, s
      <4> QED
        BY <3>2, <4>1 DEF Commanded, Finish, Outcome, Shows
    <3>4. /\ text # <<>> /\ text[1] \in 0..255
          /\ Is("seven") => IsDisplayStringValid(text[1]) /\ p = HexValue(text[1])
          /\ Is("segment") => p = CharMap(text[1])
      BY <1>1, <1>2, <2>3, TextIsByte DEF DisplayShape, DisplayRefuses, Pattern, Is
    <3> HIDE DEF s, r, p
    <3>5. DisplayShape'
      BY <1>1, <1>2, <3>1, <3>2, <3>3 DEF DisplayShape, RegShape
    <3>6. SevenHolds'
      BY <1>1, <1>2, <3>1, <3>2, <3>3, <3>4 DEF SevenHolds, DisplayShape, RegShape, Is
    <3>7. SegmentHolds'
      BY <1>1, <1>2, <1>4, <3>1, <3>2, <3>3, <3>4 DEF SegmentHolds, DisplayShape, RegShape, Is
    <3>8. GetTellsText' /\ StateTold'
      BY <3>3 DEF GetTellsText, StateTold
    <3> QED
      BY <3>5, <3>6, <3>7, <3>8
  <2> QED
    BY <2>2, <2>3
<1>7. CASE DisplayGet
  <2>1. PICK n \in Fails :
          Finish("display_get", ReadLevel(Begin(n)),
                 IF Is("seven") THEN FirstDigit(chip.shown) ELSE Parsed(chip.shown), seen)
    BY <1>7 DEF DisplayGet
  <2>2. /\ UNCHANGED <<chip, drv, seen>> /\ out'.call = "display_get"
        /\ out'.res = "ok" =>
             out'.val = IF Is("seven") THEN FirstDigit(chip.shown) ELSE Parsed(chip.shown)
    BY <2>1, LevelRead DEF Finish, Outcome
  <2>3. GetTellsText'
    BY <1>1, <1>2, <1>3, <1>4, <2>2, ReadInvertsMap, DigitInvertsValue
       DEF GetTellsText, SevenHolds, SegmentHolds, Pattern, Is
  <2> QED
    BY <1>1, <1>2, <1>4, <2>2, <2>3
       DEF DisplayShape, RegShape, SevenHolds, SegmentHolds, StateTold, Is
<1>8. CASE DisplayOn
  <2>1. PICK n \in Fails :
          Commanded("display_on", IF Is("seven") THEN SwitchPin(Begin(n), 1)
                                ELSE WriteLevel(Begin(n), drv.last), seen.text, "on")
    BY <1>8 DEF DisplayOn
  <2> DEFINE s == IF Is("seven") THEN SwitchPin(Begin(n), 1) ELSE WriteLevel(Begin(n), drv.last)
  <2>2. /\ s.drv = drv
        /\ s.chip = IF ~s.ok THEN chip
                    ELSE IF Is("seven") THEN [chip EXCEPT !.lit = 1]
                    ELSE [chip EXCEPT !.shown = drv.last]
    BY <1>2, PinSwitched, LevelWritten DEF DisplayShape
  <2>3. /\ chip' = s.chip /\ drv' = drv /\ out'.call = "display_on"
        /\ seen' = IF s.ok THEN [seen EXCEPT !.text = @, !.state = "on"] ELSE seen
    <3> HIDE DEF s
    <3> QED
      BY <2>1, <2>2 DEF Commanded, Finish, Outcome, Shows, s
  <2> HIDE DEF s
  <2>4. DisplayShape' /\ GetTellsText' /\ StateTold'
    BY <1>1, <1>2, <2>2, <2>3 DEF DisplayShape, RegShape, GetTellsText, StateTold
  <2>5. SevenHolds' /\ SegmentHolds'
    BY <1>1, <1>2, <1>4, <2>2, <2>3
       DEF SevenHolds, SegmentHolds, DisplayShape, RegShape, Is
  <2> QED
    BY <2>4, <2>5
<1>9. CASE DisplayOff
  <2>1. PICK n \in Fails :
          Commanded("display_off", IF Is("seven") THEN SwitchPin(Begin(n), 0)
                                 ELSE WriteLevel(Begin(n), conf.off), seen.text, "off")
    BY <1>9 DEF DisplayOff
  <2> DEFINE s == IF Is("seven") THEN SwitchPin(Begin(n), 0) ELSE WriteLevel(Begin(n), conf.off)
  <2>2. /\ s.drv = drv
        /\ s.chip = IF ~s.ok THEN chip
                    ELSE IF Is("seven") THEN [chip EXCEPT !.lit = 0]
                    ELSE [chip EXCEPT !.shown = conf.off]
    BY <1>2, PinSwitched, LevelWritten DEF DisplayShape
  <2>3. /\ chip' = s.chip /\ drv' = drv /\ out'.call = "display_off"
        /\ seen' = IF s.ok THEN [seen EXCEPT !.text = @, !.state = "off"] ELSE seen
    <3> HIDE DEF s
    <3> QED
      BY <2>1, <2>2 DEF Commanded, Finish, Outcome, Shows, s
  <2> HIDE DEF s
  <2>4. DisplayShape' /\ GetTellsText' /\ StateTold'
    BY <1>1, <1>2, <2>2, <2>3 DEF DisplayShape, RegShape, GetTellsText, StateTold
  <2>5. SevenHolds' /\ SegmentHolds'
    BY <1>1, <1>2, <1>4, <2>2, <2>3
       DEF SevenHolds, SegmentHolds, DisplayShape, RegShape, Is
  <2> QED
    BY <2>4, <2>5
<1>10. CASE DisplayGetState
  <2>1. PICK n \in Fails :
          Finish("display_state",
                 IF Is("seven") THEN Access(Begin(n), Begin(n)) ELSE ReadLevel(Begin(n)),
                 IF Lit(chip) THEN 1 ELSE 0, seen)
    BY <1>10 DEF DisplayGetState
  <2>2. /\ UNCHANGED <<chip, drv, seen>> /\ out'.call = "display_state"
        /\ out'.res = "ok" => out'.val = IF Lit(chip) THEN 1 ELSE 0
    BY <2>1, LevelRead DEF Finish, Outcome, Access, Begin
  <2>3. StateTold'
    BY <1>1, <1>2, <1>3, <1>4, <2>2
       DEF StateTold, SevenHolds, SegmentHolds, Dark, Lit, Pattern, Is
  <2> QED
    BY <1>1, <1>2, <1>4, <2>2, <2>3
       DEF DisplayShape, RegShape, SevenHolds, SegmentHolds, GetTellsText, Is
<1>11. CASE LedOn \/ LedOff
  BY <1>3, <1>11 DEF LedOn, LedOff, OnLed, LedDevs, On, Is
<1>12. CASE LedApiRefuses
  BY <1>1, <1>2, <1>4, <1>12
     DEF LedApiRefuses, Refuse, Outcome, DisplayShape, RegShape, SevenHolds, SegmentHolds,
         GetTellsText, StateTold, Dark, Is, ADisplay
<1> QED
  BY <1>1, <1>3, <1>5, <1>6, <1>7, <1>8, <1>9, <1>10, <1>11, <1>12, Steps
     DEF LedNext, DisplayDevs, Is

(* A display shows the text of its last successful set whenever it is on, reads it *)
(* back as that text, and tells the state it was switched to, on every display of  *)
(* every configuration and past commands that fail at any of their accesses        *)
(* (sdi_segment_display.c, sdi_seven_segment_pin_led.c).                          *)
THEOREM DisplaySafety == Spec => []DisplayShows
<1>1. DisplayInv => DisplayShows
  BY DEF DisplayInv, DisplayShows, TextStands, GetTellsText, StateTold, ADisplay, DisplayDevs,
         SevenHolds, SegmentHolds, Pattern, Is
<1> QED
  BY <1>1, DisplayStarts, DisplayKept, PTL DEF Spec

--------------------------------------------------------------------------------
(* The temperature sensors. *)

(* The call after the first k sensors, as the code counts them. *)
LEMMA StartedStep ==
  ASSUME NEW n, conf.sensors \in Seq(Sensor)
  PROVE  /\ Started(n)[0] = Begin(n)
         /\ \A k \in 1..Len(conf.sensors) :
              Started(n)[k] = Then(Started(n)[k - 1], SensorInit(Started(n)[k - 1], conf.sensors[k]))
<1> DEFINE N == Len(conf.sensors)
           Next1(r, k) == Then(r, SensorInit(r, conf.sensors[k]))
           Rest(f, m) == f = [k \in 0..m |-> IF k = 0 THEN Begin(n) ELSE Next1(f[k - 1], k)]
           Missing == {m \in Nat : ~\E f : Rest(f, m)}
<1>1. N \in Nat
  BY LenProperties
<1> HIDE DEF Next1
<1>2. Missing = {}
  <2> SUFFICES ASSUME Missing # {} PROVE FALSE
    OBVIOUS
  <2>1. PICK m \in Missing : \A y \in Missing : m <= y
    <3>1. Missing \in SUBSET Nat
      OBVIOUS
    <3> QED
      BY <3>1, LeastElement
  <2>2. CASE m = 0
    <3>1. Rest([k \in {0} |-> Begin(n)], 0)
      BY DEF Rest
    <3> QED
      BY <2>2, <3>1
  <2>3. CASE m # 0
    <3>1. m - 1 \in Nat /\ m - 1 < m
      BY <2>3
    <3>2. m - 1 \notin Missing
      BY SMTT(30), <2>1, <3>1
    <3>3. PICK f0 : Rest(f0, m - 1)
      BY <3>1, <3>2
    <3> DEFINE g == [k \in 0..m |-> IF k = m THEN Next1(f0[m - 1], m) ELSE f0[k]]
    <3>4. Rest(g, m)
      BY <2>3, <3>1, <3>3
    <3> QED
      BY <3>4
  <2> QED
    BY <2>2, <2>3
<1>3. Rest(Started(n), N)
  <2>1. PICK f0 : Rest(f0, N)
    BY <1>1, <1>2
  <2>2. Started(n) = CHOOSE f : Rest(f, N)
    BY DEF Started, Next1
  <2> QED
    BY <2>1, <2>2
<1> QED
  BY <1>1, <1>3 DEF Next1

(* A call on a temperature sensor keeps the form of its data, and what cache and *)
(* chip agree on outside the limits D.                                           *)
Sensing == Is("emc142x") \/ Is("max6699") \/ Is("tmp75")
Degrees == Int
Limits == [Connected -> [Types -> Degrees]]
CallShape(s) ==
  /\ s = [ok |-> s.ok, left |-> s.left, val |-> s.val, chip |-> s.chip, drv |-> s.drv]
  /\ s.chip = [limit |-> s.chip.limit, temp |-> s.chip.temp, alarm |-> s.chip.alarm]
  /\ s.drv = [stage |-> s.drv.stage, limit |-> s.drv.limit]
  /\ s.chip.limit \in Limits /\ s.drv.limit \in Limits
AgreesOn(s, i, t) == s.drv.limit[i][t] = s.chip.limit[i][t]
StillAgrees(r, s, D) ==
  \A i \in Connected, t \in Types : AgreesOn(r, i, t) => AgreesOn(s, i, t) \/ <<i, t>> \in D

(* What a failed call leaves in doubt: its own limit on TMP75, and after a start *)
(* the limits that are cached early.                                             *)
Own(i, t) == IF Is("tmp75") THEN {<<i, t>>} ELSE {}
Early(sensors) == sensors \X {t \in Types : CachedEarly(t)}

LEMMA WriteStep ==
  ASSUME NEW s, CallShape(s), NEW i \in Connected, NEW t \in Types, NEW v \in Degrees
  PROVE  LET w == WriteLimit(s, i, t, v)
         IN /\ CallShape(w) /\ w.drv = s.drv
            /\ w.ok => s.ok /\ w.chip.limit = [s.chip.limit EXCEPT ![i][t] = v]
            /\ ~w.ok => w.chip = s.chip
  BY DEF WriteLimit, Access, CallShape, Limits

LEMMA CacheStep ==
  ASSUME NEW w, CallShape(w), NEW i \in Connected, NEW t \in Types, NEW v \in Degrees
  PROVE  LET r == CacheLimit(w, i, t, v)
         IN /\ CallShape(r) /\ StillAgrees(w, r, {<<i, t>>}) /\ (r.ok <=> w.ok) /\ r.chip = w.chip
            /\ r.drv.limit[i][t] = v
<1> PICK r : r = CacheLimit(w, i, t, v)
  OBVIOUS
<1>1. /\ CallShape(r) /\ r.ok = w.ok /\ r.chip = w.chip
      /\ r.drv.limit = [w.drv.limit EXCEPT ![i][t] = v]
  <2> DEFINE L == [w.drv.limit EXCEPT ![i][t] = v]
             D == [w.drv EXCEPT !.limit = L]
  <2>1. L \in Limits
    BY DEF CallShape, Limits
  <2> HIDE DEF L
  <2>2. D = [stage |-> w.drv.stage, limit |-> L]
    BY DEF CallShape
  <2> HIDE DEF D
  <2>3. r = [w EXCEPT !.drv = D]
    BY DEF CacheLimit, D, L
  <2>4. r = [ok |-> w.ok, left |-> w.left, val |-> w.val, chip |-> w.chip, drv |-> D]
    BY <2>3 DEF CallShape
  <2> QED
    BY <2>1, <2>2, <2>4 DEF CallShape, L
<1>2. w.drv.limit \in [Connected -> [Types -> Degrees]]
  BY DEF CallShape, Limits
<1>3. \A j \in Connected, u \in Types :
        r.drv.limit[j][u] = IF j = i /\ u = t THEN v ELSE w.drv.limit[j][u]
  BY <1>1, <1>2
<1>4. StillAgrees(w, r, {<<i, t>>})
  BY <1>1, <1>3 DEF StillAgrees, AgreesOn
<1> QED
  BY <1>1, <1>3, <1>4

(* The order of write and cache decides what a failure leaves in doubt. *)
LEMMA LimitStep ==
  ASSUME Sensing, NEW s, CallShape(s), NEW i \in Connected, NEW t \in Types, NEW v \in Degrees
  PROVE  LET r == LimitOfChip(s, i, t, v)
         IN /\ CallShape(r) /\ StillAgrees(s, r, Own(i, t))
            /\ r.ok => s.ok /\ r.drv.limit[i][t] = v /\ r.chip.limit[i][t] = v
<1> PICK r : r = LimitOfChip(s, i, t, v)
  OBVIOUS
<1> SUFFICES /\ CallShape(r) /\ StillAgrees(s, r, Own(i, t))
             /\ r.ok => s.ok /\ r.drv.limit[i][t] = v /\ r.chip.limit[i][t] = v
  OBVIOUS
<1>1. CASE ~InRange(v)
  <2>1. r = [s EXCEPT !.ok = FALSE]
    BY <1>1 DEF LimitOfChip
  <2> QED
    BY <2>1 DEF CallShape, StillAgrees, AgreesOn
<1>2. CASE InRange(v) /\ (Is("emc142x") \/ Is("max6699"))
  <2>1. PICK w : w = WriteLimit(s, i, t, v)
    OBVIOUS
  <2>2. r = Then(w, CacheLimit(w, i, t, v))
    BY <1>2, <2>1 DEF LimitOfChip, Emc142xLimit, Max6699Limit, Is
  <2>3. /\ CallShape(w) /\ w.drv = s.drv
        /\ w.ok => s.ok /\ w.chip.limit = [s.chip.limit EXCEPT ![i][t] = v]
        /\ ~w.ok => w.chip = s.chip
    BY <2>1, WriteStep
  <2>4. CASE ~w.ok
    BY <2>2, <2>3, <2>4 DEF Then, StillAgrees, AgreesOn
  <2>5. CASE w.ok
    <3>1. r = CacheLimit(w, i, t, v)
      BY <2>2, <2>5 DEF Then
    <3>2. /\ CallShape(r) /\ StillAgrees(w, r, {<<i, t>>}) /\ (r.ok <=> w.ok) /\ r.chip = w.chip
          /\ r.drv.limit[i][t] = v
      BY <2>3, <3>1, CacheStep
    <3>3. w.chip.limit[i][t] = v
      BY <2>3, <2>5 DEF CallShape, Limits
    <3>4. ASSUME NEW j \in Connected, NEW u \in Types, AgreesOn(s, j, u)
          PROVE  AgreesOn(r, j, u)
      <4>1. CASE j = i /\ u = t
        BY <3>2, <3>3, <4>1 DEF AgreesOn
      <4>2. CASE ~(j = i /\ u = t)
        <5>1. AgreesOn(w, j, u)
          BY <2>3, <2>5, <3>4, <4>2 DEF AgreesOn, CallShape, Limits
        <5> QED
          BY <3>2, <4>2, <5>1 DEF StillAgrees
      <4> QED
        BY <4>1, <4>2
    <3> QED
      BY <2>3, <2>5, <3>2, <3>3, <3>4 DEF StillAgrees
  <2> QED
    BY <2>4, <2>5
<1>3. CASE InRange(v) /\ Is("tmp75")
  <2>1. PICK c : c = CacheLimit(s, i, t, v)
    OBVIOUS
  <2>2. r = WriteLimit(c, i, t, v)
    BY <1>3, <2>1 DEF LimitOfChip, Tmp75Limit, Is
  <2>3. /\ CallShape(c) /\ StillAgrees(s, c, {<<i, t>>}) /\ (c.ok <=> s.ok) /\ c.chip = s.chip
        /\ c.drv.limit[i][t] = v
    BY <2>1, CacheStep
  <2>4. /\ CallShape(r) /\ r.drv = c.drv
        /\ r.ok => c.ok /\ r.chip.limit = [c.chip.limit EXCEPT ![i][t] = v]
        /\ ~r.ok => r.chip = c.chip
    BY <2>2, <2>3, WriteStep
  <2>5. r.ok => r.chip.limit[i][t] = v
    BY <2>3, <2>4 DEF CallShape, Limits
  <2>6. ASSUME NEW j \in Connected, NEW u \in Types, AgreesOn(s, j, u), <<j, u>> # <<i, t>>
        PROVE  AgreesOn(r, j, u)
    <3>1. AgreesOn(c, j, u)
      BY <2>3, <2>6 DEF StillAgrees
    <3> QED
      BY <2>3, <2>4, <2>6, <3>1 DEF AgreesOn, CallShape, Limits
  <2> QED
    BY <1>3, <2>3, <2>4, <2>5, <2>6 DEF StillAgrees, Own
<1> QED
  BY <1>1, <1>2, <1>3 DEF Sensing

LEMMA DefaultStep ==
  ASSUME Sensing, NEW s, CallShape(s), NEW i \in Connected, NEW t \in Types,
         conf.default[t] \in Degrees
  PROVE  LET r == Default(s, i, t)
         IN /\ CallShape(r) /\ StillAgrees(s, r, Own(i, t))
            /\ r.ok => s.ok /\ AgreesOn(r, i, t) /\ r.chip.limit[i][t] = conf.default[t]
<1>1. PICK v : v = conf.default[t]
  OBVIOUS
<1>2. PICK w : w = IF s.ok THEN LimitOfChip(s, i, t, v) ELSE s
  OBVIOUS
<1>3. PICK r : r = Default(s, i, t)
  OBVIOUS
<1>4. r = Then(w, CacheLimit(w, i, t, v))
  BY <1>1, <1>2, <1>3 DEF Default
<1>5. /\ CallShape(w) /\ StillAgrees(s, w, Own(i, t))
      /\ w.ok => s.ok /\ w.drv.limit[i][t] = v /\ w.chip.limit[i][t] = v
  <2>1. CASE s.ok
    BY <1>1, <1>2, <2>1, LimitStep
  <2>2. CASE ~s.ok
    BY <1>2, <2>2 DEF StillAgrees
  <2> QED
    BY <2>1, <2>2
<1>6. /\ CallShape(r) /\ StillAgrees(s, r, Own(i, t))
      /\ r.ok => s.ok /\ AgreesOn(r, i, t) /\ r.chip.limit[i][t] = v
  <2>1. CASE w.ok
    <3>1. r = CacheLimit(w, i, t, v)
      BY <1>4, <2>1 DEF Then
    <3>2. /\ CallShape(r) /\ StillAgrees(w, r, {<<i, t>>}) /\ (r.ok <=> w.ok) /\ r.chip = w.chip
          /\ r.drv.limit[i][t] = v
      BY <1>1, <1>5, <2>1, <3>1, CacheStep DEF StillAgrees
    <3>3. AgreesOn(r, i, t)
      BY <1>5, <2>1, <3>2 DEF AgreesOn
    <3>4. StillAgrees(s, r, Own(i, t))
      BY <1>5, <3>2, <3>3 DEF StillAgrees
    <3> QED
      BY <1>5, <2>1, <3>2, <3>3, <3>4
  <2>2. CASE ~w.ok
    BY <1>4, <1>5, <2>2 DEF Then
  <2> QED
    BY <2>1, <2>2
<1> QED
  BY <1>1, <1>3, <1>6

(* The start of a sensor that came to its end leaves cache and chip agreed. *)
SensorConfigured ==
  /\ conf.sensors \in Seq(Sensor)
  /\ \A t \in Types : conf.default[t] \in Degrees
  /\ Is("emc142x") => Types = TypesOf142x
  /\ Is("max6699") => Types = TypesOf6699
  /\ Is("tmp75") => Types = TypesOf75

LEMMA SensorInitStep ==
  ASSUME Sensing, SensorConfigured, NEW s, CallShape(s), NEW i \in Connected
  PROVE  LET r == SensorInit(s, i)
         IN /\ CallShape(r) /\ StillAgrees(s, r, Early({i}))
            /\ r.ok => s.ok /\ \A t \in Types : AgreesOn(r, i, t)
<1> PICK r : r = SensorInit(s, i)
  OBVIOUS
<1> SUFFICES /\ CallShape(r) /\ StillAgrees(s, r, Early({i}))
             /\ r.ok => s.ok /\ \A t \in Types : AgreesOn(r, i, t)
  OBVIOUS
<1>0. \A t \in Types : conf.default[t] \in Degrees
  BY DEF SensorConfigured
<1>1. CASE Is("max6699")
  <2>1. r = Default(s, i, "high")
    BY <1>1 DEF SensorInit, Max6699SensorInit, Is
  <2>2. "high" \in Types /\ Types = {"high"} /\ Own(i, "high") = {}
    BY <1>1 DEF SensorConfigured, TypesOf6699, Own, Is
  <2> QED
    BY <1>0, <2>1, <2>2, DefaultStep DEF StillAgrees
<1>2. CASE Is("tmp75")
  <2>1. PICK a : a = Default(s, i, "low")
    OBVIOUS
  <2>2. r = Default(a, i, "high")
    BY <1>2, <2>1 DEF SensorInit, Tmp75SensorInit, Is
  <2>3. Types = {"low", "high"} /\ "low" \in Types /\ "high" \in Types
    BY <1>2 DEF SensorConfigured, TypesOf75
  <2>4. CallShape(a) /\ StillAgrees(s, a, Own(i, "low")) /\ (a.ok => s.ok /\ AgreesOn(a, i, "low"))
    BY <1>0, <2>1, <2>3, DefaultStep
  <2>5. CallShape(r) /\ StillAgrees(a, r, Own(i, "high")) /\ (r.ok => a.ok /\ AgreesOn(r, i, "high"))
    BY <1>0, <2>2, <2>3, <2>4, DefaultStep
  <2>6. Own(i, "low") = {<<i, "low">>} /\ Own(i, "high") = {<<i, "high">>}
    BY <1>2 DEF Own
  <2>7. <<i, "low">> \in Early({i}) /\ <<i, "high">> \in Early({i})
    BY <1>2, <2>3 DEF Early, CachedEarly
  <2>8. StillAgrees(s, r, Early({i}))
    BY <2>4, <2>5, <2>6, <2>7 DEF StillAgrees
  <2>9. r.ok => AgreesOn(r, i, "low")
    BY <2>3, <2>4, <2>5, <2>6 DEF StillAgrees
  <2> QED
    BY <2>3, <2>4, <2>5, <2>8, <2>9
<1>3. CASE Is("emc142x")
  <2>1. PICK a : a = Default(s, i, "low")
    OBVIOUS
  <2>2. PICK b : b = Default(a, i, "high")
    OBVIOUS
  <2>3. PICK c : c = Default(b, i, "critical")
    OBVIOUS
  <2>4. r = Then(b, CacheLimit(c, i, "critical", conf.default["critical"]))
    BY <1>3, <2>1, <2>2, <2>3 DEF SensorInit, Emc142xSensorInit, Is
  <2>5. /\ "low" \in Types /\ "high" \in Types /\ "critical" \in Types
        /\ Types = {"low", "high", "critical"} /\ \A t : Own(i, t) = {}
    BY <1>3 DEF SensorConfigured, TypesOf142x, Own, Is
  <2>6. CallShape(a) /\ StillAgrees(s, a, {}) /\ (a.ok => s.ok /\ AgreesOn(a, i, "low"))
    BY <1>0, <2>1, <2>5, DefaultStep
  <2>7. CallShape(b) /\ StillAgrees(a, b, {}) /\ (b.ok => a.ok /\ AgreesOn(b, i, "high"))
    BY <1>0, <2>2, <2>5, <2>6, DefaultStep
  <2>8. /\ CallShape(c) /\ StillAgrees(b, c, {})
        /\ c.ok => b.ok /\ c.chip.limit[i]["critical"] = conf.default["critical"]
    BY <1>0, <2>3, <2>5, <2>7, DefaultStep
  <2>9. CASE ~b.ok
    BY <2>4, <2>6, <2>7, <2>9 DEF Then, StillAgrees
  <2>10. CASE b.ok
    <3>1. r = CacheLimit(c, i, "critical", conf.default["critical"])
      BY <2>4, <2>10 DEF Then
    <3>2. /\ CallShape(r) /\ StillAgrees(c, r, {<<i, "critical">>}) /\ (r.ok <=> c.ok)
          /\ r.chip = c.chip /\ r.drv.limit[i]["critical"] = conf.default["critical"]
      <4>1. PICK t, v : t = "critical" /\ v = conf.default["critical"]
        OBVIOUS
      <4>2. t \in Types /\ v \in Degrees
        BY <1>0, <2>5, <4>1
      <4>3. r = CacheLimit(c, i, t, v)
        BY <3>1, <4>1
      <4>4. /\ CallShape(r) /\ StillAgrees(c, r, {<<i, t>>}) /\ (r.ok <=> c.ok)
            /\ r.chip = c.chip /\ r.drv.limit[i][t] = v
        BY <2>8, <4>2, <4>3, CacheStep DEF StillAgrees
      <4> QED
        BY <4>1, <4>4
    <3>3. <<i, "critical">> \in Early({i})
      BY <1>3, <2>5 DEF Early, CachedEarly
    <3>4. StillAgrees(s, r, Early({i}))
      BY <2>6, <2>7, <2>8, <3>2, <3>3 DEF StillAgrees
    <3>5. AgreesOn(r, i, "low") /\ AgreesOn(r, i, "high")
      BY <2>5, <2>6, <2>7, <2>8, <2>10, <3>2 DEF StillAgrees
    <3>6. r.ok => AgreesOn(r, i, "critical")
      BY <2>8, <3>2 DEF AgreesOn
    <3> QED
      BY <2>5, <2>6, <2>7, <2>10, <3>2, <3>4, <3>5, <3>6
  <2> QED
    BY <2>9, <2>10
<1> QED
  BY <1>1, <1>2, <1>3 DEF Sensing

(* The start of a chip: after any number of its sensors the first of them agree, *)
(* and what agreed before still does.                                            *)
BeginShape == CallShape([ok |-> TRUE, left |-> 0, val |-> 0, chip |-> chip, drv |-> drv])

LEMMA BeginHasShape ==
  ASSUME BeginShape, NEW n
  PROVE  CallShape(Begin(n)) /\ Begin(n).ok /\ Begin(n).chip = chip /\ Begin(n).drv = drv
  BY DEF BeginShape, CallShape, Begin

LEMMA StartedStands ==
  ASSUME Sensing, SensorConfigured, BeginShape, NEW n
  PROVE  \A k \in 0..Len(conf.sensors) :
           LET r == Started(n)[k]
           IN /\ CallShape(r) /\ StillAgrees(Begin(n), r, Early(Connected))
              /\ r.ok => \A j \in 1..k, t \in Types : AgreesOn(r, conf.sensors[j], t)
<1> DEFINE Good(k) ==
      /\ CallShape(Started(n)[k]) /\ StillAgrees(Begin(n), Started(n)[k], Early(Connected))
      /\ Started(n)[k].ok => \A j \in 1..k, t \in Types : AgreesOn(Started(n)[k], conf.sensors[j], t)
           bad == {k \in 0..Len(conf.sensors) : ~Good(k)}
<1>1. Len(conf.sensors) \in Nat /\ \A k \in 1..Len(conf.sensors) : conf.sensors[k] \in Connected
  <2>1. DOMAIN conf.sensors = 1..Len(conf.sensors) /\ Len(conf.sensors) \in Nat
    BY LenProperties DEF SensorConfigured
  <2> QED
    BY <2>1 DEF Connected, ToSet
<1>2. bad = {}
  <2> SUFFICES ASSUME bad # {} PROVE FALSE
    OBVIOUS
  <2>1. bad \in SUBSET Nat
    BY <1>1
  <2>2. PICK k \in bad : \A m \in bad : k <= m
    BY <2>1, LeastElement
  <2>3. k # 0
    <3>1. Good(0)
      BY BeginHasShape, StartedStep DEF SensorConfigured, StillAgrees
    <3> QED
      BY <2>2, <3>1
  <2>4. k \in 1..Len(conf.sensors) /\ k - 1 \in 0..Len(conf.sensors) /\ k - 1 \notin bad
    BY <1>1, <2>1, <2>2, <2>3
  <2>5. Good(k - 1)
    BY <2>4
  <2>6. PICK p : p = Started(n)[k - 1]
    OBVIOUS
  <2>7. PICK r : r = Started(n)[k]
    OBVIOUS
  <2>8. PICK i : i = conf.sensors[k]
    OBVIOUS
  <2>9. r = Then(p, SensorInit(p, i)) /\ i \in Connected
    BY <1>1, <2>4, <2>6, <2>7, <2>8, StartedStep DEF SensorConfigured
  <2>10. /\ CallShape(p) /\ StillAgrees(Begin(n), p, Early(Connected))
         /\ p.ok => \A j \in 1..(k - 1), t \in Types : AgreesOn(p, conf.sensors[j], t)
    BY <2>5, <2>6
  <2>11. /\ CallShape(r) /\ StillAgrees(p, r, Early({i}))
         /\ r.ok => p.ok /\ \A t \in Types : AgreesOn(r, i, t)
    <3>1. CASE p.ok
      <4>1. r = SensorInit(p, i)
        BY <2>9, <3>1 DEF Then
      <4> QED
        BY <2>9, <2>10, <3>1, <4>1, SensorInitStep
    <3>2. CASE ~p.ok
      BY <2>9, <2>10, <3>2 DEF Then, StillAgrees
    <3> QED
      BY <3>1, <3>2
  <2>12. ASSUME r.ok, NEW j \in 1..k, NEW t \in Types
         PROVE  AgreesOn(r, conf.sensors[j], t)
    <3>1. CASE j = k
      BY <2>8, <2>11, <2>12, <3>1
    <3>2. CASE j # k
      <4>1. j \in 1..(k - 1) /\ j \in 1..Len(conf.sensors)
        BY <2>4, <3>2
      <4>2. conf.sensors[j] \in Connected /\ AgreesOn(p, conf.sensors[j], t)
        BY <1>1, <2>10, <2>11, <2>12, <4>1
      <4>3. CASE conf.sensors[j] = i
        BY <2>11, <2>12, <4>3
      <4>4. CASE conf.sensors[j] # i
        BY <2>11, <4>2, <4>4 DEF StillAgrees, Early
      <4> QED
        BY <4>3, <4>4
    <3> QED
      BY <3>1, <3>2
  <2>13. StillAgrees(Begin(n), r, Early(Connected))
    BY <2>9, <2>10, <2>11 DEF StillAgrees, Early
  <2>14. Good(k)
    BY <2>7, <2>11, <2>12, <2>13
  <2> QED
    BY <2>2, <2>14
<1> QED
  BY <1>2

(* The inductive invariant of the sensors: the data have their form, and cache *)
(* and chip agree on what was ever written for certain.                        *)
ToldAgrees ==
  /\ seen = [told |-> seen.told] /\ seen.told \subseteq Connected \X Types
  /\ \A i \in Connected, t \in Types :
       <<i, t>> \in seen.told => drv.limit[i][t] = chip.limit[i][t]
ThermalInv == Sensing => conf \in SensorConf /\ BeginShape /\ ToldAgrees
PowerInv ==
  Is("ina219") =>
    /\ chip = [config |-> chip.config, calib |-> chip.calib, word |-> chip.word]
    /\ drv = [stage |-> drv.stage]
    /\ CalibrationStands

LEMMA Configured ==
  ASSUME Sensing, conf \in SensorConf
  PROVE  SensorConfigured
  BY SensorConfAssumption
     DEF SensorConfigured, Sensing, ThermalDevs, Types, Is, Degrees

LEMMA SensorsStart0 == Init => ThermalInv /\ PowerInv
<1> SUFFICES ASSUME Init
             PROVE  ThermalInv /\ PowerInv
  OBVIOUS
<1>1. Sensing \/ Is("ina219") => SensorsInit
  BY Starts DEF Sensing, Is, ThermalDevs
<1>2. Sensing => Emc142xRegister \/ Max6699Register \/ Tmp75Register
  BY <1>1 DEF SensorsInit, Ina219Init, Sensing, Is
<1>3. ASSUME Sensing
      PROVE  conf \in SensorConf /\ BeginShape /\ ToldAgrees
  <2>1. PICK d : Registered(d)
    BY <1>2, <1>3 DEF Emc142xRegister, Max6699Register, Tmp75Register
  <2>2. [i \in Connected |-> [t \in Types |-> PowerOnLimit]] \in Limits
    BY DEF Limits, Degrees, PowerOnLimit
  <2>3. [i \in Connected |-> [t \in Types |-> 0]] \in Limits
    BY DEF Limits, Degrees
  <2>4. BeginShape
    BY <2>1, <2>2, <2>3 DEF Registered, BeginShape, CallShape
  <2> QED
    BY <2>1, <2>4 DEF Registered, ToldAgrees
<1>4. ASSUME Is("ina219")
      PROVE  PowerInv
  BY <1>1, <1>4 DEF SensorsInit, Emc142xRegister, Max6699Register, Tmp75Register, Registered,
                    Ina219Init, PowerInv, CalibrationStands, Is
<1> QED
  BY <1>3, <1>4 DEF ThermalInv, PowerInv

(* A call that ends with the record s: it wrote the limits T when it succeeded, *)
(* and leaves the limits D of them in doubt when it failed.                     *)
LEMMA LimitsWritten ==
  ASSUME BeginShape, ToldAgrees, UNCHANGED conf, NEW n, NEW s, NEW T, NEW D,
         CallShape(s), StillAgrees(Begin(n), s, D),
         D \subseteq T, T \subseteq Connected \X Types,
         s.ok => \A i \in Connected, t \in Types : <<i, t>> \in T => AgreesOn(s, i, t),
         chip' = s.chip,
         drv' = [stage |-> drv'.stage, limit |-> s.drv.limit],
         seen' = IF s.ok THEN Written(T) ELSE Doubted(D)
  PROVE  (BeginShape /\ ToldAgrees)'
<1>1. Connected' = Connected /\ Types' = Types /\ Limits' = Limits
  BY DEF Connected, Types, Limits
<1>2. BeginShape'
  BY <1>1 DEF BeginShape, CallShape
<1>3. seen' = [told |-> IF s.ok THEN seen.told \cup T ELSE seen.told \ D]
  BY DEF ToldAgrees, Written, Doubted
<1>4. ASSUME NEW i \in Connected, NEW t \in Types, <<i, t>> \in seen'.told
      PROVE  drv'.limit[i][t] = chip'.limit[i][t]
  <2>1. AgreesOn(s, i, t)
    <3>1. CASE s.ok /\ <<i, t>> \in T
      BY <3>1
    <3>2. CASE ~(s.ok /\ <<i, t>> \in T)
      <4>1. <<i, t>> \in seen.told /\ <<i, t>> \notin D
        BY <1>3, <1>4, <3>2
      <4>2. AgreesOn(Begin(n), i, t)
        BY <4>1, BeginHasShape DEF ToldAgrees, AgreesOn
      <4> QED
        BY <4>1, <4>2 DEF StillAgrees
    <3> QED
      BY <3>1, <3>2
  <2> QED
    BY <2>1 DEF AgreesOn
<1>5. seen' = [told |-> seen'.told] /\ seen'.told \subseteq Connected \X Types
  BY <1>3 DEF ToldAgrees
<1> QED
  BY <1>1, <1>2, <1>4, <1>5 DEF ToldAgrees

(* An access happened or did not. *)
Rec(s) == s = [ok |-> s.ok, left |-> s.left, val |-> s.val, chip |-> s.chip, drv |-> s.drv]

LEMMA AccessEnds ==
  ASSUME NEW s, NEW t, Rec(s), Rec(t)
  PROVE  LET r == Access(s, t)
         IN /\ Rec(r)
            /\ \/ ~r.ok /\ r.chip = s.chip /\ r.drv = s.drv /\ r.val = s.val
               \/ s.ok /\ (r.ok <=> t.ok) /\ r.chip = t.chip /\ r.drv = t.drv /\ r.val = t.val
  BY DEF Access, Rec

LEMMA LookedAt ==
  ASSUME NEW n
  PROVE  LET s == Access(Begin(n), Begin(n)) IN s.chip = chip /\ s.drv = drv
  BY DEF Access, Begin

LEMMA ThermalKept == ThermalInv /\ [Next]_device => ThermalInv'
<1> SUFFICES ASSUME ThermalInv, [Next]_device, Sensing'
             PROVE  (conf \in SensorConf /\ BeginShape /\ ToldAgrees)'
  BY DEF ThermalInv
<1>1. conf' = conf /\ Sensing
  BY Steps DEF Sensing, Is
<1>2. conf \in SensorConf /\ BeginShape /\ ToldAgrees /\ SensorConfigured
  BY <1>1, Configured DEF ThermalInv
<1>3. SensorsNext \/ Taken \/ UNCHANGED device
  BY <1>1, Steps DEF Sensing, ThermalDevs, Is
<1>4. SUFFICES (BeginShape /\ ToldAgrees)'
  BY <1>1, <1>2
<1>5. Connected' = Connected /\ Types' = Types /\ Limits' = Limits
  BY <1>1 DEF Connected, Types, Limits
<1>6. ASSUME UNCHANGED <<chip, drv, seen>>
      PROVE  (BeginShape /\ ToldAgrees)'
  BY <1>2, <1>5, <1>6 DEF BeginShape, CallShape, ToldAgrees
<1>7. CASE \E n \in Fails : SensorsStart(n)
  <2>1. PICK n \in Fails : ChipInit(n)
    BY <1>1, <1>7 DEF SensorsStart, Emc142xChipInit, Max6699ChipInit, Tmp75ChipInit, Ina219ChipInit,
                      On, Is, Sensing
  <2>2. PICK s : s = Started(n)[Len(conf.sensors)]
    OBVIOUS
  <2>3. /\ CallShape(s) /\ StillAgrees(Begin(n), s, Early(Connected))
        /\ s.ok => \A i \in Connected, t \in Types : AgreesOn(s, i, t)
    <3>1. Len(conf.sensors) \in 0..Len(conf.sensors) /\ DOMAIN conf.sensors = 1..Len(conf.sensors)
      BY <1>2, LenProperties DEF SensorConfigured
    <3>2. s.ok => \A j \in 1..Len(conf.sensors), t \in Types : AgreesOn(s, conf.sensors[j], t)
      BY <1>1, <1>2, <2>2, <3>1, StartedStands
    <3> QED
      BY <1>1, <1>2, <2>2, <3>1, <3>2, StartedStands DEF Connected, ToSet
  <2>4. Finish("chip_init", [s EXCEPT !.drv.stage = "up"], 0, AfterInit(s, Connected))
    BY <2>1, <2>2 DEF ChipInit
  <2>5. /\ chip' = s.chip /\ drv' = [stage |-> drv'.stage, limit |-> s.drv.limit]
        /\ seen' = IF s.ok THEN Written(Connected \X Types) ELSE Doubted(Early(Connected))
    BY <2>3, <2>4 DEF Finish, AfterInit, Early, CallShape
  <2>6. PICK T, D : T = Connected \X Types /\ D = Early(Connected)
    OBVIOUS
  <2>7. D \subseteq T /\ T \subseteq Connected \X Types
    BY <2>6 DEF Early
  <2>8. s.ok => \A j \in Connected, t \in Types : <<j, t>> \in T => AgreesOn(s, j, t)
    BY <2>3
  <2> QED
    BY <1>1, <1>2, <2>3, <2>5, <2>6, <2>7, <2>8, LimitsWritten
<1>8. CASE \E n \in Fails, i \in Sensor : ThermalResourceInit(n, i)
  <2>1. PICK n \in Fails, i \in Sensor : ThermalResourceInit(n, i)
    BY <1>8
  <2>2. PICK s : s = SensorInit(Begin(n), i)
    OBVIOUS
  <2>3. i \in Connected
    BY <2>1 DEF ThermalResourceInit, Ready
  <2>4. /\ CallShape(s) /\ StillAgrees(Begin(n), s, Early({i}))
        /\ s.ok => \A t \in Types : AgreesOn(s, i, t)
    BY <1>1, <1>2, <2>2, <2>3, BeginHasShape, SensorInitStep
  <2>5. Finish("resource_init", [s EXCEPT !.drv.stage = "ready"], 0, AfterInit(s, {i}))
    BY <2>1, <2>2 DEF ThermalResourceInit
  <2>6. /\ chip' = s.chip /\ drv' = [stage |-> drv'.stage, limit |-> s.drv.limit]
        /\ seen' = IF s.ok THEN Written({i} \X Types) ELSE Doubted(Early({i}))
    BY <2>4, <2>5 DEF Finish, AfterInit, Early, CallShape
  <2>7. PICK T, D : T = {i} \X Types /\ D = Early({i})
    OBVIOUS
  <2>8. /\ D \subseteq T /\ T \subseteq Connected \X Types
        /\ s.ok => \A j \in Connected, t \in Types : <<j, t>> \in T => AgreesOn(s, j, t)
    BY <2>3, <2>4, <2>7 DEF Early
  <2> QED
    BY <1>1, <1>2, <2>4, <2>6, <2>7, <2>8, LimitsWritten
<1>9. CASE \E n \in Fails, i \in Sensor, t \in LimitTypes, v \in Limit : LimitCall(n, i, t, v)
  <2>1. PICK n \in Fails, i \in Sensor, t \in LimitTypes, v \in Limit :
          i \in Connected /\ ThresholdSet(n, i, t, v)
    BY <1>9 DEF LimitCall, Emc142xThresholdSet, Max6699ThresholdSet, Tmp75ThresholdSet, Ready
  <2>2. CASE ~InRange(v) \/ t \notin Types
    BY <1>6, <2>1, <2>2 DEF ThresholdSet, Refuse
  <2>3. CASE InRange(v) /\ t \in Types
    <3>1. PICK s : s = LimitOfChip(Begin(n), i, t, v)
      OBVIOUS
    <3>2. v \in Degrees
      BY <2>3 DEF InRange, Degrees
    <3>3. /\ CallShape(s) /\ StillAgrees(Begin(n), s, Own(i, t))
          /\ s.ok => AgreesOn(s, i, t)
      BY <1>1, <1>2, <2>1, <2>3, <3>1, <3>2, BeginHasShape, LimitStep DEF AgreesOn
    <3>4. Finish("threshold_set", s, 0,
                 IF s.ok THEN Written({<<i, t>>}) ELSE Doubted(Own(i, t)))
      BY <2>1, <2>3, <3>1 DEF ThresholdSet, Own
    <3>5. /\ chip' = s.chip /\ drv' = [stage |-> drv'.stage, limit |-> s.drv.limit]
          /\ seen' = IF s.ok THEN Written({<<i, t>>}) ELSE Doubted(Own(i, t))
      BY <3>3, <3>4 DEF Finish, CallShape
    <3>6. PICK T, D : T = {<<i, t>>} /\ D = Own(i, t)
      OBVIOUS
    <3>7. /\ D \subseteq T /\ T \subseteq Connected \X Types
          /\ s.ok => \A j \in Connected, u \in Types : <<j, u>> \in T => AgreesOn(s, j, u)
      BY <2>1, <2>3, <3>3, <3>6 DEF Own
    <3> QED
      BY <1>1, <1>2, <3>3, <3>5, <3>6, <3>7, LimitsWritten
  <2> QED
    BY <2>2, <2>3
<1>10. CASE \E i \in Sensor, t \in LimitTypes :
              Emc142xThresholdGet(i, t) \/ Max6699ThresholdGet(i, t) \/ Tmp75ThresholdGet(i, t)
  BY <1>6, <1>10 DEF Emc142xThresholdGet, Max6699ThresholdGet, Tmp75ThresholdGet, ThresholdGet,
                     Finish, Refuse, Begin
<1>11. CASE \E n \in Fails, i \in Sensor :
              \/ Emc142xTemperatureGet(n, i) \/ Max6699TemperatureGet(n, i) \/ Tmp75TemperatureGet(n, i)
              \/ Emc142xStatusGet(n, i) \/ Max6699StatusGet(n, i) \/ Tmp75StatusGet(n, i)
  BY <1>6, <1>11, LookedAt
     DEF Emc142xTemperatureGet, Max6699TemperatureGet, Tmp75TemperatureGet, TemperatureGet,
         Emc142xStatusGet, Max6699StatusGet, Tmp75StatusGet, StatusGet, Finish
<1>12. CASE ThermalWorld
  <2>1. chip = [limit |-> chip.limit, temp |-> chip.temp, alarm |-> chip.alarm]
    BY <1>2 DEF BeginShape, CallShape
  <2>2. /\ chip' = [limit |-> chip.limit, temp |-> chip'.temp, alarm |-> chip'.alarm]
        /\ UNCHANGED <<drv, seen>>
    <3>1. PICK v, a : chip' = [chip EXCEPT !.temp = v, !.alarm = a]
      BY <1>12 DEF ThermalWorld
    <3>2. PICK l, p, m : chip = [limit |-> l, temp |-> p, alarm |-> m] /\ l = chip.limit
      BY <2>1
    <3>3. chip' = [limit |-> l, temp |-> v, alarm |-> a]
      BY ONLY <3>1, <3>2
    <3>4. UNCHANGED <<drv, seen>>
      BY <1>12 DEF ThermalWorld
    <3> QED
      BY <3>2, <3>3, <3>4
  <2>3. BeginShape'
    BY <1>2, <1>5, <2>2 DEF BeginShape, CallShape
  <2> QED
    BY <1>2, <1>5, <2>2, <2>3 DEF ToldAgrees
<1>13. CASE ThermalApiRefuses \/ Taken \/ UNCHANGED device
  BY <1>6, <1>13 DEF ThermalApiRefuses, Refuse, Taken, device
<1> QED
  BY <1>1, <1>3, <1>7, <1>8, <1>9, <1>10, <1>11, <1>12, <1>13
     DEF SensorsNext, SensorCall, Ina219CurrentGet, Ina219VoltageGet, Ina219PowerGet,
         PowerApiRefuses, Ina219Measures, Ina219Restart, Ina219PowerCycle, On, Is, Sensing

LEMMA PowerKept == PowerInv /\ [Next]_device => PowerInv'
<1> SUFFICES ASSUME PowerInv, [Next]_device, Is("ina219")'
             PROVE  PowerInv'
  BY DEF PowerInv
<1>1. conf' = conf /\ Is("ina219")
  BY Steps DEF Is
<1>2. SensorsNext \/ Taken \/ UNCHANGED device
  BY <1>1, Steps DEF Is
<1>3. ASSUME UNCHANGED <<chip, drv>>
      PROVE  PowerInv'
  BY <1>1, <1>3 DEF PowerInv, CalibrationStands, Is
<1>4. CASE \E n \in Fails : SensorsStart(n)
  <2>1. PICK n \in Fails : Ina219ChipInit(n)
    BY <1>1, <1>4 DEF SensorsStart, Emc142xChipInit, Max6699ChipInit, Tmp75ChipInit, On, Is
  <2>2. PICK r : r = Access(Begin(n), Begin(n))
    OBVIOUS
  <2>3. PICK s : s = IF ~r.ok \/ chip.config = DefaultConfig THEN r ELSE [r EXCEPT !.ok = FALSE]
    OBVIOUS
  <2>4. PICK w : w = WriteConfig(s, conf.config)
    OBVIOUS
  <2>5. PICK u : u = WriteCalib(w, conf.calib)
    OBVIOUS
  <2>6. Finish("chip_init", [u EXCEPT !.drv.stage = IF u.ok THEN "up" ELSE "refused"], 0, seen)
    BY <2>1, <2>2, <2>3, <2>4, <2>5 DEF Ina219ChipInit, Ina219Setup
  <2>7. Rec(s) /\ s.chip = chip /\ s.drv = drv
    BY <2>2, <2>3 DEF Access, Begin, Rec
  <2>8. PICK c : c = IF SwapBytes(conf.config) >= ResetBit
                     THEN [s.chip EXCEPT !.config = DefaultConfig, !.calib = 0]
                     ELSE [s.chip EXCEPT !.config = SwapBytes(conf.config)]
    OBVIOUS
  <2>9. /\ Rec(w) /\ w.drv = drv
        /\ w.chip = [config |-> w.chip.config, calib |-> w.chip.calib, word |-> w.chip.word]
    <3>1. PICK t : t = [s EXCEPT !.chip = c]
      OBVIOUS
    <3>2. w = Access(s, t)
      BY <2>4, <2>8, <3>1 DEF WriteConfig
    <3>3. Rec(t) /\ t.drv = drv /\ t.chip = c
      BY <2>7, <3>1 DEF Rec
    <3>4. c = [config |-> c.config, calib |-> c.calib, word |-> c.word]
      BY <1>1, <2>7, <2>8 DEF PowerInv
    <3> QED
      BY <1>1, <2>7, <3>2, <3>3, <3>4, AccessEnds DEF PowerInv
  <2>10. PICK v : v = [w EXCEPT !.chip.calib = SwapBytes(conf.calib)]
    OBVIOUS
  <2>11. /\ Rec(u) /\ u.drv = drv
         /\ u.chip = [config |-> u.chip.config, calib |-> u.chip.calib, word |-> u.chip.word]
         /\ u.ok => u.chip.calib = SwapBytes(conf.calib)
    <3>1. u = Access(w, v)
      BY <2>5, <2>10 DEF WriteCalib
    <3>2. Rec(v) /\ v.drv = drv
      BY <2>9, <2>10 DEF Rec
    <3>3. /\ v.chip = [config |-> v.chip.config, calib |-> v.chip.calib, word |-> v.chip.word]
          /\ v.chip.calib = SwapBytes(conf.calib)
      BY <2>9, <2>10 DEF Rec
    <3> QED
      BY <2>9, <3>1, <3>2, <3>3, AccessEnds
  <2>12. /\ chip' = u.chip
         /\ drv' = [stage |-> IF u.ok THEN "up" ELSE "refused"]
    BY <1>1, <2>6, <2>11 DEF Finish, PowerInv, Rec
  <2> QED
    BY <1>1, <2>11, <2>12 DEF PowerInv, CalibrationStands, SwapBytes
<1>5. CASE \E n \in Fails : Ina219CurrentGet(n) \/ Ina219VoltageGet(n) \/ Ina219PowerGet(n)
  BY <1>3, <1>5 DEF Ina219CurrentGet, Ina219VoltageGet, Ina219PowerGet, Finish, Access, Begin
<1>6. CASE PowerApiRefuses \/ Taken \/ UNCHANGED device
  BY <1>3, <1>6 DEF PowerApiRefuses, Refuse, Taken, device
<1>7. CASE Ina219Measures \/ Ina219Restart \/ Ina219PowerCycle
  BY <1>1, <1>7 DEF Ina219Measures, Ina219Restart, Ina219PowerCycle, PowerInv, CalibrationStands, Is
<1> QED
  BY <1>1, <1>2, <1>4, <1>5, <1>6, <1>7
     DEF SensorsNext, SensorCall, LimitCall, ThermalResourceInit, Ready, ThermalApiRefuses, Thermal,
         ThermalDevs, ThermalWorld, On, Is, Emc142xTemperatureGet, Max6699TemperatureGet,
         Tmp75TemperatureGet, Emc142xStatusGet, Max6699StatusGet, Tmp75StatusGet,
         Emc142xThresholdSet, Max6699ThresholdSet, Tmp75ThresholdSet,
         Emc142xThresholdGet, Max6699ThresholdGet, Tmp75ThresholdGet

(* threshold_get tells the limit the chip has, past starts and settings that fail *)
(* at any of their accesses, with any number of sensors: on MAX6699 every limit   *)
(* written once, on TMP75 and for the critical limit of EMC142x every one that no *)
(* failed call of those that cache it early has left in doubt since. An INA219    *)
(* whose start succeeded has the word that this start sent as its calibration     *)
(* (sdi_emc142x.c, sdi_max6699.c, sdi_tmp75.c, sdi_ina219.c).                     *)
THEOREM SensorSafety == Spec => []SensorsAgree
<1>1. ThermalInv => LimitsAgree
  <2> SUFFICES ASSUME ThermalInv, Sensing, NEW p \in seen.told
               PROVE  drv.limit[p[1]][p[2]] = chip.limit[p[1]][p[2]]
    BY DEF LimitsAgree, Sensing, ThermalDevs, Is
  <2>1. PICK i \in Connected, t \in Types : p = <<i, t>>
    BY DEF ThermalInv, ToldAgrees
  <2> QED
    BY <2>1 DEF ThermalInv, ToldAgrees
<1>2. PowerInv => CalibrationStands
  BY DEF PowerInv, CalibrationStands
<1> QED
  BY <1>1, <1>2, SensorsStart0, ThermalKept, PowerKept, PTL DEF Spec, SensorsAgree

--------------------------------------------------------------------------------
(* The communication device. The sums of bytes. *)

Bytes == Seq(Byte)

LEMMA Division ==
  ASSUME NEW k \in Nat, NEW w \in Nat \ {0}
  PROVE  k \div w \in Nat /\ (k \div w) * w <= k /\ k < ((k \div w) + 1) * w
  OBVIOUS

IsByte(x) == x \in Int /\ 0 <= x /\ x <= 255

LEMMA ByteIs == \A x : IsByte(x) <=> x \in Byte
  BY DEF IsByte, Byte

LEMMA ByteSeq ==
  ASSUME NEW b \in Bytes
  PROVE  /\ Len(b) \in Nat /\ b \in Seq(Byte) /\ DOMAIN b = 1..Len(b)
         /\ \A i \in 1..Len(b) : IsByte(b[i])
<1>1. Len(b) \in Nat /\ b \in Seq(Byte) /\ DOMAIN b = 1..Len(b)
  BY LenProperties DEF Bytes
<1>2. \A i \in 1..Len(b) : b[i] \in Byte
  BY <1>1, ElementOfSeq
<1> QED
  BY <1>1, <1>2, ByteIs

LEMMA SumStep ==
  ASSUME NEW b \in Bytes
  PROVE  /\ Sums(b)[0] = 0
         /\ \A k \in 1..Len(b) : Sums(b)[k] = Sums(b)[k - 1] + b[k]
<1> DEFINE N == Len(b)
           Adds(s, m) == s = [k \in 0..m |-> IF k = 0 THEN 0 ELSE s[k - 1] + b[k]]
           Missing == {m \in Nat : ~\E s : Adds(s, m)}
<1>1. N \in Nat
  BY ByteSeq
<1>2. Missing = {}
  <2> SUFFICES ASSUME Missing # {} PROVE FALSE
    OBVIOUS
  <2>0. Missing \in SUBSET Nat
    OBVIOUS
  <2>1. PICK m \in Missing : \A y \in Missing : m <= y
    BY <2>0, LeastElement
  <2>2. CASE m = 0
    <3>1. Adds([k \in 0..0 |-> 0], 0)
      OBVIOUS
    <3> QED
      BY <2>2, <3>1
  <2>3. CASE m # 0
    <3>1. m - 1 \in Nat /\ m - 1 < m
      BY <2>3
    <3>2. m - 1 \notin Missing
      <4> HIDE DEF Missing
      <4> QED
        BY <2>1, <2>0, <3>1
    <3>3. PICK s0 : Adds(s0, m - 1)
      BY <3>1, <3>2
    <3>4. PICK e : e = s0[m - 1] + b[m]
      OBVIOUS
    <3> DEFINE g == [k \in 0..m |-> IF k = m THEN e ELSE s0[k]]
    <3>5. Adds(g, m)
      BY <2>3, <3>1, <3>3, <3>4
    <3> QED
      BY <3>5
  <2> QED
    BY <2>2, <2>3
<1>3. Adds(Sums(b), N)
  <2>1. PICK s0 : Adds(s0, N)
    BY <1>1, <1>2
  <2>2. Sums(b) = CHOOSE s : Adds(s, N)
    BY DEF Sums
  <2> QED
    BY <2>1, <2>2
<1> QED
  BY <1>1, <1>3

(* A sequence that is no shorter and nowhere smaller has no smaller sum, and the *)
(* same one only if nothing differs.                                             *)
Below(a, b, k) ==
  /\ Sums(a)[k] \in 0..(255 * k) /\ Sums(b)[k] \in Nat
  /\ Sums(a)[k] <= Sums(b)[k]
  /\ Sums(a)[k] = Sums(b)[k] => \A i \in 1..k : a[i] = b[i]

LEMMA SumsBelow ==
  ASSUME NEW a \in Bytes, NEW b \in Bytes, Len(a) <= Len(b), \A i \in 1..Len(a) : a[i] <= b[i]
  PROVE  \A k \in 0..Len(a) : Below(a, b, k)
<1> DEFINE Wrong == {k \in 0..Len(a) : ~Below(a, b, k)}
<1> SUFFICES ASSUME Wrong # {} PROVE FALSE
  OBVIOUS
<1>1. /\ Len(a) \in Nat /\ Len(b) \in Nat
      /\ \A i \in 1..Len(a) : IsByte(a[i]) /\ IsByte(b[i])
  BY ByteSeq
<1>2. PICK k \in 0..Len(a) : ~Below(a, b, k) /\ \A y \in Wrong : k <= y
  <2>1. Wrong \in SUBSET Nat
    BY <1>1
  <2> QED
    BY <2>1, LeastElement
<1>3. k # 0
  <2>1. Sums(a)[0] = 0 /\ Sums(b)[0] = 0
    BY SumStep
  <2>2. Below(a, b, 0)
    BY <2>1 DEF Below
  <2> QED
    BY <1>2, <2>2
<1>4. k \in 1..Len(a) /\ k \in 1..Len(b) /\ k - 1 \in 0..Len(a) /\ k - 1 < k
  BY <1>1, <1>2, <1>3
<1>5. Below(a, b, k - 1)
  BY <1>1, <1>2, <1>4
<1>6. /\ Sums(a)[k] = Sums(a)[k - 1] + a[k] /\ Sums(b)[k] = Sums(b)[k - 1] + b[k]
      /\ IsByte(a[k]) /\ IsByte(b[k]) /\ a[k] <= b[k]
  BY <1>1, <1>4, SumStep
<1>7. /\ Sums(a)[k] \in 0..(255 * k) /\ Sums(b)[k] \in Nat
      /\ Sums(a)[k] <= Sums(b)[k]
  <2>1. PICK n, x, y, u, v : n = k /\ x = Sums(a)[k - 1] /\ y = Sums(b)[k - 1] /\ u = a[k] /\ v = b[k]
    OBVIOUS
  <2>2. /\ n \in Nat \ {0} /\ x \in 0..(255 * (n - 1)) /\ y \in Nat /\ x <= y
        /\ IsByte(u) /\ IsByte(v) /\ u <= v
    BY <1>1, <1>4, <1>5, <1>6, <2>1 DEF Below
  <2>3. x + u \in 0..(255 * n) /\ y + v \in Nat /\ x + u <= y + v
    BY <2>2 DEF IsByte
  <2> QED
    BY <1>6, <2>1, <2>3
<1>8. ASSUME Sums(a)[k] = Sums(b)[k]
      PROVE  \A i \in 1..k : a[i] = b[i]
  <2>1. Sums(a)[k - 1] = Sums(b)[k - 1] /\ a[k] = b[k]
    <3>1. PICK x, y, u, v : x = Sums(a)[k - 1] /\ y = Sums(b)[k - 1] /\ u = a[k] /\ v = b[k]
      OBVIOUS
    <3>2. x \in Int /\ y \in Int /\ x <= y /\ u \in Int /\ v \in Int /\ u <= v
      BY <1>4, <1>5, <1>6, <3>1 DEF Below, IsByte
    <3>3. x + u = y + v
      BY <1>6, <1>8, <3>1
    <3>4. x = y /\ u = v
      BY ONLY <3>2, <3>3
    <3> QED
      BY ONLY <3>1, <3>4
  <2>2. \A i \in 1..(k - 1) : a[i] = b[i]
    BY <1>5, <2>1 DEF Below
  <2> QED
    BY <1>4, <2>1, <2>2
<1> QED
  BY <1>2, <1>7, <1>8 DEF Below

LEMMA SumGrows ==
  ASSUME NEW b \in Bytes
  PROVE  \A j, k \in 0..Len(b) : j <= k => Sums(b)[j] <= Sums(b)[k]
<1> SUFFICES ASSUME NEW j \in 0..Len(b)
             PROVE  \A k \in 0..Len(b) : j <= k => Sums(b)[j] <= Sums(b)[k]
  OBVIOUS
<1> DEFINE Wrong == {k \in 0..Len(b) : j <= k /\ ~(Sums(b)[j] <= Sums(b)[k])}
<1> SUFFICES ASSUME Wrong # {} PROVE FALSE
  OBVIOUS
<1>1. Len(b) \in Nat /\ \A i \in 1..Len(b) : IsByte(b[i])
  BY ByteSeq
<1>2. PICK k \in 0..Len(b) : j <= k /\ ~(Sums(b)[j] <= Sums(b)[k]) /\ \A y \in Wrong : k <= y
  <2>1. Wrong \in SUBSET Nat
    BY <1>1
  <2> QED
    BY <2>1, LeastElement
<1>3. \A i \in 0..Len(b) : Sums(b)[i] \in Nat
  <2>1. \A i \in 1..Len(b) : b[i] <= b[i]
    BY <1>1 DEF IsByte
  <2>2. \A i \in 0..Len(b) : Below(b, b, i)
    BY <1>1, <2>1, SumsBelow
  <2> QED
    BY <2>2 DEF Below
<1>4. k # j
  BY <1>1, <1>2, <1>3
<1>5. k - 1 \in 0..Len(b) /\ j <= k - 1 /\ k \in 1..Len(b) /\ k - 1 < k
  BY <1>1, <1>2, <1>4
<1>6. Sums(b)[j] <= Sums(b)[k - 1]
  BY <1>2, <1>5
<1>7. Sums(b)[k] = Sums(b)[k - 1] + b[k] /\ IsByte(b[k])
  BY <1>1, <1>5, SumStep
<1>8. Sums(b)[j] \in Nat /\ Sums(b)[k - 1] \in Nat
  BY <1>3, <1>5
<1>9. Sums(b)[j] <= Sums(b)[k]
  BY <1>6, <1>7, <1>8 DEF IsByte
<1> QED
  BY <1>2, <1>9

LEMMA SumCompare ==
  ASSUME NEW a \in Bytes, NEW b \in Bytes, Len(a) <= Len(b), \A i \in 1..Len(a) : a[i] <= b[i]
  PROVE  /\ SumSeq(a) \in 0..(255 * Len(a)) /\ SumSeq(b) \in 0..(255 * Len(b))
         /\ SumSeq(a) <= SumSeq(b)
         /\ Len(a) = Len(b) /\ SumSeq(a) = SumSeq(b) => a = b
<1>1. Len(a) \in Nat /\ Len(b) \in Nat
  BY LenProperties DEF Bytes
<1>2. Below(a, b, Len(a))
  BY <1>1, SumsBelow
<1>3. Below(b, b, Len(b))
  <2>1. \A i \in 1..Len(b) : b[i] <= b[i]
    BY ByteSeq DEF IsByte
  <2> QED
    BY <1>1, <2>1, SumsBelow
<1>4. Sums(b)[Len(a)] <= Sums(b)[Len(b)]
  BY <1>1, SumGrows
<1>5. ASSUME Len(a) = Len(b), SumSeq(a) = SumSeq(b)
      PROVE  a = b
  <2>1. \A i \in 1..Len(a) : a[i] = b[i]
    BY <1>2, <1>5 DEF Below, SumSeq
  <2> QED
    BY <1>5, <2>1, SeqEqual DEF Bytes
<1> QED
  BY <1>1, <1>2, <1>3, <1>4, <1>5 DEF Below, SumSeq

--------------------------------------------------------------------------------
(* Sequences of anything: plans, and what has been read. *)

IsSeq(s) == \E S : s \in Seq(S)

LEMMA SeqForm ==
  ASSUME NEW s, IsSeq(s)
  PROVE  Len(s) \in Nat /\ DOMAIN s = 1..Len(s) /\ (s = <<>> <=> Len(s) = 0)
<1>1. PICK S : s \in Seq(S)
  BY DEF IsSeq
<1> QED
  BY <1>1, LenProperties, EmptySeq

LEMMA SeqSame ==
  ASSUME NEW s, NEW t, IsSeq(s), IsSeq(t), Len(s) = Len(t), \A i \in 1..Len(s) : s[i] = t[i]
  PROVE  s = t
<1>1. PICK S, T : s \in Seq(S) /\ t \in Seq(T)
  BY DEF IsSeq
<1>2. s \in Seq(S \cup T) /\ t \in Seq(S \cup T)
  BY <1>1, SeqMonotonic
<1> QED
  BY <1>2, SeqEqual

LEMMA FcnIsSeq ==
  ASSUME NEW n \in Nat, NEW f, f = [i \in 1..n |-> f[i]]
  PROVE  IsSeq(f) /\ Len(f) = n
<1>1. f \in [1..n -> {f[i] : i \in 1..n}]
  OBVIOUS
<1>2. f \in Seq({f[i] : i \in 1..n})
  BY <1>1, SeqDef
<1>3. Len(f) \in Nat /\ DOMAIN f = 1..Len(f)
  BY <1>2, LenProperties
<1>4. 1..n = 1..Len(f)
  BY <1>1, <1>3
<1>5. n = Len(f)
  BY <1>3, <1>4
<1> QED
  BY <1>2, <1>5 DEF IsSeq

LEMMA AppendForm ==
  ASSUME NEW s, IsSeq(s), NEW e
  PROVE  /\ IsSeq(Append(s, e)) /\ Len(Append(s, e)) = Len(s) + 1
         /\ \A i \in 1..Len(s) : Append(s, e)[i] = s[i]
         /\ Append(s, e)[Len(s) + 1] = e
<1>1. PICK S : s \in Seq(S)
  BY DEF IsSeq
<1>2. s \in Seq(S \cup {e}) /\ e \in S \cup {e}
  BY <1>1, SeqMonotonic
<1> QED
  BY <1>2, AppendProperties DEF IsSeq

LEMMA ConcatForm ==
  ASSUME NEW s, NEW t, IsSeq(s), IsSeq(t)
  PROVE  /\ IsSeq(s \o t) /\ Len(s \o t) = Len(s) + Len(t)
         /\ \A i \in 1..Len(s) : (s \o t)[i] = s[i]
         /\ \A i \in 1..Len(t) : (s \o t)[Len(s) + i] = t[i]
<1>1. PICK S, T : s \in Seq(S) /\ t \in Seq(T)
  BY DEF IsSeq
<1>2. s \in Seq(S \cup T) /\ t \in Seq(S \cup T)
  BY <1>1, SeqMonotonic
<1>3. /\ s \o t \in Seq(S \cup T) /\ Len(s \o t) = Len(s) + Len(t)
      /\ \A i \in 1..(Len(s) + Len(t)) :
           (s \o t)[i] = IF i <= Len(s) THEN s[i] ELSE t[i - Len(s)]
  BY <1>2, ConcatProperties
<1>4. Len(s) \in Nat /\ Len(t) \in Nat
  BY SeqForm
<1> QED
  BY <1>3, <1>4 DEF IsSeq

LEMMA SubSeqForm ==
  ASSUME NEW s, IsSeq(s), NEW a \in Nat \ {0}, NEW b \in Nat, b <= Len(s)
  PROVE  /\ IsSeq(SubSeq(s, a, b)) /\ Len(SubSeq(s, a, b)) = IF a <= b THEN b - a + 1 ELSE 0
         /\ \A i \in 1..(b - a + 1) : SubSeq(s, a, b)[i] = s[a + i - 1]
<1>1. PICK S : s \in Seq(S)
  BY DEF IsSeq
<1>2. Len(s) \in Nat
  BY SeqForm
<1>3. CASE a <= b
  <2>1. /\ SubSeq(s, a, b) \in Seq(S) /\ Len(SubSeq(s, a, b)) = b - a + 1
        /\ \A i \in 1..(b - a + 1) : SubSeq(s, a, b)[i] = s[a + i - 1]
    BY <1>1, <1>2, <1>3, SubSeqProperties
  <2> QED
    BY <1>3, <2>1 DEF IsSeq
<1>4. CASE ~(a <= b)
  <2>1. SubSeq(s, a, b) = <<>>
    BY <1>1, <1>4, SubSeqEmpty
  <2>2. <<>> \in Seq(S) /\ Len(<<>>) = 0
    BY EmptySeq
  <2> QED
    BY <1>4, <2>1, <2>2 DEF IsSeq
<1> QED
  BY <1>3, <1>4

LEMMA Tuples ==
  /\ IsSeq(<<>>) /\ Len(<<>>) = 0
  /\ \A a : IsSeq(<<a>>) /\ Len(<<a>>) = 1 /\ <<a>>[1] = a
  /\ \A a, b : IsSeq(<<a, b>>) /\ Len(<<a, b>>) = 2 /\ <<a, b>>[1] = a /\ <<a, b>>[2] = b
  /\ \A a, b, c : /\ IsSeq(<<a, b, c>>) /\ Len(<<a, b, c>>) = 3
                  /\ <<a, b, c>>[1] = a /\ <<a, b, c>>[2] = b /\ <<a, b, c>>[3] = c
<1>1. <<>> \in Seq({}) /\ \A a : <<a>> \in Seq({a})
  BY EmptySeq
<1>2. \A a, b : <<a, b>> \in Seq({a, b})
  OBVIOUS
<1>3. \A a, b, c : <<a, b, c>> \in Seq({a, b, c})
  OBVIOUS
<1> QED
  BY <1>1, <1>2, <1>3 DEF IsSeq

(* What is left of a plan after n operations. *)
LEMMA DropForm ==
  ASSUME NEW s, IsSeq(s), NEW n \in Nat
  PROVE  /\ IsSeq(Drop(s, n)) /\ Len(Drop(s, n)) = IF n < Len(s) THEN Len(s) - n ELSE 0
         /\ \A i \in 1..(Len(s) - n) : Drop(s, n)[i] = s[n + i]
         /\ Drop(s, n) = <<>> <=> n >= Len(s)
<1>1. Len(s) \in Nat
  BY SeqForm
<1>2. /\ IsSeq(Drop(s, n))
      /\ Len(Drop(s, n)) = IF n + 1 <= Len(s) THEN Len(s) - (n + 1) + 1 ELSE 0
      /\ \A i \in 1..(Len(s) - (n + 1) + 1) : Drop(s, n)[i] = s[(n + 1) + i - 1]
  BY <1>1, SubSeqForm DEF Drop
<1>3. Drop(s, n) = <<>> <=> Len(Drop(s, n)) = 0
  BY <1>2, SeqForm
<1>4. \A i \in 1..(Len(s) - n) : Drop(s, n)[i] = s[n + i]
  <2> TAKE i \in 1..(Len(s) - n)
  <2>1. i \in 1..(Len(s) - (n + 1) + 1) /\ (n + 1) + i - 1 = n + i
    BY <1>1
  <2> QED
    BY <1>2, <2>1
<1> QED
  BY <1>1, <1>2, <1>3, <1>4

LEMMA DropMore ==
  ASSUME NEW s, IsSeq(s), NEW n \in Nat, NEW k \in Nat
  PROVE  Drop(Drop(s, n), k) = Drop(s, n + k)
<1>1. Len(s) \in Nat
  BY SeqForm
<1>2. /\ IsSeq(Drop(s, n)) /\ Len(Drop(s, n)) = (IF n < Len(s) THEN Len(s) - n ELSE 0)
      /\ \A i \in 1..(Len(s) - n) : Drop(s, n)[i] = s[n + i]
  BY DropForm
<1>3. /\ IsSeq(Drop(Drop(s, n), k))
      /\ Len(Drop(Drop(s, n), k))
           = (IF k < Len(Drop(s, n)) THEN Len(Drop(s, n)) - k ELSE 0)
      /\ \A i \in 1..(Len(Drop(s, n)) - k) : Drop(Drop(s, n), k)[i] = Drop(s, n)[k + i]
  BY <1>2, DropForm
<1>4. /\ IsSeq(Drop(s, n + k)) /\ Len(Drop(s, n + k)) = (IF n + k < Len(s) THEN Len(s) - (n + k) ELSE 0)
      /\ \A i \in 1..(Len(s) - (n + k)) : Drop(s, n + k)[i] = s[n + k + i]
  <2>1. PICK z \in Nat : z = n + k
    OBVIOUS
  <2>2. /\ IsSeq(Drop(s, z)) /\ Len(Drop(s, z)) = (IF z < Len(s) THEN Len(s) - z ELSE 0)
        /\ \A i \in 1..(Len(s) - z) : Drop(s, z)[i] = s[z + i]
    BY DropForm
  <2> QED
    BY <2>1, <2>2
<1>5. Len(Drop(Drop(s, n), k)) = Len(Drop(s, n + k))
  BY <1>1, <1>2, <1>3, <1>4
<1>6. ASSUME NEW i \in 1..Len(Drop(s, n + k))
      PROVE  Drop(Drop(s, n), k)[i] = Drop(s, n + k)[i]
  <2>1. i \in 1..(Len(s) - (n + k)) /\ n < Len(s)
    BY <1>1, <1>4, <1>6
  <2>2. k + i \in 1..(Len(s) - n) /\ i \in 1..(Len(Drop(s, n)) - k)
    BY <1>1, <1>2, <2>1
  <2>3. n + (k + i) = n + k + i
    BY <2>1
  <2> QED
    BY <1>2, <1>3, <1>4, <2>1, <2>2, <2>3
<1> QED
  BY <1>3, <1>4, <1>5, <1>6, SeqSame

--------------------------------------------------------------------------------
(* The forms of the device's registers and of a call, and what is laid out. *)

Drawers == {"header", "sb", "nb_header", "nb", "version", "ext", "tag", "fw", "slot"}
CommChip(c) ==
  /\ DOMAIN c = {"reg", "at", "on", "alarm", "present", "full", "lost", "mem"}
  /\ DOMAIN c.mem = Drawers
  /\ IsSeq(c.mem.header) /\ Len(c.mem.header) = 4
  /\ IsSeq(c.mem.sb) /\ Len(c.mem.sb) = conf.room
  /\ IsSeq(c.mem.nb_header) /\ Len(c.mem.nb_header) = 4
  /\ IsSeq(c.mem.nb) /\ Len(c.mem.nb) = conf.room
  /\ IsSeq(c.mem.version) /\ Len(c.mem.version) = Len(conf.first)
  /\ IsSeq(c.mem.ext) /\ Len(c.mem.ext) = 2
CommDrv(d) == DOMAIN d = {"call", "plan", "k", "buf", "got", "ok", "spare", "arg"}
CommForm ==
  /\ conf \in CommConf
  /\ CommChip(chip) /\ CommDrv(drv)
  /\ DOMAIN seen = {"asked", "taken", "version", "ext"}

(* The write op puts bytes of v where they belong in register reg. *)
Lays(op, reg, v) ==
  /\ op.do = "write" /\ op.reg = reg /\ op.skip = All
  /\ op.n \in Nat \ {0} /\ IsSeq(op.bytes) /\ op.n + Len(op.bytes) - 1 <= Len(v)
  /\ \A i \in 1..Len(op.bytes) : op.bytes[i] = v[op.n + i - 1]
Covers(op, reg, p) ==
  op.do = "write" /\ op.reg = reg /\ p \in op.n..(op.n + Len(op.bytes) - 1)

(* What of v is not in the register yet is still in the plan. *)
LaidIn(r, v, reg, plan) ==
  \A p \in 1..Len(v) : r[p] = v[p] \/ \E i \in 1..Len(plan) : Covers(plan[i], reg, p)

LEMMA Laid ==
  ASSUME NEW r, NEW v, NEW reg, LaidIn(r, v, reg, <<>>), IsSeq(r), IsSeq(v)
  PROVE  /\ \A p \in 1..Len(v) : r[p] = v[p]
         /\ Len(r) = Len(v) => r = v
<1>1. Len(<<>>) = 0
  BY Tuples
<1>2. \A p \in 1..Len(v) : r[p] = v[p]
  BY <1>1 DEF LaidIn
<1> QED
  BY <1>2, SeqSame

(* The first operation is done, and those after it up to n are none of reg's. *)
LEMMA LaidFurther ==
  ASSUME NEW r, NEW s, NEW v, NEW reg, NEW plan, IsSeq(plan), LaidIn(r, v, reg, plan),
         Len(plan) # 0, NEW n \in Nat \ {0},
         \A p \in 1..Len(v) : IF Covers(plan[1], reg, p) THEN s[p] = v[p] ELSE s[p] = r[p],
         \A j \in 2..n : j \in 1..Len(plan) => ~\E p : Covers(plan[j], reg, p)
  PROVE  LaidIn(s, v, reg, Drop(plan, n))
<1> SUFFICES ASSUME NEW p \in 1..Len(v), s[p] # v[p]
             PROVE  \E i \in 1..Len(Drop(plan, n)) : Covers(Drop(plan, n)[i], reg, p)
  BY DEF LaidIn
<1>1. ~Covers(plan[1], reg, p) /\ r[p] # v[p]
  OBVIOUS
<1>2. PICK i \in 1..Len(plan) : Covers(plan[i], reg, p)
  BY <1>1 DEF LaidIn
<1>3. Len(plan) \in Nat
  BY SeqForm
<1>4. i > n
  BY <1>1, <1>2, <1>3
<1>5. /\ Len(Drop(plan, n)) = IF n < Len(plan) THEN Len(plan) - n ELSE 0
      /\ \A j \in 1..(Len(plan) - n) : Drop(plan, n)[j] = plan[n + j]
  BY DropForm
<1>6. i - n \in 1..Len(Drop(plan, n)) /\ i - n \in 1..(Len(plan) - n) /\ n + (i - n) = i
  BY <1>2, <1>3, <1>4, <1>5
<1>7. Drop(plan, n)[i - n] = plan[i]
  BY <1>5, <1>6
<1> QED
  BY <1>2, <1>6, <1>7

LEMMA OverlayForm ==
  ASSUME NEW r, IsSeq(r), NEW v, NEW reg, NEW op, Lays(op, reg, v), IsSeq(v), Len(v) <= Len(r)
  PROVE  LET s == Overlay(r, op.n, op.bytes)
         IN /\ IsSeq(s) /\ Len(s) = Len(r)
            /\ \A p \in 1..Len(v) : IF Covers(op, reg, p) THEN s[p] = v[p] ELSE s[p] = r[p]
<1> DEFINE s == Overlay(r, op.n, op.bytes)
<1>1. Len(r) \in Nat /\ Len(v) \in Nat /\ Len(op.bytes) \in Nat /\ op.n \in Nat \ {0}
  BY SeqForm DEF Lays
<1>2. s = [i \in 1..Len(r) |-> IF i \in op.n..(op.n + Len(op.bytes) - 1)
                               THEN op.bytes[i - op.n + 1] ELSE r[i]]
  BY DEF Overlay
<1>3. s = [i \in 1..Len(r) |-> s[i]]
  BY <1>2
<1>4. IsSeq(s) /\ Len(s) = Len(r)
  <2> HIDE DEF s
  <2> QED
    BY <1>1, <1>3, FcnIsSeq
<1>5. ASSUME NEW p \in 1..Len(v)
      PROVE  IF Covers(op, reg, p) THEN s[p] = v[p] ELSE s[p] = r[p]
  <2>1. p \in 1..Len(r)
    BY <1>1
  <2>2. CASE Covers(op, reg, p)
    <3>1. p \in op.n..(op.n + Len(op.bytes) - 1)
      BY <2>2 DEF Covers
    <3>2. s[p] = op.bytes[p - op.n + 1]
      BY <1>2, <2>1, <3>1
    <3>3. p - op.n + 1 \in 1..Len(op.bytes) /\ op.n + (p - op.n + 1) - 1 = p
      BY <1>1, <3>1
    <3> QED
      BY <2>2, <3>2, <3>3 DEF Lays
  <2>3. CASE ~Covers(op, reg, p)
    <3>1. p \notin op.n..(op.n + Len(op.bytes) - 1)
      BY <2>3 DEF Covers, Lays
    <3> QED
      BY <1>2, <2>1, <2>3, <3>1
  <2> QED
    BY <2>2, <2>3
<1> QED
  BY <1>4, <1>5

LEMMA ConcatParts ==
  ASSUME NEW s, NEW t, IsSeq(s), IsSeq(t), NEW i \in 1..Len(s \o t)
  PROVE  \/ i \in 1..Len(s) /\ (s \o t)[i] = s[i]
         \/ \E j \in 1..Len(t) : i = Len(s) + j /\ (s \o t)[i] = t[j]
<1>1. Len(s) \in Nat /\ Len(t) \in Nat
  BY SeqForm
<1>2. /\ Len(s \o t) = Len(s) + Len(t)
      /\ \A j \in 1..Len(s) : (s \o t)[j] = s[j]
      /\ \A j \in 1..Len(t) : (s \o t)[Len(s) + j] = t[j]
  BY ConcatForm
<1>3. CASE i <= Len(s)
  BY <1>1, <1>2, <1>3
<1>4. CASE i > Len(s)
  <2>1. i - Len(s) \in 1..Len(t) /\ Len(s) + (i - Len(s)) = i
    BY <1>1, <1>2, <1>4
  <2> QED
    BY <1>2, <2>1
<1> QED
  BY <1>1, <1>3, <1>4

(* The blocks of a write: each puts its bytes where they belong, and no byte is *)
(* left out.                                                                    *)
LEMMA BlocksForm ==
  ASSUME conf.block \in Nat \ {0}, NEW v, IsSeq(v), NEW reg
  PROVE  LET b == Blocks(reg, v)
         IN /\ IsSeq(b) /\ (Len(v) # 0 => Len(b) # 0)
            /\ \A i \in 1..Len(b) : Lays(b[i], reg, v)
            /\ \A p \in 1..Len(v) : \E i \in 1..Len(b) : Covers(b[i], reg, p)
<1> DEFINE b == Blocks(reg, v)
<1>1. PICK L \in Nat, z \in Nat \ {0} : L = Len(v) /\ z = conf.block
  BY SeqForm
<1>2. PICK q \in Nat : q = (L + z - 1) \div z /\ q * z <= L + z - 1 /\ L + z - 1 < (q + 1) * z
  <2>1. L + z - 1 \in Nat
    OBVIOUS
  <2> QED
    BY <2>1, Division
<1> DEFINE From(i) == (i - 1) * z + 1
           To(i) == Min2(L, From(i) + z - 1)
<1>3. b = [i \in 1..q |-> WriteOp(reg, From(i), SubSeq(v, From(i), To(i)), All)]
  BY <1>1, <1>2 DEF Blocks
<1>4. IsSeq(b) /\ Len(b) = q
  <2>1. b = [i \in 1..q |-> b[i]]
    BY <1>3
  <2> HIDE DEF b
  <2> QED
    BY <2>1, FcnIsSeq
<1>5. ASSUME NEW i \in 1..q
      PROVE  /\ From(i) \in Nat \ {0} /\ To(i) \in Nat
             /\ From(i) <= To(i) /\ To(i) <= L
             /\ \A p \in 1..L : From(i) <= p /\ p <= From(i) + z - 1 => p <= To(i)
  <2>1. PICK a \in Nat : a = (i - 1) * z
    <3>1. i - 1 \in Nat
      OBVIOUS
    <3> QED
      BY <3>1
  <2>2. i * z <= q * z
    BY <1>5
  <2>3. i * z = a + z
    BY <2>1
  <2>4. a + 1 <= L
    BY <1>2, <2>2, <2>3
  <2> QED
    BY <2>1, <2>4 DEF Min2
<1> HIDE DEF From, To
<1>6. ASSUME NEW i \in 1..q
      PROVE  /\ b[i].do = "write" /\ b[i].reg = reg /\ b[i].skip = All /\ b[i].n = From(i)
             /\ b[i].bytes = SubSeq(v, From(i), To(i))
  BY <1>3 DEF WriteOp
<1>7. ASSUME NEW i \in 1..q
      PROVE  /\ Lays(b[i], reg, v)
             /\ \A p \in From(i)..To(i) : Covers(b[i], reg, p)
  <2>1. /\ IsSeq(b[i].bytes) /\ Len(b[i].bytes) = To(i) - From(i) + 1
        /\ \A j \in 1..(To(i) - From(i) + 1) : b[i].bytes[j] = v[From(i) + j - 1]
    <3>1. PICK x \in Nat \ {0}, y \in Nat : x = From(i) /\ y = To(i)
      BY <1>5
    <3>2. x <= y /\ y <= Len(v) /\ b[i].bytes = SubSeq(v, x, y)
      BY <1>1, <1>5, <1>6, <3>1
    <3>3. /\ IsSeq(SubSeq(v, x, y)) /\ Len(SubSeq(v, x, y)) = y - x + 1
          /\ \A j \in 1..(y - x + 1) : SubSeq(v, x, y)[j] = v[x + j - 1]
      BY <3>2, SubSeqForm
    <3> HIDE DEF b
    <3> QED
      BY <3>1, <3>2, <3>3
  <2>2. From(i) + (To(i) - From(i) + 1) - 1 = To(i)
    BY <1>5
  <2> QED
    BY <1>1, <1>5, <1>6, <2>1, <2>2 DEF Lays, Covers
<1>8. ASSUME NEW p \in 1..L
      PROVE  \E i \in 1..q : p \in From(i)..To(i)
  <2>1. PICK k \in Nat : k = (p - 1) \div z /\ k * z <= p - 1 /\ p - 1 < (k + 1) * z
    <3>1. p - 1 \in Nat
      OBVIOUS
    <3> QED
      BY <3>1, Division
  <2>2. k + 1 <= q
    <3> SUFFICES ASSUME q + 1 <= k + 1 PROVE FALSE
      OBVIOUS
    <3>1. (q + 1) * z <= (k + 1) * z
      OBVIOUS
    <3>2. (k + 1) * z = k * z + z
      OBVIOUS
    <3> QED
      BY <1>2, <2>1, <3>1, <3>2
  <2>3. From(k + 1) = k * z + 1
    BY DEF From
  <2>4. (k + 1) * z = k * z + z
    OBVIOUS
  <2>5. From(k + 1) <= p /\ p <= From(k + 1) + z - 1
    BY <2>1, <2>3, <2>4
  <2>6. k + 1 \in 1..q
    BY <2>2
  <2>7. p <= To(k + 1) /\ From(k + 1) \in Nat /\ To(k + 1) \in Nat
    BY <1>5, <2>5, <2>6
  <2> QED
    BY <2>5, <2>6, <2>7
<1>9. L # 0 => q # 0
  BY <1>8
<1> HIDE DEF b
<1> QED
  BY <1>1, <1>4, <1>7, <1>8, <1>9 DEF b

--------------------------------------------------------------------------------
(* What the end of an operation does to the call. *)

(* The operations that are left out: after a failure those skip counts, else the *)
(* enabling of messages that are enabled.                                        *)
Leaves(plan, ok, n) ==
  \A j \in 2..n : j \in 1..Len(plan) =>
    IF ok THEN plan[j].reg = "enable" ELSE j <= 1 + plan[1].skip
Got(h) == IF Keeps(h.plan[1]) THEN h.buf ELSE h.got

Ended(h) ==
  \/ EndFailed(h)
  \/ /\ h.ok /\ EndOk([h EXCEPT !.got = Got(h)])
     /\ \E n \in Nat \ {0} : n >= Len(h.plan) /\ Leaves(h.plan, h.ok, n)
GoesOn(h) ==
  /\ CommDrv(drv') /\ drv'.call = h.call /\ drv'.k = 0 /\ drv'.got = Got(h)
  /\ out' = out /\ seen' = seen
  /\ \E n \in Nat \ {0} :
       /\ n < Len(h.plan) /\ Leaves(h.plan, h.ok, n) /\ (h.ok \/ h.plan[1].skip # All)
       /\ drv'.plan = Drop(h.plan, n) /\ drv'.arg = h.arg
Announced(h) ==
  /\ CommDrv(drv') /\ drv'.call = h.call /\ drv'.k = 0 /\ drv'.got = h.buf
  /\ out' = out /\ seen' = seen
  /\ h.ok /\ h.plan[1].reg = "header" /\ HeaderSize(h.buf) <= BufferMaxSize
  /\ drv'.plan = <<ReadOp("sb", HeaderSize(h.buf), All)>> \o Drop(h.plan, 1)
  /\ drv'.arg = h.buf

LEMMA Continued ==
  ASSUME NEW h, CommDrv(h), NEW tail, Continue(h, tail)
  PROVE  \/ tail = <<>> /\ h.ok /\ EndOk(h)
         \/ tail = <<>> /\ ~h.ok /\ EndFailed(h)
         \/ /\ tail # <<>> /\ CommDrv(drv') /\ out' = out /\ seen' = seen
            /\ drv'.call = h.call /\ drv'.k = 0 /\ drv'.got = h.got /\ drv'.arg = h.arg
            /\ drv'.plan = tail
  BY DEF Continue, CommDrv

LEMMA OpEnds ==
  ASSUME NEW h, CommDrv(h), IsSeq(h.plan), Len(h.plan) # 0,
         h.plan[1].skip \in Nat \cup {All}, h.plan[1].reg = "header" => h.plan[1].do = "read",
         AfterOp(h)
  PROVE  Ended(h) \/ GoesOn(h) \/ Announced(h)
<1> DEFINE op == h.plan[1]
           g == [h EXCEPT !.got = IF Keeps(op) THEN h.buf ELSE @]
           tail == IF ~g.ok /\ op.skip = All THEN <<>>
                   ELSE Drop(g.plan, IF g.ok THEN 1 ELSE 1 + op.skip)
<1>1. /\ CommDrv(g) /\ g.call = h.call /\ g.plan = h.plan /\ g.k = h.k /\ g.buf = h.buf
      /\ g.ok = h.ok /\ g.spare = h.spare /\ g.arg = h.arg /\ g.got = Got(h)
      /\ g = [h EXCEPT !.got = Got(h)]
  BY DEF CommDrv, Got
<1>2. CASE op.reg = "header" /\ g.ok /\ HeaderSize(g.got) > BufferMaxSize /\ EndFailed(g)
  BY <1>1, <1>2 DEF Ended, EndFailed, AfterFailed
<1>3. CASE /\ op.reg = "header" /\ g.ok /\ HeaderSize(g.got) <= BufferMaxSize
           /\ Continue([g EXCEPT !.arg = g.got], <<ReadOp("sb", HeaderSize(g.got), All)>> \o tail)
  <2>1. g.got = h.buf
    BY <1>1, <1>3 DEF Got, Keeps
  <2>2. tail = Drop(h.plan, 1)
    BY <1>1, <1>3
  <2>3. <<ReadOp("sb", HeaderSize(g.got), All)>> \o tail # <<>>
    <3>1. IsSeq(tail)
      BY <2>2, DropForm
    <3> HIDE DEF g, tail
    <3>2. PICK e, t : e = <<ReadOp("sb", HeaderSize(g.got), All)>> /\ t = tail
      OBVIOUS
    <3>3. IsSeq(e) /\ Len(e) = 1 /\ IsSeq(t)
      BY <3>1, <3>2, Tuples
    <3>4. IsSeq(e \o t) /\ Len(e \o t) = Len(e) + Len(t) /\ Len(t) \in Nat
      BY <3>3, ConcatForm, SeqForm
    <3>5. e \o t # <<>>
      BY <3>3, <3>4, SeqForm
    <3> QED
      BY <3>2, <3>5
  <2> DEFINE z == [g EXCEPT !.arg = g.got]
  <2>4. CommDrv(z) /\ z.call = g.call /\ z.got = g.got /\ z.arg = g.got
    BY <1>1 DEF CommDrv
  <2> HIDE DEF z, g, tail
  <2>5. /\ CommDrv(drv') /\ out' = out /\ seen' = seen /\ drv'.call = z.call /\ drv'.k = 0
        /\ drv'.got = z.got /\ drv'.arg = z.arg
        /\ drv'.plan = <<ReadOp("sb", HeaderSize(g.got), All)>> \o tail
    <3>1. Continue(z, <<ReadOp("sb", HeaderSize(g.got), All)>> \o tail)
      BY <1>3 DEF z
    <3> QED
      BY <2>3, <2>4, <3>1, Continued
  <2> QED
    BY <1>1, <1>3, <2>1, <2>2, <2>4, <2>5 DEF Announced
<1>4. CASE EndFailed(g)
  BY <1>1, <1>4 DEF Ended, EndFailed, AfterFailed
<1>5. ASSUME NEW n \in Nat \ {0}, Leaves(h.plan, h.ok, n), h.ok \/ op.skip # All,
             Continue(g, Drop(h.plan, n))
      PROVE  Ended(h) \/ GoesOn(h)
  <2>1. Drop(h.plan, n) = <<>> <=> n >= Len(h.plan)
    BY DropForm
  <2>2. CASE Drop(h.plan, n) = <<>> /\ g.ok /\ EndOk(g)
    BY <1>1, <1>5, <2>1, <2>2 DEF Ended
  <2>3. CASE EndFailed(g)
    BY <1>1, <2>3 DEF Ended, EndFailed, AfterFailed
  <2>4. CASE /\ Drop(h.plan, n) # <<>> /\ CommDrv(drv') /\ out' = out /\ seen' = seen
             /\ drv'.call = g.call /\ drv'.k = 0 /\ drv'.got = g.got /\ drv'.arg = g.arg
             /\ drv'.plan = Drop(h.plan, n)
    <3>1. Len(h.plan) \in Nat
      BY SeqForm
    <3>2. n < Len(h.plan)
      BY <2>1, <2>4, <3>1
    <3> HIDE DEF g, op
    <3> QED
      BY <1>1, <1>5, <2>4, <3>2 DEF GoesOn, op
  <2> HIDE DEF g
  <2> QED
    BY <1>1, <1>5, <2>2, <2>3, <2>4, Continued
<1>6. \/ tail = <<>> /\ ~h.ok /\ op.skip = All
      \/ \E n \in Nat \ {0} :
           /\ tail = Drop(h.plan, n) /\ Leaves(h.plan, h.ok, n) /\ (h.ok => n = 1)
           /\ h.ok \/ op.skip # All
  <2>1. CASE h.ok
    BY <1>1, <2>1 DEF Leaves
  <2>2. CASE ~h.ok /\ op.skip = All
    BY <1>1, <2>2
  <2>3. CASE ~h.ok /\ op.skip # All
    <3>1. op.skip \in Nat /\ 1 + op.skip \in Nat \ {0}
      BY <2>3
    <3>2. tail = Drop(h.plan, 1 + op.skip)
      BY <1>1, <2>3
    <3>3. Leaves(h.plan, h.ok, 1 + op.skip)
      BY <2>3, <3>1 DEF Leaves
    <3> QED
      BY <2>3, <3>1, <3>2, <3>3
  <2> QED
    BY <2>1, <2>2, <2>3
<1>7. CASE op.reg = "status" /\ g.ok /\ tail[1].reg = "enable" /\ Continue(g, Drop(tail, 1))
  <2>1. tail = Drop(h.plan, 1) /\ h.ok
    BY <1>1, <1>7
  <2>2. Drop(tail, 1) = Drop(h.plan, 2)
    BY <2>1, DropMore
  <2>3. Leaves(h.plan, h.ok, 2)
    <3> SUFFICES ASSUME 2 \in 1..Len(h.plan) PROVE h.plan[2].reg = "enable"
      BY <2>1 DEF Leaves
    <3>1. Len(h.plan) \in Nat
      BY SeqForm
    <3>2. \A i \in 1..(Len(h.plan) - 1) : Drop(h.plan, 1)[i] = h.plan[1 + i]
      BY DropForm
    <3>3. 1 \in 1..(Len(h.plan) - 1)
      BY <3>1
    <3>4. Drop(h.plan, 1)[1] = h.plan[2]
      BY <3>2, <3>3
    <3> QED
      BY <1>7, <2>1, <3>4
  <2> HIDE DEF g, tail
  <2>4. Continue(g, Drop(h.plan, 2))
    BY <1>7, <2>2
  <2>5. 2 \in Nat \ {0}
    OBVIOUS
  <2> QED
    BY <1>5, <2>1, <2>3, <2>4, <2>5
<1>8. CASE Continue(g, tail)
  <2>1. CASE tail = <<>> /\ ~h.ok
    <3>1. EndFailed(g)
      BY <1>1, <1>8, <2>1 DEF Continue
    <3> QED
      BY <1>4, <3>1
  <2> HIDE DEF g, tail
  <2> QED
    BY <1>5, <1>6, <1>8, <2>1
<1>9. \/ op.reg = "header" /\ g.ok /\ HeaderSize(g.got) > BufferMaxSize /\ EndFailed(g)
      \/ /\ op.reg = "header" /\ g.ok /\ HeaderSize(g.got) <= BufferMaxSize
         /\ Continue([g EXCEPT !.arg = g.got], <<ReadOp("sb", HeaderSize(g.got), All)>> \o tail)
      \/ EndFailed(g)
      \/ op.reg = "status" /\ g.ok /\ tail[1].reg = "enable" /\ Continue(g, Drop(tail, 1))
      \/ Continue(g, tail)
  <2> HIDE DEF tail, g
  <2>1. CASE op.reg = "header" /\ g.ok /\ HeaderSize(g.got) > BufferMaxSize
    BY <2>1 DEF AfterOp, g, tail
  <2> QED
    BY DEF AfterOp, g, tail
<1> QED
  BY <1>2, <1>3, <1>4, <1>7, <1>8, <1>9

--------------------------------------------------------------------------------
(* The registers, and what the host is told of them. *)

(* An operation that leaves the mailboxes, the version and the control alone; of *)
(* the commands it may flush the buffer.                                         *)
Gentle(op) ==
  /\ op.reg \notin {"header", "sb", "nb_header", "nb", "version", "ext"}
  /\ op.do = "read" \/ /\ op.do = "write"
                       /\ \/ op.reg \in {"enable", "status", "s06", "s07"}
                          \/ op.reg = "ctl" /\ op.bytes[1] = "flush"
Orders(op, bit) == op.do = "write" /\ op.reg = "ctl" /\ op.bytes[1] = bit /\ op.skip = All

Cut(m) == SubSeq(m, 1, Size(m))
ControlBytes(v) == SubSeq(Tenfold(v), 1, conf.width)
Serves(call, arg, op) ==
  \/ call = "msg_read" /\ op.skip = All /\ (op.do = "read" \/ Orders(op, "verified"))
  \/ call = "msg_write" /\ \/ Lays(op, "nb", arg) \/ Lays(op, "nb_header", Header(Cut(arg)))
                           \/ Orders(op, "complete") \/ Gentle(op)
  \/ call = "version_set" /\ Lays(op, "version", arg)
  \/ call = "ext_set" /\ (Lays(op, "ext", ControlBytes(arg)) \/ Gentle(op))
  \/ call \in {"ready", "version_get", "ext_get"} /\ op.do = "read" /\ op.reg # "header"
  \/ call \in {"platform_info", "temperature_set", "ambient_set", "enable", "flush"} /\ Gentle(op)

(* A failure leaves out only gentle operations. *)
Skips(plan) ==
  \A i \in 1..Len(plan) :
    /\ plan[i].skip \in Nat \cup {All}
    /\ \A j \in 1..Len(plan) : i < j /\ j <= i + plan[i].skip => Gentle(plan[j])
Sound(call, arg, plan) ==
  /\ IsSeq(plan) /\ Len(plan) # 0 /\ Skips(plan)
  /\ \A i \in 1..Len(plan) : Serves(call, arg, plan[i])
Plans == drv.call # "idle" => out.call = "none" /\ Sound(drv.call, drv.arg, drv.plan)

(* A read of one register, and what byte i of it says. *)
Asking == drv.call \in {"ready", "version_get", "ext_get"}
ReadOf(call) ==
  CASE call = "ready" -> ReadOp("nb_status", 2, All)
    [] call = "version_get" -> ReadOp("version", Len(conf.first), All)
    [] call = "ext_get" -> ReadOp("ext", conf.width, All)
ByteTells(c, call, i, byte) ==
  /\ call = "ready" /\ i = 1 /\ byte = 0 => ~c.full
  /\ call = "version_get" => byte = c.mem.version[i]
  /\ call = "ext_get" => byte = c.mem.ext[i]
Reads ==
  Asking =>
    /\ drv.plan = <<ReadOf(drv.call)>> /\ drv.k \in 0..ReadOf(drv.call).n
    /\ drv.k # 0 => /\ chip.reg = ReadOf(drv.call).reg /\ chip.at = drv.k
                    /\ IsSeq(drv.buf) /\ Len(drv.buf) = drv.k - 1
                    /\ \A i \in 1..(drv.k - 1) : ByteTells(chip, drv.call, i, drv.buf[i])

Sets ==
  /\ seen.version # None /\ drv.call # "version_set" => chip.mem.version = seen.version
  /\ conf.width = 2 /\ seen.ext \in 0..ExtMax /\ drv.call # "ext_set" =>
       chip.mem.ext = Tenfold(seen.ext)
  /\ drv.call = "version_set" =>
       drv.arg \in conf.versions /\ LaidIn(chip.mem.version, drv.arg, "version", drv.plan)
  /\ drv.call = "ext_set" =>
       drv.arg \in Nat /\ LaidIn(chip.mem.ext, ControlBytes(drv.arg), "ext", drv.plan)

(* The buffer to the controller: it is free while it is written, and full of one *)
(* message.                                                                      *)
Carries(header, bytes, m) == header = Header(Cut(m)) /\ SubSeq(bytes, 1, Len(Cut(m))) = Cut(m)
Free == "ready" \in seen.asked => ~chip.full /\ drv.call # "msg_write"
Loads ==
  drv.call = "msg_write" =>
    /\ ~chip.full
    /\ drv.arg \in conf.written
    /\ LaidIn(chip.mem.nb, drv.arg, "nb", drv.plan)
    /\ LaidIn(chip.mem.nb_header, Header(Cut(drv.arg)), "nb_header", drv.plan)
    /\ \A i \in 1..Len(drv.plan) : Orders(drv.plan[i], "complete") => i = Len(drv.plan)
Filled ==
  /\ chip.full => \E m \in conf.written : Carries(chip.mem.nb_header, chip.mem.nb, m)
  /\ seen.taken # None => \E m \in conf.written : Carries(seen.taken.header, seen.taken.bytes, m)

HostGood == CommForm /\ Plans /\ Reads /\ Sets /\ Free /\ Loads /\ Filled /\ SetsStand
HostInv == Is("comm") => HostGood

--------------------------------------------------------------------------------
(* What the configuration says, and the plans of the calls. *)

LEMMA BytesAreSeq == \A b \in Bytes : IsSeq(b)
  BY DEF Bytes, IsSeq

LEMMA WipedForm ==
  ASSUME NEW n \in Nat
  PROVE  LET b == [i \in 1..n |-> Erased]
         IN b \in Bytes /\ IsSeq(b) /\ Len(b) = n /\ \A i \in 1..n : b[i] = Erased
<1> DEFINE b == [i \in 1..n |-> Erased]
<1>1. b \in [1..n -> Byte]
  BY DEF Erased, Byte
<1>2. b \in Bytes
  BY <1>1, SeqDef DEF Bytes
<1>3. b = [i \in 1..n |-> b[i]]
  OBVIOUS
<1>4. IsSeq(b) /\ Len(b) = n
  <2> HIDE DEF b
  <2> QED
    BY <1>3, FcnIsSeq
<1> QED
  BY <1>2, <1>4

LEMMA Four ==
  ASSUME NEW a, NEW b, NEW c, NEW d
  PROVE  LET t == <<a, b, c, d>>
         IN IsSeq(t) /\ Len(t) = 4 /\ t[1] = a /\ t[2] = b /\ t[3] = c /\ t[4] = d
<1>1. <<a, b, c, d>> \in Seq({a, b, c, d})
  OBVIOUS
<1> QED
  BY <1>1 DEF IsSeq

LEMMA CommConfigured ==
  ASSUME conf \in CommConf
  PROVE  /\ Is("comm") /\ conf.room \in Nat /\ conf.block \in Nat \ {0} /\ conf.width \in {1, 2}
         /\ IsSeq(conf.first) /\ Len(conf.first) \in Nat \ {0} /\ conf.first # <<>>
         /\ \A v \in conf.versions : IsSeq(v) /\ Len(v) = Len(conf.first) /\ v # <<>>
         /\ \A m \in conf.sent \cup conf.written : m \in Bytes /\ IsSeq(m) /\ Len(m) <= conf.room
         /\ conf.values \subseteq Nat
<1>1. /\ conf.dev = "comm" /\ conf.room \in Nat /\ conf.block \in Nat \ {0} /\ conf.width \in {1, 2}
      /\ conf.sent \cup conf.written \subseteq Seq(0..255)
      /\ \A m \in conf.sent \cup conf.written : Len(m) <= conf.room
      /\ {conf.first} \cup conf.versions \subseteq Seq(0..255) \ {<<>>}
      /\ \A v \in conf.versions : Len(v) = Len(conf.first)
      /\ conf.values \subseteq Nat
  BY CommConfAssumption
<1>2. \A b \in Seq(0..255) : b \in Bytes
  BY DEF Bytes, Byte
<1>3. conf.first \in Bytes /\ conf.first # <<>>
  BY <1>1, <1>2
<1>4. Len(conf.first) \in Nat \ {0}
  BY <1>3, BytesAreSeq, SeqForm
<1> QED
  BY <1>1, <1>2, <1>3, <1>4, BytesAreSeq DEF Is

(* The part of a message of the host up to its end. *)
LEMMA CutForm ==
  ASSUME conf \in CommConf, NEW m \in conf.written
  PROVE  /\ Size(m) \in 1..Len(m) /\ Len(m) \in Nat
         /\ IsSeq(Cut(m)) /\ Len(Cut(m)) = Size(m)
         /\ \A i \in 1..Size(m) : Cut(m)[i] = m[i]
<1>1. IsSeq(m)
  BY CommConfigured
<1>2. Len(m) \in Nat
  BY <1>1, SeqForm
<1> DEFINE Ends == {i \in 1..Len(m) : m[i] = 0}
<1>3. \E i \in 1..Len(m) : m[i] = 0
  BY CommConfAssumption
<1>4. PICK i \in Ends : \A y \in Ends : i <= y
  <2>1. Ends \in SUBSET Nat
    BY <1>2
  <2>2. Ends # {}
    BY <1>3
  <2> QED
    BY <2>1, <2>2, LeastElement
<1>5. \A j \in 1..(i - 1) : m[j] # 0
  BY <1>2, <1>4
<1>6. Size(m) \in 1..Len(m)
  BY <1>4, <1>5 DEF Size
<1>7. PICK z \in 1..Len(m) : z = Size(m)
  BY <1>6
<1>8. /\ IsSeq(SubSeq(m, 1, z)) /\ Len(SubSeq(m, 1, z)) = z
      /\ \A k \in 1..z : SubSeq(m, 1, z)[k] = m[k]
  <2>1. z \in Nat /\ 1 <= z /\ z <= Len(m) /\ 1 \in Nat \ {0}
    BY <1>2, <1>7
  <2>2. /\ IsSeq(SubSeq(m, 1, z)) /\ Len(SubSeq(m, 1, z)) = IF 1 <= z THEN z - 1 + 1 ELSE 0
        /\ \A k \in 1..(z - 1 + 1) : SubSeq(m, 1, z)[k] = m[1 + k - 1]
    BY <1>1, <2>1, SubSeqForm
  <2>3. \A k \in 1..z : k \in 1..(z - 1 + 1) /\ 1 + k - 1 = k
    BY <2>1
  <2> QED
    BY <2>1, <2>2, <2>3
<1> QED
  BY <1>2, <1>6, <1>7, <1>8 DEF Cut

LEMMA HeaderForm ==
  ASSUME NEW b
  PROVE  IsSeq(Header(b)) /\ Len(Header(b)) = 4
  BY Four DEF Header

LEMMA ControlForm ==
  ASSUME conf.width \in {1, 2}, NEW v
  PROVE  /\ IsSeq(Tenfold(v)) /\ Len(Tenfold(v)) = 2
         /\ IsSeq(ControlBytes(v)) /\ Len(ControlBytes(v)) = conf.width
         /\ conf.width = 2 => ControlBytes(v) = Tenfold(v)
<1>1. IsSeq(Tenfold(v)) /\ Len(Tenfold(v)) = 2
  BY Tuples DEF Tenfold
<1>2. PICK t, w : t = Tenfold(v) /\ w = conf.width
  OBVIOUS
<1>3. w \in Nat /\ 1 <= w /\ w <= Len(t) /\ IsSeq(t) /\ 1 \in Nat \ {0}
  BY <1>1, <1>2
<1>4. /\ IsSeq(SubSeq(t, 1, w)) /\ Len(SubSeq(t, 1, w)) = IF 1 <= w THEN w - 1 + 1 ELSE 0
      /\ \A k \in 1..(w - 1 + 1) : SubSeq(t, 1, w)[k] = t[1 + k - 1]
  BY <1>3, SubSeqForm
<1>5. \A k \in 1..w : k \in 1..(w - 1 + 1) /\ 1 + k - 1 = k
  BY <1>3
<1>6. Len(SubSeq(t, 1, w)) = w /\ \A k \in 1..w : SubSeq(t, 1, w)[k] = t[k]
  BY <1>3, <1>4, <1>5
<1>7. w = 2 => SubSeq(t, 1, w) = t
  BY <1>1, <1>2, <1>3, <1>4, <1>6, SeqSame
<1> QED
  BY <1>1, <1>2, <1>3, <1>4, <1>6, <1>7 DEF ControlBytes

LEMMA RestSound ==
  ASSUME NEW call, NEW arg, NEW plan, Sound(call, arg, plan), NEW n \in Nat, n < Len(plan)
  PROVE  Sound(call, arg, Drop(plan, n))
<1>1. Len(plan) \in Nat
  BY SeqForm DEF Sound
<1>2. /\ IsSeq(Drop(plan, n)) /\ Len(Drop(plan, n)) = Len(plan) - n
      /\ \A i \in 1..(Len(plan) - n) : Drop(plan, n)[i] = plan[n + i]
  BY <1>1, DropForm DEF Sound
<1>3. \A i \in 1..Len(Drop(plan, n)) : n + i \in 1..Len(plan) /\ Drop(plan, n)[i] = plan[n + i]
  BY <1>1, <1>2
<1>4. Skips(Drop(plan, n))
  <2> SUFFICES ASSUME NEW i \in 1..Len(Drop(plan, n))
               PROVE  /\ Drop(plan, n)[i].skip \in Nat \cup {All}
                      /\ \A j \in 1..Len(Drop(plan, n)) :
                           i < j /\ j <= i + Drop(plan, n)[i].skip => Gentle(Drop(plan, n)[j])
    BY DEF Skips
  <2>1. n + i \in 1..Len(plan) /\ Drop(plan, n)[i] = plan[n + i]
    BY <1>3
  <2>2. plan[n + i].skip \in Nat \cup {All}
    BY <2>1 DEF Sound, Skips
  <2>3. ASSUME NEW j \in 1..Len(Drop(plan, n)), i < j, j <= i + plan[n + i].skip
        PROVE  Gentle(Drop(plan, n)[j])
    <3>1. n + j \in 1..Len(plan) /\ Drop(plan, n)[j] = plan[n + j]
      BY <1>3
    <3>2. n + i < n + j /\ n + j <= n + i + plan[n + i].skip
      BY <1>1, <1>2, <2>2, <2>3 DEF All
    <3> QED
      BY <2>1, <3>1, <3>2 DEF Sound, Skips
  <2> QED
    BY <2>1, <2>2, <2>3
<1> QED
  BY <1>1, <1>2, <1>3, <1>4 DEF Sound

(* A piece of a plan, out of which no failure leads, and what it lays out. *)
Piece(call, arg, s) ==
  /\ IsSeq(s)
  /\ \A i \in 1..Len(s) :
       /\ Serves(call, arg, s[i])
       /\ s[i].skip \in Nat \cup {All} /\ i + s[i].skip <= Len(s)
       /\ \A j \in 1..Len(s) : i < j /\ j <= i + s[i].skip => Gentle(s[j])
Covered(reg, v, s) == \A p \in 1..Len(v) : \E i \in 1..Len(s) : Covers(s[i], reg, p)
Orderless(s) == \A i \in 1..Len(s) : ~Orders(s[i], "complete")

LEMMA PieceJoin ==
  ASSUME NEW call, NEW arg, NEW s, NEW t, Piece(call, arg, s), Piece(call, arg, t)
  PROVE  /\ Piece(call, arg, s \o t) /\ Len(s \o t) = Len(s) + Len(t)
         /\ \A reg, v : Covered(reg, v, s) \/ Covered(reg, v, t) => Covered(reg, v, s \o t)
         /\ Orderless(s) /\ Orderless(t) => Orderless(s \o t)
<1>1. IsSeq(s) /\ IsSeq(t)
  BY DEF Piece
<1>2. Len(s) \in Nat /\ Len(t) \in Nat
  BY <1>1, SeqForm
<1>3. PICK u : u = s \o t
  OBVIOUS
<1>4. /\ IsSeq(u) /\ Len(u) = Len(s) + Len(t)
      /\ \A i \in 1..Len(s) : u[i] = s[i]
      /\ \A i \in 1..Len(t) : u[Len(s) + i] = t[i]
  BY <1>1, <1>3, ConcatForm
<1>5. \A i \in 1..Len(u) :
        i \in 1..Len(s) \/ \E k \in 1..Len(t) : i = Len(s) + k
  <2> TAKE i \in 1..Len(u)
  <2>1. CASE i > Len(s)
    <3>1. i - Len(s) \in 1..Len(t) /\ i = Len(s) + (i - Len(s))
      BY <1>2, <1>4, <2>1
    <3> QED
      BY <3>1
  <2> QED
    BY <1>2, <1>4, <2>1
<1>6. ASSUME NEW i \in 1..Len(u)
      PROVE  /\ Serves(call, arg, u[i])
             /\ u[i].skip \in Nat \cup {All} /\ i + u[i].skip <= Len(u)
             /\ \A j \in 1..Len(u) : i < j /\ j <= i + u[i].skip => Gentle(u[j])
  <2>1. CASE i \in 1..Len(s)
    <3>1. /\ u[i] = s[i] /\ Serves(call, arg, s[i])
          /\ s[i].skip \in Nat \cup {All} /\ i + s[i].skip <= Len(s)
      BY <1>4, <2>1 DEF Piece
    <3>2. ASSUME NEW j \in 1..Len(u), i < j, j <= i + s[i].skip
          PROVE  Gentle(u[j])
      <4>1. j \in 1..Len(s)
        BY <1>2, <3>1, <3>2 DEF All
      <4> QED
        BY <1>4, <2>1, <3>2, <4>1 DEF Piece
    <3> QED
      BY <1>2, <1>4, <3>1, <3>2 DEF All
  <2>2. ASSUME NEW k \in 1..Len(t), i = Len(s) + k
        PROVE  /\ Serves(call, arg, u[i])
               /\ u[i].skip \in Nat \cup {All} /\ i + u[i].skip <= Len(u)
               /\ \A j \in 1..Len(u) : i < j /\ j <= i + u[i].skip => Gentle(u[j])
    <3>1. /\ u[i] = t[k] /\ Serves(call, arg, t[k])
          /\ t[k].skip \in Nat \cup {All} /\ k + t[k].skip <= Len(t)
      BY <1>4, <2>2 DEF Piece
    <3>2. ASSUME NEW j \in 1..Len(u), i < j, j <= i + t[k].skip
          PROVE  Gentle(u[j])
      <4>1. j - Len(s) \in 1..Len(t) /\ k < j - Len(s) /\ j - Len(s) <= k + t[k].skip
            /\ j = Len(s) + (j - Len(s))
        BY <1>2, <1>4, <2>2, <3>1, <3>2 DEF All
      <4>2. u[j] = t[j - Len(s)]
        BY <1>4, <4>1
      <4> QED
        BY <4>1, <4>2 DEF Piece
    <3> QED
      BY <1>2, <1>4, <2>2, <3>1, <3>2 DEF All
  <2> QED
    BY <1>5, <2>1, <2>2
<1>7. ASSUME NEW reg, NEW v, Covered(reg, v, s) \/ Covered(reg, v, t)
      PROVE  Covered(reg, v, u)
  <2> SUFFICES ASSUME NEW p \in 1..Len(v)
               PROVE  \E i \in 1..Len(u) : Covers(u[i], reg, p)
    BY DEF Covered
  <2>1. CASE Covered(reg, v, s)
    <3>1. PICK i \in 1..Len(s) : Covers(s[i], reg, p)
      BY <2>1 DEF Covered
    <3> QED
      BY <1>2, <1>4, <3>1
  <2>2. CASE Covered(reg, v, t)
    <3>1. PICK i \in 1..Len(t) : Covers(t[i], reg, p)
      BY <2>2 DEF Covered
    <3>2. Len(s) + i \in 1..Len(u) /\ u[Len(s) + i] = t[i]
      BY <1>2, <1>4
    <3> QED
      BY <3>1, <3>2
  <2> QED
    BY <1>7, <2>1, <2>2
<1>8. ASSUME Orderless(s), Orderless(t)
      PROVE  Orderless(u)
  BY <1>4, <1>5, <1>8 DEF Orderless
<1> QED
  BY <1>3, <1>4, <1>6, <1>7, <1>8 DEF Piece

LEMMA PieceSound ==
  ASSUME NEW call, NEW arg, NEW s, Piece(call, arg, s), Len(s) # 0
  PROVE  Sound(call, arg, s)
  BY DEF Piece, Sound, Skips

LEMMA Blocked ==
  ASSUME conf.block \in Nat \ {0}, NEW v, IsSeq(v), Len(v) # 0, NEW reg, NEW call, NEW arg,
         \A op : Lays(op, reg, v) => Serves(call, arg, op)
  PROVE  LET b == Blocks(reg, v)
         IN Piece(call, arg, b) /\ Len(b) # 0 /\ Covered(reg, v, b) /\ (reg # "ctl" => Orderless(b))
<1>1. PICK b : b = Blocks(reg, v)
  OBVIOUS
<1>2. /\ IsSeq(b) /\ Len(b) # 0 /\ \A i \in 1..Len(b) : Lays(b[i], reg, v)
      /\ Covered(reg, v, b)
  BY <1>1, BlocksForm DEF Covered
<1>3. Len(b) \in Nat
  BY <1>2, SeqForm
<1>4. ASSUME NEW i \in 1..Len(b)
      PROVE  /\ Serves(call, arg, b[i])
             /\ b[i].skip \in Nat \cup {All} /\ i + b[i].skip <= Len(b)
             /\ \A j \in 1..Len(b) : i < j /\ j <= i + b[i].skip => Gentle(b[j])
  <2>1. b[i].skip = All /\ Serves(call, arg, b[i])
    BY <1>2 DEF Lays
  <2> QED
    BY <1>3, <2>1 DEF All
<1>5. reg # "ctl" => Orderless(b)
  BY <1>2 DEF Orderless, Orders, Lays
<1> QED
  BY <1>1, <1>2, <1>4, <1>5 DEF Piece

LEMMA PieceTuples ==
  ASSUME NEW call, NEW arg
  PROVE  /\ Piece(call, arg, <<>>)
         /\ \A a : Serves(call, arg, a) /\ a.skip = All => Piece(call, arg, <<a>>)
         /\ \A a, b : Serves(call, arg, a) /\ Serves(call, arg, b) /\ a.skip = All /\ b.skip = All =>
              Piece(call, arg, <<a, b>>)
         /\ \A a, b, c :
              Serves(call, arg, a) /\ Serves(call, arg, b) /\ Serves(call, arg, c)
              /\ a.skip = All /\ b.skip = All /\ c.skip = All => Piece(call, arg, <<a, b, c>>)
<1>1. ASSUME NEW s, IsSeq(s), \A i \in 1..Len(s) : Serves(call, arg, s[i]) /\ s[i].skip = All
      PROVE  Piece(call, arg, s)
  <2>1. Len(s) \in Nat
    BY <1>1, SeqForm
  <2> QED
    BY <1>1, <2>1 DEF Piece, All
<1>2. Piece(call, arg, <<>>)
  <2>1. IsSeq(<<>>) /\ \A i \in 1..Len(<<>>) : FALSE
    BY Tuples
  <2> QED
    BY <1>1, <2>1
<1>3. ASSUME NEW a, Serves(call, arg, a) /\ a.skip = All
      PROVE  Piece(call, arg, <<a>>)
  <2>1. PICK s : s = <<a>>
    OBVIOUS
  <2>2. IsSeq(s) /\ Len(s) = 1 /\ s[1] = a
    BY <2>1, Tuples
  <2>3. \A i \in 1..Len(s) : i = 1
    BY <2>2
  <2>4. \A i \in 1..Len(s) : Serves(call, arg, s[i]) /\ s[i].skip = All
    BY <1>3, <2>2, <2>3
  <2>5. Piece(call, arg, s)
    BY <1>1, <2>2, <2>4
  <2> QED
    BY <2>1, <2>5
<1>4. ASSUME NEW a, NEW b,
             Serves(call, arg, a) /\ Serves(call, arg, b) /\ a.skip = All /\ b.skip = All
      PROVE  Piece(call, arg, <<a, b>>)
  <2>1. PICK s : s = <<a, b>>
    OBVIOUS
  <2>2. IsSeq(s) /\ Len(s) = 2 /\ s[1] = a /\ s[2] = b
    BY <2>1, Tuples
  <2>3. \A i \in 1..Len(s) : i = 1 \/ i = 2
    BY <2>2
  <2>4. \A i \in 1..Len(s) : Serves(call, arg, s[i]) /\ s[i].skip = All
    BY <1>4, <2>2, <2>3
  <2>5. Piece(call, arg, s)
    BY <1>1, <2>2, <2>4
  <2> QED
    BY <2>1, <2>5
<1>5. ASSUME NEW a, NEW b, NEW c,
             /\ Serves(call, arg, a) /\ Serves(call, arg, b) /\ Serves(call, arg, c)
             /\ a.skip = All /\ b.skip = All /\ c.skip = All
      PROVE  Piece(call, arg, <<a, b, c>>)
  <2>1. PICK s : s = <<a, b, c>>
    OBVIOUS
  <2>2. IsSeq(s) /\ Len(s) = 3 /\ s[1] = a /\ s[2] = b /\ s[3] = c
    BY <2>1, Tuples
  <2>3. \A i \in 1..Len(s) : i = 1 \/ i = 2 \/ i = 3
    BY <2>2
  <2>4. \A i \in 1..Len(s) : Serves(call, arg, s[i]) /\ s[i].skip = All
    BY <1>5, <2>2, <2>3
  <2>5. Piece(call, arg, s)
    BY <1>1, <2>2, <2>4
  <2> QED
    BY <2>1, <2>5
<1> QED
  BY <1>2, <1>3, <1>4, <1>5

LEMMA LaidOut ==
  ASSUME NEW r, NEW v, NEW reg, NEW plan, Covered(reg, v, plan)
  PROVE  LaidIn(r, v, reg, plan)
  BY DEF Covered, LaidIn

LEMMA Singles ==
  ASSUME NEW call, NEW arg, NEW op, Serves(call, arg, op), op.skip = All
  PROVE  Sound(call, arg, <<op>>) /\ Len(<<op>>) = 1 /\ <<op>>[1] = op
<1>1. Piece(call, arg, <<op>>) /\ Len(<<op>>) = 1 /\ <<op>>[1] = op
  BY PieceTuples, Tuples
<1> QED
  BY <1>1, PieceSound

LEMMA ShortPlans ==
  ASSUME conf \in CommConf
  PROVE  /\ Sound("ready", 0, <<ReadOp("nb_status", 2, All)>>)
         /\ Sound("version_get", 0, <<ReadOp("version", Len(conf.first), All)>>)
         /\ Sound("ext_get", 0, <<ReadOp("ext", conf.width, All)>>)
         /\ \A b \in {0, 3} : Sound("enable", b, <<WriteOp("enable", 1, <<b>>, All)>>)
         /\ Sound("platform_info", 0, ReadPlatformInfo)
         /\ Sound("flush", 0, FlushMsgBuffer(All))
<1>1. Sound("ready", 0, <<ReadOp("nb_status", 2, All)>>)
  <2>1. PICK op : op = ReadOp("nb_status", 2, All)
    OBVIOUS
  <2>2. Serves("ready", 0, op) /\ op.skip = All
    BY <2>1 DEF Serves, ReadOp
  <2> QED
    BY <2>1, <2>2, Singles
<1>2. Sound("version_get", 0, <<ReadOp("version", Len(conf.first), All)>>)
  <2>1. PICK op : op = ReadOp("version", Len(conf.first), All)
    OBVIOUS
  <2>2. Serves("version_get", 0, op) /\ op.skip = All
    BY <2>1 DEF Serves, ReadOp
  <2> QED
    BY <2>1, <2>2, Singles
<1>3. Sound("ext_get", 0, <<ReadOp("ext", conf.width, All)>>)
  <2>1. PICK op : op = ReadOp("ext", conf.width, All)
    OBVIOUS
  <2>2. Serves("ext_get", 0, op) /\ op.skip = All
    BY <2>1 DEF Serves, ReadOp
  <2> QED
    BY <2>1, <2>2, Singles
<1>4. ASSUME NEW b \in {0, 3}
      PROVE  Sound("enable", b, <<WriteOp("enable", 1, <<b>>, All)>>)
  <2>1. PICK op : op = WriteOp("enable", 1, <<b>>, All)
    OBVIOUS
  <2>2. Serves("enable", b, op) /\ op.skip = All
    BY <2>1 DEF Serves, Gentle, WriteOp
  <2> QED
    BY <2>1, <2>2, Singles
<1>5. Sound("platform_info", 0, ReadPlatformInfo)
  <2>1. PICK a, b, c : a = ReadOp("tag", 1, All) /\ b = ReadOp("fw", 1, All) /\ c = ReadOp("slot", 1, All)
    OBVIOUS
  <2>2. /\ Serves("platform_info", 0, a) /\ Serves("platform_info", 0, b)
        /\ Serves("platform_info", 0, c) /\ a.skip = All /\ b.skip = All /\ c.skip = All
    BY <2>1 DEF Serves, Gentle, ReadOp
  <2>3. Piece("platform_info", 0, <<a, b, c>>) /\ Len(<<a, b, c>>) = 3
    BY <2>2, PieceTuples, Tuples
  <2>4. Sound("platform_info", 0, <<a, b, c>>)
    BY <2>3, PieceSound
  <2> QED
    BY <2>1, <2>4 DEF ReadPlatformInfo
<1>6. Sound("flush", 0, FlushMsgBuffer(All))
  <2>1. PICK a, b : a = ReadOp("ctl", 2, All) /\ b = WriteOp("ctl", 1, <<"flush">>, All)
    OBVIOUS
  <2>2. Serves("flush", 0, a) /\ Serves("flush", 0, b) /\ a.skip = All /\ b.skip = All
    BY <2>1 DEF Serves, Gentle, ReadOp, WriteOp
  <2>3. Piece("flush", 0, <<a, b>>) /\ Len(<<a, b>>) = 2
    BY <2>2, PieceTuples, Tuples
  <2>4. Sound("flush", 0, <<a, b>>)
    BY <2>3, PieceSound
  <2> QED
    BY <2>1, <2>4 DEF FlushMsgBuffer, Command
<1> QED
  BY <1>1, <1>2, <1>3, <1>4, <1>5, <1>6

LEMMA ReadMailboxSound == Sound("msg_read", 0, ReadMailbox)
<1>1. PICK a, b, c : /\ a = ReadOp("header", 4, All) /\ b = ReadOp("ctl", 2, All)
                     /\ c = WriteOp("ctl", 1, <<"verified">>, All)
  OBVIOUS
<1>2. /\ Serves("msg_read", 0, a) /\ Serves("msg_read", 0, b) /\ Serves("msg_read", 0, c)
      /\ a.skip = All /\ b.skip = All /\ c.skip = All
  BY <1>1 DEF Serves, Orders, ReadOp, WriteOp
<1>3. Piece("msg_read", 0, <<a>>) /\ Piece("msg_read", 0, <<b, c>>) /\ Len(<<a>>) = 1 /\ Len(<<b, c>>) = 2
  BY <1>2, PieceTuples, Tuples
<1>4. ReadMailbox = <<a>> \o <<b, c>>
  BY <1>1 DEF ReadMailbox, PackageReadAndVerified, Command
<1>5. PICK s, t : s = <<a>> /\ t = <<b, c>>
  OBVIOUS
<1>6. Piece("msg_read", 0, s \o t) /\ Len(s \o t) = Len(s) + Len(t)
  BY <1>3, <1>5, PieceJoin
<1>7. Len(s \o t) # 0
  BY <1>3, <1>5, <1>6
<1>8. Sound("msg_read", 0, s \o t)
  BY <1>6, <1>7, PieceSound
<1> QED
  BY <1>4, <1>5, <1>8

LEMMA RefreshPiece ==
  ASSUME NEW call, NEW arg, \A op : Gentle(op) => Serves(call, arg, op)
  PROVE  Piece(call, arg, ResetRefresh)
<1>1. PICK a, b, c : /\ a = ReadOp("status", 2, All) /\ b = WriteOp("enable", 1, <<3>>, All)
                     /\ c = WriteOp("status", 1, <<0>>, All)
  OBVIOUS
<1>2. /\ Gentle(a) /\ Gentle(b) /\ Gentle(c)
      /\ a.skip = All /\ b.skip = All /\ c.skip = All
  BY <1>1 DEF Gentle, ReadOp, WriteOp
<1>3. Piece(call, arg, <<a, b, c>>)
  BY <1>2, PieceTuples
<1> QED
  BY <1>1, <1>3 DEF ResetRefresh

LEMMA SetPlans ==
  ASSUME conf \in CommConf, NEW v \in conf.values
  PROVE  /\ Sound("temperature_set", v, WriteSensor06(v))
         /\ Sound("ambient_set", v, WriteSensor07(v))
         /\ Sound("ext_set", v, ExtCtrlSetPlan(v))
         /\ Covered("ext", ControlBytes(v), ExtCtrlSetPlan(v))
<1>1. conf.block \in Nat \ {0} /\ conf.width \in {1, 2}
  BY CommConfigured
<1>2. /\ IsSeq(Tenfold(v)) /\ Len(Tenfold(v)) # 0 /\ IsSeq(ControlBytes(v)) /\ Len(ControlBytes(v)) # 0
  <2>1. /\ IsSeq(Tenfold(v)) /\ Len(Tenfold(v)) = 2
        /\ IsSeq(ControlBytes(v)) /\ Len(ControlBytes(v)) = conf.width
    BY <1>1, ControlForm
  <2> QED
    BY <1>1, <2>1
<1>3. /\ \A op : Gentle(op) => /\ Serves("temperature_set", v, op) /\ Serves("ambient_set", v, op)
                               /\ Serves("ext_set", v, op)
      /\ \A op : Lays(op, "s06", Tenfold(v)) => Serves("temperature_set", v, op)
      /\ \A op : Lays(op, "s07", Tenfold(v)) => Serves("ambient_set", v, op)
      /\ \A op : Lays(op, "ext", ControlBytes(v)) => Serves("ext_set", v, op)
  BY DEF Serves, Gentle, Lays
<1>4. PICK b : b = Blocks("s06", Tenfold(v))
  OBVIOUS
<1>5. PICK c : c = Blocks("s07", Tenfold(v))
  OBVIOUS
<1>6. PICK d : d = Blocks("ext", ControlBytes(v))
  OBVIOUS
<1>7. Piece("temperature_set", v, b) /\ Len(b) # 0
  BY <1>1, <1>2, <1>3, <1>4, Blocked
<1>8. Piece("ambient_set", v, c) /\ Len(c) # 0
  BY <1>1, <1>2, <1>3, <1>5, Blocked
<1>9. Piece("ext_set", v, d) /\ Len(d) # 0 /\ Covered("ext", ControlBytes(v), d)
  BY <1>1, <1>2, <1>3, <1>6, Blocked
<1>10. PICK r : r = ResetRefresh
  OBVIOUS
<1>11. Piece("temperature_set", v, r) /\ Piece("ext_set", v, r)
  BY <1>3, <1>10, RefreshPiece
<1>12. Len(r) \in Nat /\ Len(b) \in Nat /\ Len(d) \in Nat
  BY <1>7, <1>9, <1>11, SeqForm DEF Piece
<1>13. Sound("temperature_set", v, r \o b)
  <2>1. Piece("temperature_set", v, r \o b) /\ Len(r \o b) = Len(r) + Len(b)
    BY <1>7, <1>11, PieceJoin
  <2>2. Len(r \o b) # 0
    BY <1>7, <1>12, <2>1
  <2> QED
    BY <2>1, <2>2, PieceSound
<1>14. Sound("ambient_set", v, c)
  BY <1>8, PieceSound
<1>15. PICK e : e = IF conf.refresh THEN ResetRefresh ELSE <<>>
  OBVIOUS
<1>16. Piece("ext_set", v, e) /\ Len(e) \in Nat
  <2>1. Piece("ext_set", v, e)
    BY <1>10, <1>11, <1>15, PieceTuples
  <2> QED
    BY <2>1, SeqForm DEF Piece
<1>17. Sound("ext_set", v, e \o d) /\ Covered("ext", ControlBytes(v), e \o d)
  <2>1. /\ Piece("ext_set", v, e \o d) /\ Len(e \o d) = Len(e) + Len(d)
        /\ Covered("ext", ControlBytes(v), e \o d)
    <3>1. Piece("ext_set", v, e) /\ Piece("ext_set", v, d) /\ Covered("ext", ControlBytes(v), d)
      BY <1>9, <1>16
    <3>2. Piece("ext_set", v, e \o d) /\ Len(e \o d) = Len(e) + Len(d)
      BY <3>1, PieceJoin
    <3>3. Covered("ext", ControlBytes(v), e \o d)
      BY <3>1, PieceJoin
    <3> QED
      BY <3>2, <3>3
  <2>2. Len(e \o d) # 0
    BY <1>9, <1>12, <1>16, <2>1
  <2> QED
    BY <2>1, <2>2, PieceSound
<1> QED
  BY <1>4, <1>5, <1>6, <1>10, <1>13, <1>14, <1>15, <1>17
     DEF WriteSensor06, WriteSensor07, ExtCtrlSetPlan, ControlBytes

LEMMA VersionPlan ==
  ASSUME conf \in CommConf, NEW v \in conf.versions
  PROVE  Sound("version_set", v, Blocks("version", v)) /\ Covered("version", v, Blocks("version", v))
<1>1. conf.block \in Nat \ {0} /\ IsSeq(v) /\ Len(v) # 0
  BY CommConfigured
<1>2. \A op : Lays(op, "version", v) => Serves("version_set", v, op)
  BY DEF Serves
<1>3. PICK b : b = Blocks("version", v)
  OBVIOUS
<1>4. Piece("version_set", v, b) /\ Len(b) # 0 /\ Covered("version", v, b)
  BY <1>1, <1>2, <1>3, Blocked
<1> QED
  BY <1>3, <1>4, PieceSound

LEMMA FlushPiece ==
  ASSUME NEW m
  PROVE  LET f == StatusCheckAndClear
         IN Piece("msg_write", m, f) /\ Orderless(f)
<1>1. PICK a, b, c, d : /\ a = ReadOp("status", 2, 3) /\ b = WriteOp("status", 1, <<0>>, 0)
                        /\ c = ReadOp("ctl", 2, 1) /\ d = WriteOp("ctl", 1, <<"flush">>, 0)
  OBVIOUS
<1>2. StatusCheckAndClear = <<a, b>> \o <<c, d>>
  BY <1>1 DEF StatusCheckAndClear, FlushMsgBuffer, Command, All
<1>3. PICK s, t : s = <<a, b>> /\ t = <<c, d>>
  OBVIOUS
<1>4. IsSeq(s) /\ Len(s) = 2 /\ s[1] = a /\ s[2] = b /\ IsSeq(t) /\ Len(t) = 2 /\ t[1] = c /\ t[2] = d
  BY <1>3, Tuples
<1>5. PICK f : f = s \o t
  OBVIOUS
<1>6. /\ IsSeq(f) /\ Len(f) = 4
      /\ \A i \in 1..Len(s) : f[i] = s[i]
      /\ \A i \in 1..Len(t) : f[Len(s) + i] = t[i]
  <2>1. /\ IsSeq(s \o t) /\ Len(s \o t) = Len(s) + Len(t)
        /\ \A i \in 1..Len(s) : (s \o t)[i] = s[i]
        /\ \A i \in 1..Len(t) : (s \o t)[Len(s) + i] = t[i]
    <3>1. IsSeq(s) /\ IsSeq(t)
      BY <1>4
    <3> QED
      BY <3>1, ConcatForm
  <2>2. Len(s) + Len(t) = 4
    BY <1>4
  <2> QED
    BY <1>5, <2>1, <2>2
<1>7. f[1] = a /\ f[2] = b /\ f[3] = c /\ f[4] = d
  <2>1. 1 \in 1..Len(s) /\ 2 \in 1..Len(s) /\ 1 \in 1..Len(t) /\ 2 \in 1..Len(t)
        /\ Len(s) + 1 = 3 /\ Len(s) + 2 = 4
    BY <1>4
  <2> QED
    BY <1>4, <1>6, <2>1
<1>8. /\ Gentle(a) /\ Gentle(b) /\ Gentle(c) /\ Gentle(d)
      /\ a.skip = 3 /\ b.skip = 0 /\ c.skip = 1 /\ d.skip = 0
  BY <1>1 DEF Gentle, ReadOp, WriteOp
<1>9. \A op : Gentle(op) => Serves("msg_write", m, op) /\ ~Orders(op, "complete")
  <2>1. "flush" # "complete"
    OBVIOUS
  <2> QED
    BY <2>1 DEF Serves, Gentle, Orders
<1>10. \A i \in 1..Len(f) : i = 1 \/ i = 2 \/ i = 3 \/ i = 4
  BY <1>6
<1>11. \A i \in 1..Len(f) : Gentle(f[i]) /\ f[i].skip \in Nat /\ i + f[i].skip <= Len(f)
  BY <1>6, <1>7, <1>8, <1>10
<1>12. Piece("msg_write", m, f) /\ Orderless(f)
  BY <1>6, <1>9, <1>11 DEF Piece, Orderless
<1> QED
  BY <1>2, <1>3, <1>5, <1>12

LEMMA WholeLaid ==
  ASSUME NEW reg, NEW v, IsSeq(v), NEW op, op = WriteOp(reg, 1, v, All)
  PROVE  Lays(op, reg, v) /\ \A p \in 1..Len(v) : Covers(op, reg, p)
<1>1. PICK n \in Nat : n = Len(v)
  BY SeqForm
<1>2. 1 + n - 1 = n /\ \A i \in 1..n : 1 + i - 1 = i
  OBVIOUS
<1>3. op.do = "write" /\ op.reg = reg /\ op.skip = All /\ op.n = 1 /\ op.bytes = v
  BY DEF WriteOp
<1>4. 1 \in Nat \ {0} /\ n <= n
  OBVIOUS
<1>5. op.n + Len(op.bytes) - 1 = n
  BY <1>1, <1>2, <1>3, Zenon
<1>6. op.n \in Nat \ {0} /\ op.n + Len(op.bytes) - 1 <= Len(v) /\ IsSeq(op.bytes)
  BY <1>1, <1>3, <1>4, <1>5, Zenon
<1>7. \A i \in 1..Len(op.bytes) : op.bytes[i] = v[op.n + i - 1]
  BY <1>1, <1>2, <1>3, Zenon
<1>8. \A p \in 1..Len(v) : p \in op.n..(op.n + Len(op.bytes) - 1)
  BY <1>1, <1>3, <1>5, Zenon
<1> QED
  BY <1>3, <1>6, <1>7, <1>8, Zenon DEF Lays, Covers

LEMMA WriteMailboxSound ==
  ASSUME conf \in CommConf, NEW m \in conf.written
  PROVE  LET w == WriteMailbox(m)
         IN /\ Sound("msg_write", m, w)
            /\ Covered("nb", m, w) /\ Covered("nb_header", Header(Cut(m)), w)
            /\ \A i \in 1..Len(w) : Orders(w[i], "complete") => i = Len(w)
<1>1. /\ conf.block \in Nat \ {0} /\ IsSeq(m) /\ Len(m) # 0
      /\ IsSeq(Header(Cut(m))) /\ Len(Header(Cut(m))) = 4
  BY CommConfigured, CutForm, HeaderForm
<1>2. PICK f : f = StatusCheckAndClear
  OBVIOUS
<1>3. Piece("msg_write", m, f) /\ Orderless(f)
  BY <1>2, FlushPiece
<1>4. PICK h, o : h = <<o>> /\ o = WriteOp("nb_header", 1, Header(Cut(m)), All)
  OBVIOUS
<1>5. Piece("msg_write", m, h) /\ Orderless(h) /\ Covered("nb_header", Header(Cut(m)), h)
  <2>1. /\ Lays(o, "nb_header", Header(Cut(m)))
        /\ \A p \in 1..4 : Covers(o, "nb_header", p)
    <3>1. PICK z : z = Header(Cut(m))
      OBVIOUS
    <3>2. IsSeq(z) /\ Len(z) = 4
      BY <1>1, <3>1
    <3>3. o = WriteOp("nb_header", 1, z, All)
      BY <1>4, <3>1
    <3>4. Lays(o, "nb_header", z) /\ \A p \in 1..4 : Covers(o, "nb_header", p)
      BY <3>2, <3>3, WholeLaid
    <3> QED
      BY <3>1, <3>4
  <2>2. Serves("msg_write", m, o) /\ o.skip = All
    BY <2>1 DEF Serves, Lays
  <2>3. Piece("msg_write", m, h) /\ Len(h) = 1 /\ h[1] = o
    BY <1>4, <2>2, PieceTuples, Tuples
  <2>4. ~Orders(o, "complete")
    BY <2>1 DEF Orders, Lays
  <2>5. \A i \in 1..Len(h) : i = 1
    BY <2>3
  <2>6. 1 \in 1..Len(h)
    BY <2>3
  <2> QED
    BY <1>1, <2>1, <2>3, <2>4, <2>5, <2>6 DEF Orderless, Covered
<1>6. PICK b : b = Blocks("nb", m)
  OBVIOUS
<1>7. Piece("msg_write", m, b) /\ Covered("nb", m, b) /\ Orderless(b)
  <2>1. \A op : Lays(op, "nb", m) => Serves("msg_write", m, op)
    BY DEF Serves
  <2> QED
    BY <1>1, <1>6, <2>1, Blocked
<1>8. PICK c, d, q : /\ c = ReadOp("ctl", 2, All) /\ d = WriteOp("ctl", 1, <<"complete">>, All)
                     /\ q = <<c, d>>
  OBVIOUS
<1>9. /\ Piece("msg_write", m, q) /\ Len(q) = 2 /\ q[1] = c /\ q[2] = d
      /\ ~Orders(c, "complete")
  <2>1. Serves("msg_write", m, c) /\ Serves("msg_write", m, d) /\ c.skip = All /\ d.skip = All
    BY <1>8 DEF Serves, Gentle, Orders, ReadOp, WriteOp
  <2>2. ~Orders(c, "complete")
    BY <1>8 DEF Orders, ReadOp
  <2> QED
    BY <1>8, <2>1, <2>2, PieceTuples, Tuples
<1>10. WriteMailbox(m) = ((f \o h) \o b) \o q
  BY <1>2, <1>4, <1>6, <1>8
     DEF WriteMailbox, PackageDownloadComplete, Command, Cut
<1>11. PICK x : x = f \o h
  OBVIOUS
<1>12. Piece("msg_write", m, x) /\ Orderless(x) /\ Covered("nb_header", Header(Cut(m)), x)
  BY <1>3, <1>5, <1>11, PieceJoin
<1>13. PICK y : y = x \o b
  OBVIOUS
<1>14. /\ Piece("msg_write", m, y) /\ Orderless(y) /\ Covered("nb", m, y)
       /\ Covered("nb_header", Header(Cut(m)), y)
  BY <1>7, <1>12, <1>13, PieceJoin
<1>15. PICK w : w = y \o q
  OBVIOUS
<1>16. /\ Piece("msg_write", m, w) /\ Covered("nb", m, w) /\ Len(w) = Len(y) + Len(q)
       /\ Covered("nb_header", Header(Cut(m)), w)
  <2>1. /\ Piece("msg_write", m, y) /\ Piece("msg_write", m, q)
        /\ Covered("nb", m, y) /\ Covered("nb_header", Header(Cut(m)), y)
    BY <1>9, <1>14
  <2>2. Piece("msg_write", m, y \o q) /\ Len(y \o q) = Len(y) + Len(q)
    BY <2>1, PieceJoin
  <2>3. Covered("nb", m, y \o q)
    BY <2>1, PieceJoin
  <2>4. Covered("nb_header", Header(Cut(m)), y \o q)
    BY <2>1, PieceJoin
  <2> QED
    BY <1>15, <2>2, <2>3, <2>4
<1>17. Len(y) \in Nat /\ Len(w) # 0
  <2>1. Len(y) \in Nat
    BY <1>14, SeqForm DEF Piece
  <2> QED
    BY <1>9, <1>16, <2>1
<1>18. ASSUME NEW i \in 1..Len(w), Orders(w[i], "complete")
       PROVE  i = Len(w)
  <2>1. \/ i \in 1..Len(y) /\ w[i] = y[i]
        \/ \E j \in 1..Len(q) : i = Len(y) + j /\ w[i] = q[j]
    <3>1. IsSeq(y) /\ IsSeq(q)
      BY <1>9, <1>14 DEF Piece
    <3>2. i \in 1..Len(y \o q)
      BY <1>15
    <3>3. \/ i \in 1..Len(y) /\ (y \o q)[i] = y[i]
          \/ \E j \in 1..Len(q) : i = Len(y) + j /\ (y \o q)[i] = q[j]
      BY <3>1, <3>2, ConcatParts
    <3> QED
      BY <1>15, <3>3
  <2>2. ~(i \in 1..Len(y) /\ w[i] = y[i])
    BY <1>14, <1>18 DEF Orderless
  <2>3. PICK j \in 1..Len(q) : i = Len(y) + j /\ w[i] = q[j]
    BY <2>1, <2>2
  <2>4. j = 1 \/ j = 2
    BY <1>9
  <2>5. j # 1
    BY <1>9, <1>18, <2>3
  <2> QED
    BY <1>9, <1>16, <1>17, <2>3, <2>4, <2>5
<1>19. Sound("msg_write", m, w)
  BY <1>16, <1>17, PieceSound
<1> QED
  BY <1>10, <1>11, <1>13, <1>15, <1>16, <1>18, <1>19

--------------------------------------------------------------------------------
(* Before the first call, and when one starts. *)

LEMMA HostStarts == Init => HostInv
<1> SUFFICES ASSUME Init, Is("comm") PROVE HostGood
  BY DEF HostInv
<1>1. CommInit
  BY Starts
<1>2. conf \in CommConf
  BY <1>1 DEF CommInit
<1>3. /\ chip.full = FALSE /\ chip.mem.version = conf.first /\ chip.mem.ext = <<0, 0>>
      /\ drv = AtRest /\ out = NoCall
      /\ seen = [asked |-> {}, taken |-> None, version |-> conf.first, ext |-> 0]
  BY <1>1 DEF CommInit
<1>4. CommChip(chip)
  <2>1. PICK h : h = [i \in 1..4 |-> Erased]
    OBVIOUS
  <2>2. PICK r : r = [i \in 1..conf.room |-> Erased]
    OBVIOUS
  <2>3. conf.room \in Nat /\ IsSeq(conf.first)
    BY <1>2, CommConfigured
  <2>4. IsSeq(h) /\ Len(h) = 4
    BY <2>1, WipedForm
  <2>5. IsSeq(r) /\ Len(r) = conf.room
    BY <2>2, <2>3, WipedForm
  <2>6. chip = [reg |-> "none", at |-> 1, on |-> FALSE, alarm |-> TRUE,
                present |-> FALSE, full |-> FALSE, lost |-> FALSE,
                mem |-> [header |-> h, sb |-> r, nb_header |-> h, nb |-> r,
                         version |-> conf.first, ext |-> <<0, 0>>,
                         tag |-> <<7>>, fw |-> <<8>>, slot |-> <<9>>]]
    BY <1>1, <2>1, <2>2 DEF CommInit
  <2>7. IsSeq(<<0, 0>>) /\ Len(<<0, 0>>) = 2
    BY Tuples
  <2> QED
    BY <2>3, <2>4, <2>5, <2>6, <2>7 DEF CommChip, Drawers
<1>5. CommForm
  BY <1>2, <1>3, <1>4 DEF CommForm, CommDrv, AtRest
<1>6. Tenfold(0) = <<0, 0>>
  BY DEF Tenfold
<1>7. Plans /\ Reads /\ Free /\ Loads /\ Sets
  BY <1>3, <1>6 DEF Plans, Reads, Asking, Free, Loads, Sets, AtRest
<1>8. Filled /\ SetsStand
  BY <1>3 DEF Filled, SetsStand, None, NoCall
<1> QED
  BY <1>5, <1>7, <1>8 DEF HostGood

(* What a call starts with. *)
Starting(call, plan, arg) ==
  /\ Sound(call, arg, plan) /\ call # "idle"
  /\ call \in {"ready", "version_get", "ext_get"} => plan = <<ReadOf(call)>>
  /\ call = "version_set" => arg \in conf.versions /\ Covered("version", arg, plan)
  /\ call = "ext_set" => arg \in Nat /\ Covered("ext", ControlBytes(arg), plan)
  /\ call = "msg_write" =>
       /\ "ready" \in seen.asked /\ "ready" \notin seen'.asked /\ arg \in conf.written
       /\ Covered("nb", arg, plan) /\ Covered("nb_header", Header(Cut(arg)), plan)
       /\ \A i \in 1..Len(plan) : Orders(plan[i], "complete") => i = Len(plan)

LEMMA CallStarts ==
  ASSUME HostGood, NEW call, NEW plan, NEW arg, StartCall(call, plan, arg), Starting(call, plan, arg),
         \/ seen' = seen
         \/ \E about : seen' = [seen EXCEPT !.asked = @ \ {about}]
  PROVE  HostGood'
<1>1. CommForm /\ Plans /\ Reads /\ Sets /\ Free /\ Loads /\ Filled /\ SetsStand
  BY DEF HostGood
<1>2. /\ conf' = conf /\ chip' = chip /\ out' = out /\ drv.call = "idle" /\ out.call = "none"
      /\ drv' = [AtRest EXCEPT !.call = call, !.plan = plan, !.arg = arg, !.spare = conf.spare]
  BY DEF StartCall, OnComm
<1>3. /\ CommDrv(drv') /\ drv'.call = call /\ drv'.plan = plan /\ drv'.arg = arg /\ drv'.k = 0
  BY <1>2 DEF CommDrv, AtRest
<1>4. /\ DOMAIN seen' = {"asked", "taken", "version", "ext"}
      /\ seen'.asked \subseteq seen.asked /\ seen'.taken = seen.taken
      /\ seen'.version = seen.version /\ seen'.ext = seen.ext
  BY <1>1 DEF CommForm
<1>5. CommForm'
  BY <1>1, <1>2, <1>3, <1>4 DEF CommForm, CommChip, CommDrv
<1>6. Plans'
  BY <1>2, <1>3 DEF Plans, Starting, Sound, Serves, ControlBytes
<1>7. Reads'
  <2> SUFFICES ASSUME Asking'
               PROVE  /\ plan = <<ReadOf(call)'>> /\ 0 \in 0..ReadOf(call)'.n
    BY <1>3 DEF Reads
  <2>1. call \in {"ready", "version_get", "ext_get"}
    BY <1>3 DEF Asking
  <2>2. ReadOf(call)' = ReadOf(call)
    BY <1>2 DEF ReadOf
  <2>3. ReadOf(call).n \in Nat
    <3>1. Len(conf.first) \in Nat /\ conf.width \in Nat
      BY <1>1, CommConfigured DEF CommForm
    <3> QED
      BY <2>1, <3>1 DEF ReadOf, ReadOp
  <2> QED
    BY <2>1, <2>2, <2>3 DEF Starting
<1>8. Sets'
  <2>1. ControlBytes(arg)' = ControlBytes(arg)
    BY <1>2 DEF ControlBytes
  <2> QED
    BY <1>1, <1>2, <1>3, <1>4, <2>1, LaidOut DEF Sets, Starting
<1>9. Free'
  BY <1>1, <1>2, <1>3, <1>4 DEF Free, Starting
<1>10. Loads'
  BY <1>1, <1>2, <1>3, LaidOut DEF Loads, Starting, Free
<1>11. Filled' /\ SetsStand'
  BY <1>1, <1>2, <1>4 DEF Filled, SetsStand, Is
<1> QED
  BY <1>5, <1>6, <1>7, <1>8, <1>9, <1>10, <1>11 DEF HostGood

LEMMA HostStartsCalls ==
  ASSUME HostGood,
         \/ MsgRead \/ MsgWrite \/ PlatformInfoGet \/ HostSwVersionGet \/ HostSwVersionSet
         \/ HostTemperatureSet \/ HostAmbientTemperatureSet \/ MessagingEnable
         \/ FlushMsgBufferCall \/ IsWriteBufferReady \/ ExtCtrlGet \/ ExtCtrlSet
  PROVE  HostGood'
<1> USE DEF Calls
<1>1. conf \in CommConf /\ DOMAIN seen = {"asked", "taken", "version", "ext"}
  BY DEF HostGood, CommForm
<1>2. CASE MsgRead
  <2>1. Starting("msg_read", ReadMailbox, 0)
    BY ReadMailboxSound DEF Starting
  <2> QED
    BY <1>2, <2>1, CallStarts DEF MsgRead, Asked
<1>3. CASE MsgWrite
  <2>1. PICK m \in conf.written : Asked("ready", "msg_write", WriteMailbox(m), m)
    BY <1>3 DEF MsgWrite
  <2>2. /\ StartCall("msg_write", WriteMailbox(m), m) /\ "ready" \in seen.asked
        /\ seen' = [seen EXCEPT !.asked = @ \ {"ready"}]
    BY <2>1 DEF Asked
  <2>3. "ready" \notin seen'.asked
    BY <1>1, <2>2
  <2>4. PICK w : w = WriteMailbox(m)
    OBVIOUS
  <2>5. /\ Sound("msg_write", m, w) /\ Covered("nb", m, w) /\ Covered("nb_header", Header(Cut(m)), w)
        /\ \A i \in 1..Len(w) : Orders(w[i], "complete") => i = Len(w)
    BY <1>1, <2>4, WriteMailboxSound
  <2>6. Starting("msg_write", w, m)
    BY <2>2, <2>3, <2>5 DEF Starting
  <2> QED
    BY <2>2, <2>4, <2>6, CallStarts
<1>4. CASE PlatformInfoGet
  <2>1. Starting("platform_info", ReadPlatformInfo, 0)
    BY <1>1, ShortPlans DEF Starting
  <2> QED
    BY <1>4, <2>1, CallStarts DEF PlatformInfoGet
<1>5. CASE HostSwVersionGet
  <2>1. Starting("version_get", <<ReadOp("version", Len(conf.first), All)>>, 0)
    BY <1>1, ShortPlans DEF Starting, ReadOf
  <2> QED
    BY <1>5, <2>1, CallStarts DEF HostSwVersionGet
<1>6. CASE HostSwVersionSet
  <2>1. PICK v \in conf.versions : Calls("version_set", Blocks("version", v), v)
    BY <1>6 DEF HostSwVersionSet
  <2>2. Starting("version_set", Blocks("version", v), v)
    BY <1>1, VersionPlan DEF Starting
  <2> QED
    BY <2>1, <2>2, CallStarts
<1>7. CASE HostTemperatureSet
  <2>1. PICK v \in conf.values : Calls("temperature_set", WriteSensor06(v), v)
    BY <1>7 DEF HostTemperatureSet
  <2>2. Starting("temperature_set", WriteSensor06(v), v)
    BY <1>1, SetPlans DEF Starting
  <2> QED
    BY <2>1, <2>2, CallStarts
<1>8. CASE HostAmbientTemperatureSet
  <2>1. PICK v \in conf.values : Calls("ambient_set", WriteSensor07(v), v)
    BY <1>8 DEF HostAmbientTemperatureSet
  <2>2. Starting("ambient_set", WriteSensor07(v), v)
    BY <1>1, SetPlans DEF Starting
  <2> QED
    BY <2>1, <2>2, CallStarts
<1>9. CASE MessagingEnable
  <2>1. PICK b \in {0, 3} : Calls("enable", <<WriteOp("enable", 1, <<b>>, All)>>, b)
    BY <1>9 DEF MessagingEnable
  <2>2. Starting("enable", <<WriteOp("enable", 1, <<b>>, All)>>, b)
    BY <1>1, ShortPlans DEF Starting
  <2> QED
    BY <2>1, <2>2, CallStarts
<1>10. CASE FlushMsgBufferCall
  <2>1. Starting("flush", FlushMsgBuffer(All), 0)
    BY <1>1, ShortPlans DEF Starting
  <2> QED
    BY <1>10, <2>1, CallStarts DEF FlushMsgBufferCall
<1>11. CASE IsWriteBufferReady
  <2>1. Starting("ready", <<ReadOp("nb_status", 2, All)>>, 0)
    BY <1>1, ShortPlans DEF Starting, ReadOf
  <2> QED
    BY <1>11, <2>1, CallStarts DEF IsWriteBufferReady
<1>12. CASE ExtCtrlGet
  <2>1. Starting("ext_get", <<ReadOp("ext", conf.width, All)>>, 0)
    BY <1>1, ShortPlans DEF Starting, ReadOf
  <2> QED
    BY <1>12, <2>1, CallStarts DEF ExtCtrlGet
<1>13. CASE ExtCtrlSet
  <2>1. PICK v \in conf.values : Calls("ext_set", ExtCtrlSetPlan(v), v)
    BY <1>13 DEF ExtCtrlSet
  <2>2. v \in Nat
    BY <1>1, CommConfigured
  <2>3. Starting("ext_set", ExtCtrlSetPlan(v), v)
    BY <1>1, <2>2, SetPlans DEF Starting
  <2> QED
    BY <2>1, <2>3, CallStarts
<1> QED
  BY <1>2, <1>3, <1>4, <1>5, <1>6, <1>7, <1>8, <1>9, <1>10, <1>11, <1>12, <1>13

--------------------------------------------------------------------------------
(* A transfer. *)

Untouched ==
  /\ DOMAIN chip' = DOMAIN chip /\ chip'.mem = chip.mem /\ chip'.on = chip.on
  /\ chip'.present = chip.present /\ chip'.full = chip.full /\ chip'.lost = chip.lost
CallOf(h) ==
  CommDrv(h) /\ h.call = drv.call /\ h.plan = drv.plan /\ h.got = drv.got /\ h.arg = drv.arg

LEMMA OffsetStep ==
  ASSUME CommChip(chip), CommDrv(drv), WriteOffset
  PROVE  /\ conf' = conf /\ drv.call # "idle" /\ drv.plan[1].do = "read" /\ drv.k = 0 /\ Untouched
         /\ \/ /\ drv.plan[1].n # 0 /\ CallOf(drv') /\ drv'.k = 1 /\ drv'.buf = <<>>
               /\ chip'.reg = drv.plan[1].reg /\ chip'.at = 1 /\ out' = out /\ seen' = seen
            \/ \E h : CallOf(h) /\ AfterOp(h) /\ (h.ok => drv.plan[1].n = 0 /\ h.buf = <<>>)
<1>1. /\ conf' = conf /\ drv.call # "idle" /\ drv.plan[1].do = "read" /\ drv.k = 0
      /\ \/ /\ chip' = [chip EXCEPT !.reg = drv.plan[1].reg, !.at = 1]
            /\ LET h == [drv EXCEPT !.k = 1, !.buf = <<>>, !.ok = TRUE]
               IN IF drv.plan[1].n = 0 THEN AfterOp(h) ELSE drv' = h /\ out' = out /\ seen' = seen
         \/ /\ chip' = chip
            /\ AfterOp([drv EXCEPT !.ok = FALSE, !.spare = @ - 1, !.buf = <<>>])
  BY DEF WriteOffset, Busy
<1>2. CASE /\ chip' = [chip EXCEPT !.reg = drv.plan[1].reg, !.at = 1]
           /\ LET h == [drv EXCEPT !.k = 1, !.buf = <<>>, !.ok = TRUE]
              IN IF drv.plan[1].n = 0 THEN AfterOp(h) ELSE drv' = h /\ out' = out /\ seen' = seen
  <2>1. Untouched /\ chip'.reg = drv.plan[1].reg /\ chip'.at = 1
    BY <1>2 DEF Untouched, CommChip
  <2> DEFINE h == [drv EXCEPT !.k = 1, !.buf = <<>>, !.ok = TRUE]
  <2>2. CallOf(h) /\ h.k = 1 /\ h.buf = <<>>
    BY DEF CallOf, CommDrv
  <2>3. IF drv.plan[1].n = 0 THEN AfterOp(h) ELSE drv' = h /\ out' = out /\ seen' = seen
    BY <1>2
  <2> HIDE DEF h
  <2> QED
    BY <1>1, <2>1, <2>2, <2>3
<1>3. CASE /\ chip' = chip
           /\ AfterOp([drv EXCEPT !.ok = FALSE, !.spare = @ - 1, !.buf = <<>>])
  <2> DEFINE h == [drv EXCEPT !.ok = FALSE, !.spare = @ - 1, !.buf = <<>>]
  <2>1. CallOf(h) /\ ~h.ok
    BY DEF CallOf, CommDrv
  <2>2. AfterOp(h)
    BY <1>3
  <2>3. Untouched
    BY <1>3 DEF Untouched
  <2> HIDE DEF h
  <2> QED
    BY <1>1, <2>1, <2>2, <2>3
<1> QED
  BY <1>1, <1>2, <1>3

LEMMA ByteStep ==
  ASSUME CommChip(chip), CommDrv(drv), ~conf.hidden, RecvByte
  PROVE  /\ conf' = conf /\ drv.call # "idle" /\ drv.plan[1].do = "read" /\ drv.k # 0 /\ Untouched
         /\ \/ /\ drv.k # drv.plan[1].n /\ CallOf(drv') /\ drv'.k = drv.k + 1
               /\ drv'.buf = Append(drv.buf, Answer)
               /\ chip'.reg = chip.reg /\ chip'.at = chip.at + 1 /\ out' = out /\ seen' = seen
            \/ /\ drv.k = drv.plan[1].n
               /\ \E h : CallOf(h) /\ AfterOp(h) /\ (h.ok => h.buf = Append(drv.buf, Answer))
<1> DEFINE good == [drv EXCEPT !.k = @ + 1, !.buf = Append(@, Answer), !.ok = TRUE]
           bad == [drv EXCEPT !.k = @ + 1, !.buf = Append(@, 0), !.ok = FALSE, !.spare = @ - 1]
<1>1. /\ conf' = conf /\ drv.call # "idle" /\ drv.plan[1].do = "read" /\ drv.k # 0
      /\ \/ /\ chip' = [chip EXCEPT !.at = @ + 1]
            /\ IF drv.k = drv.plan[1].n THEN AfterOp(good)
               ELSE drv' = good /\ out' = out /\ seen' = seen
         \/ /\ chip' = chip
            /\ drv.k = drv.plan[1].n /\ AfterOp(bad)
  BY DEF RecvByte, Busy, MayFail
<1>2. CallOf(good) /\ good.k = drv.k + 1 /\ good.buf = Append(drv.buf, Answer)
  BY DEF CallOf, CommDrv
<1>3. CallOf(bad) /\ ~bad.ok
  BY DEF CallOf, CommDrv
<1>4. chip' = [chip EXCEPT !.at = @ + 1] => Untouched /\ chip'.reg = chip.reg /\ chip'.at = chip.at + 1
  BY DEF Untouched, CommChip
<1>5. chip' = chip => Untouched
  BY DEF Untouched
<1> HIDE DEF good, bad
<1> QED
  BY <1>1, <1>2, <1>3, <1>4, <1>5

LEMMA BlockStep ==
  ASSUME CommDrv(drv), WriteBlock
  PROVE  /\ conf' = conf /\ drv.call # "idle" /\ drv.plan[1].do = "write"
         /\ \/ chip' = chip /\ \E h : CallOf(h) /\ AfterOp(h) /\ ~h.ok
            \/ chip' = AfterBlock(drv.plan[1]) /\ \E h : CallOf(h) /\ AfterOp(h) /\ h.ok
<1> DEFINE good == [drv EXCEPT !.ok = TRUE]
           bad == [drv EXCEPT !.ok = FALSE, !.spare = @ - 1]
<1>1. /\ conf' = conf /\ drv.call # "idle" /\ drv.plan[1].do = "write"
      /\ \/ chip' = AfterBlock(drv.plan[1]) /\ AfterOp(good)
         \/ chip' = chip /\ AfterOp(bad)
  BY DEF WriteBlock, Busy
<1>2. CallOf(good) /\ good.ok /\ CallOf(bad) /\ ~bad.ok
  BY DEF CallOf, CommDrv
<1> HIDE DEF good, bad
<1> QED
  BY <1>1, <1>2

(* What the registers are after an operation of a call. *)
Lain(reg, r, s, v) ==
  \A p \in 1..Len(v) : IF Covers(drv.plan[1], reg, p) THEN s[p] = v[p] ELSE s[p] = r[p]
Advanced(h) ==
  /\ CommChip(chip')
  /\ drv.call # "version_set" => chip'.mem.version = chip.mem.version
  /\ drv.call # "ext_set" => chip'.mem.ext = chip.mem.ext
  /\ drv.call # "msg_write" =>
       chip'.mem.nb = chip.mem.nb /\ chip'.mem.nb_header = chip.mem.nb_header
  /\ chip'.full => \/ chip.full
                   \/ drv.call = "msg_write" /\ h.ok /\ Orders(drv.plan[1], "complete")
  /\ h.ok \/ drv.plan[1].skip # All =>
       /\ drv.call = "version_set" => Lain("version", chip.mem.version, chip'.mem.version, drv.arg)
       /\ drv.call = "ext_set" =>
            Lain("ext", chip.mem.ext, chip'.mem.ext, ControlBytes(drv.arg))
       /\ drv.call = "msg_write" =>
            /\ Lain("nb", chip.mem.nb, chip'.mem.nb, drv.arg)
            /\ Lain("nb_header", chip.mem.nb_header, chip'.mem.nb_header, Header(Cut(drv.arg)))

Laidable == {"nb", "nb_header", "version", "ext"}
LEMMA NotCovering ==
  ASSUME NEW op, op.do = "read" \/ Gentle(op) \/ op.reg = "enable" \/ \E bit : Orders(op, bit)
  PROVE  \A reg \in Laidable : \A p : ~Covers(op, reg, p)
  BY DEF Laidable, Gentle, Orders, Covers

LEMMA Unwritten ==
  ASSUME HostGood, drv.call # "idle", conf' = conf, Untouched, NEW h,
         ~h.ok \/ drv.plan[1].do = "read"
  PROVE  Advanced(h)
<1>1. CommForm /\ Sound(drv.call, drv.arg, drv.plan)
  BY DEF HostGood, Plans
<1>2. CommChip(chip')
  BY <1>1 DEF CommForm, CommChip, Untouched
<1>3. ASSUME h.ok \/ drv.plan[1].skip # All
      PROVE  \A reg \in Laidable : \A p : ~Covers(drv.plan[1], reg, p)
  <2>1. 1 \in 1..Len(drv.plan)
    BY <1>1, SeqForm DEF Sound
  <2>2. Serves(drv.call, drv.arg, drv.plan[1])
    BY <1>1, <2>1 DEF Sound
  <2>3. drv.plan[1].do = "read" \/ Gentle(drv.plan[1])
    BY <1>3, <2>2 DEF Serves, Lays, Orders
  <2> QED
    BY <2>3, NotCovering
<1>4. \A reg \in Laidable : \A r, v : h.ok \/ drv.plan[1].skip # All => Lain(reg, r, r, v)
  BY <1>3 DEF Lain
<1> QED
  BY <1>2, <1>4 DEF Advanced, Untouched, Laidable

LEMMA BlockDone ==
  ASSUME HostGood, drv.call # "idle", conf' = conf, drv.plan[1].do = "write",
         chip' = AfterBlock(drv.plan[1]), NEW h, h.ok
  PROVE  /\ Advanced(h)
         /\ chip'.mem.header = chip.mem.header /\ chip'.mem.sb = chip.mem.sb
         /\ ~Orders(drv.plan[1], "verified") => chip'.present = chip.present /\ chip'.lost = chip.lost
<1> DEFINE op == drv.plan[1]
<1>1. CommForm /\ Sound(drv.call, drv.arg, drv.plan) /\ Reads /\ Sets /\ Loads
  BY DEF HostGood, Plans
<1>2. CommChip(chip)
  BY <1>1 DEF CommForm
<1>3. Serves(drv.call, drv.arg, op)
  <2>1. 1 \in 1..Len(drv.plan)
    BY <1>1, SeqForm DEF Sound
  <2> QED
    BY <1>1, <2>1 DEF Sound
<1>4. ASSUME Gentle(op) \/ \E bit : Orders(op, bit)
      PROVE  \A reg \in Laidable : \A r, v : Lain(reg, r, r, v)
  BY <1>4, NotCovering DEF Lain
<1>5. CASE Gentle(op)
  <2>1. /\ DOMAIN chip' = DOMAIN chip /\ chip'.mem = chip.mem /\ chip'.present = chip.present
        /\ chip'.lost = chip.lost /\ (chip'.full => chip.full)
    BY <1>2, <1>5 DEF AfterBlock, Gentle, CommChip
  <2>2. CommChip(chip')
    BY <1>2, <2>1 DEF CommChip
  <2> QED
    BY <1>4, <1>5, <2>1, <2>2 DEF Advanced, Laidable
<1>6. CASE drv.call = "msg_write" /\ Orders(op, "complete")
  <2>1. /\ DOMAIN chip' = DOMAIN chip /\ chip'.mem = chip.mem /\ chip'.present = chip.present
        /\ chip'.lost = chip.lost
    BY <1>2, <1>6 DEF AfterBlock, Orders, CommChip
  <2>2. CommChip(chip')
    BY <1>2, <2>1 DEF CommChip
  <2> QED
    BY <1>4, <1>6, <2>1, <2>2 DEF Advanced, Laidable
<1>7. CASE drv.call = "msg_read" /\ Orders(op, "verified")
  <2>1. DOMAIN chip' = DOMAIN chip /\ chip'.mem = chip.mem /\ chip'.full = chip.full
    BY <1>2, <1>7 DEF AfterBlock, Orders, CommChip
  <2>2. CommChip(chip')
    BY <1>2, <2>1 DEF CommChip
  <2> QED
    BY <1>7, <2>1, <2>2 DEF Advanced
<1>8. ASSUME NEW reg \in Laidable, NEW v, Lays(op, reg, v), IsSeq(v), Len(v) <= Len(chip.mem[reg])
      PROVE  /\ CommChip(chip') /\ chip'.present = chip.present /\ chip'.lost = chip.lost
             /\ chip'.full = chip.full
             /\ Lain(reg, chip.mem[reg], chip'.mem[reg], v)
             /\ \A other \in Drawers \ {reg} : chip'.mem[other] = chip.mem[other]
  <2>1. PICK s : s = Overlay(chip.mem[reg], op.n, op.bytes)
    OBVIOUS
  <2>2. chip' = [chip EXCEPT !.mem[reg] = s]
    BY <1>8, <2>1 DEF AfterBlock, Lays, Laidable
  <2>3. IsSeq(chip.mem[reg])
    BY <1>2, <1>8 DEF CommChip, Laidable
  <2>4. IsSeq(s) /\ Len(s) = Len(chip.mem[reg]) /\ Lain(reg, chip.mem[reg], s, v)
    BY <1>8, <2>1, <2>3, OverlayForm DEF Lain
  <2>5. reg \in Drawers
    BY DEF Laidable, Drawers
  <2>6. /\ DOMAIN chip' = DOMAIN chip /\ chip'.present = chip.present /\ chip'.lost = chip.lost
        /\ chip'.full = chip.full /\ chip'.mem = [chip.mem EXCEPT ![reg] = s]
    BY <1>2, <2>2 DEF CommChip
  <2>7. DOMAIN chip'.mem = Drawers /\ chip'.mem[reg] = s
        /\ \A other \in Drawers \ {reg} : chip'.mem[other] = chip.mem[other]
    BY <1>2, <2>5, <2>6 DEF CommChip
  <2>8. CommChip(chip')
    <3>1. \A d \in Drawers \ {"tag", "fw", "slot"} :
             IsSeq(chip'.mem[d]) /\ Len(chip'.mem[d]) = Len(chip.mem[d])
      BY <1>2, <2>4, <2>7 DEF CommChip, Drawers
    <3> QED
      BY <1>2, <2>6, <2>7, <3>1 DEF CommChip, Drawers
  <2> QED
    BY <2>4, <2>6, <2>7, <2>8
<1>9. conf \in CommConf /\ conf.width \in {1, 2}
  BY <1>1, CommConfigured DEF CommForm
<1>10. CASE drv.call = "version_set" /\ Lays(op, "version", drv.arg)
  <2>1. drv.arg \in conf.versions
    BY <1>1, <1>10 DEF Sets
  <2>2. IsSeq(drv.arg) /\ Len(drv.arg) <= Len(chip.mem["version"])
    <3>1. IsSeq(drv.arg) /\ Len(drv.arg) = Len(chip.mem["version"])
      BY <1>2, <1>9, <2>1, CommConfigured DEF CommChip
    <3>2. Len(drv.arg) \in Nat
      BY <3>1, SeqForm
    <3> QED
      BY <3>1, <3>2
  <2>3. /\ CommChip(chip') /\ chip'.present = chip.present /\ chip'.lost = chip.lost
        /\ chip'.full = chip.full
        /\ Lain("version", chip.mem["version"], chip'.mem["version"], drv.arg)
        /\ \A other \in Drawers \ {"version"} : chip'.mem[other] = chip.mem[other]
    BY <1>8, <1>10, <2>2 DEF Laidable
  <2> QED
    BY <1>10, <2>3 DEF Advanced, Drawers
<1>11. CASE drv.call = "ext_set" /\ Lays(op, "ext", ControlBytes(drv.arg))
  <2>1. PICK v : v = ControlBytes(drv.arg)
    OBVIOUS
  <2>2. IsSeq(v) /\ Len(v) = conf.width
    BY <1>9, <2>1, ControlForm
  <2>3. Len(chip.mem["ext"]) = 2
    BY <1>2 DEF CommChip
  <2>4. Len(v) <= Len(chip.mem["ext"])
    BY <1>9, <2>2, <2>3
  <2>5. /\ CommChip(chip') /\ chip'.present = chip.present /\ chip'.lost = chip.lost
        /\ chip'.full = chip.full
        /\ Lain("ext", chip.mem["ext"], chip'.mem["ext"], v)
        /\ \A other \in Drawers \ {"ext"} : chip'.mem[other] = chip.mem[other]
    BY <1>8, <1>11, <2>1, <2>2, <2>4 DEF Laidable
  <2> QED
    BY <1>11, <2>1, <2>5 DEF Advanced, Drawers
<1>12. CASE drv.call = "msg_write" /\ Lays(op, "nb", drv.arg)
  <2>1. drv.arg \in conf.written
    BY <1>1, <1>12 DEF Loads
  <2>2. IsSeq(drv.arg) /\ Len(drv.arg) <= Len(chip.mem["nb"])
    BY <1>2, <1>9, <2>1, CommConfigured DEF CommChip
  <2>3. /\ CommChip(chip') /\ chip'.present = chip.present /\ chip'.lost = chip.lost
        /\ chip'.full = chip.full
        /\ Lain("nb", chip.mem["nb"], chip'.mem["nb"], drv.arg)
        /\ \A other \in Drawers \ {"nb"} : chip'.mem[other] = chip.mem[other]
    BY <1>8, <1>12, <2>2 DEF Laidable
  <2>4. \A p : ~Covers(op, "nb_header", p)
    BY <1>12 DEF Covers, Lays
  <2>5. \A v : Lain("nb_header", chip.mem.nb_header, chip.mem.nb_header, v)
    BY <2>4 DEF Lain
  <2> QED
    BY <1>12, <2>3, <2>5 DEF Advanced, Drawers
<1>13. CASE drv.call = "msg_write" /\ Lays(op, "nb_header", Header(Cut(drv.arg)))
  <2>1. PICK v : v = Header(Cut(drv.arg))
    OBVIOUS
  <2>2. IsSeq(v) /\ Len(v) <= Len(chip.mem["nb_header"])
    BY <1>2, <2>1, HeaderForm DEF CommChip
  <2>3. /\ CommChip(chip') /\ chip'.present = chip.present /\ chip'.lost = chip.lost
        /\ chip'.full = chip.full
        /\ Lain("nb_header", chip.mem["nb_header"], chip'.mem["nb_header"], v)
        /\ \A other \in Drawers \ {"nb_header"} : chip'.mem[other] = chip.mem[other]
    BY <1>8, <1>13, <2>1, <2>2 DEF Laidable
  <2>4. \A p : ~Covers(op, "nb", p)
    BY <1>13 DEF Covers, Lays
  <2>5. \A u : Lain("nb", chip.mem.nb, chip.mem.nb, u)
    BY <2>4 DEF Lain
  <2> QED
    BY <1>13, <2>1, <2>3, <2>5 DEF Advanced, Drawers
<1>14. \/ Gentle(op)
       \/ drv.call = "msg_write" /\ Orders(op, "complete")
       \/ drv.call = "msg_read" /\ Orders(op, "verified")
       \/ drv.call = "version_set" /\ Lays(op, "version", drv.arg)
       \/ drv.call = "ext_set" /\ Lays(op, "ext", ControlBytes(drv.arg))
       \/ drv.call = "msg_write" /\ Lays(op, "nb", drv.arg)
       \/ drv.call = "msg_write" /\ Lays(op, "nb_header", Header(Cut(drv.arg)))
  BY <1>3 DEF Serves
<1> QED
  BY <1>5, <1>6, <1>7, <1>10, <1>11, <1>12, <1>13, <1>14

(* The same, of the plan of the call. *)
LEMMA LaidOn ==
  ASSUME NEW reg, NEW r, NEW s, NEW v, IsSeq(drv.plan), Len(drv.plan) # 0,
         LaidIn(r, v, reg, drv.plan), Lain(reg, r, s, v), NEW n \in Nat \ {0},
         \A j \in 2..n : j \in 1..Len(drv.plan) => ~\E p : Covers(drv.plan[j], reg, p)
  PROVE  LaidIn(s, v, reg, Drop(drv.plan, n))
<1>1. \A p \in 1..Len(v) : IF Covers(drv.plan[1], reg, p) THEN s[p] = v[p] ELSE s[p] = r[p]
  BY DEF Lain
<1> QED
  BY <1>1, LaidFurther

(* The last operation of a message to the controller: all of it is there. *)
LEMMA Delivered ==
  ASSUME CommForm, drv.call = "msg_write", NEW h, Advanced(h), h.ok, conf' = conf,
         IsSeq(drv.plan), Len(drv.plan) # 0, NEW n \in Nat \ {0}, n >= Len(drv.plan),
         \A j \in 2..n : j \in 1..Len(drv.plan) =>
           \A reg \in Laidable : ~\E p : Covers(drv.plan[j], reg, p),
         drv.arg \in conf.written, LaidIn(chip.mem.nb, drv.arg, "nb", drv.plan),
         LaidIn(chip.mem.nb_header, Header(Cut(drv.arg)), "nb_header", drv.plan)
  PROVE  Carries(chip'.mem.nb_header, chip'.mem.nb, drv.arg)
<1>1. PICK m, e : m = drv.arg /\ e = Header(Cut(m))
  OBVIOUS
<1>2. Drop(drv.plan, n) = <<>>
  BY DropForm
<1>3. /\ Lain("nb", chip.mem.nb, chip'.mem.nb, m)
      /\ Lain("nb_header", chip.mem.nb_header, chip'.mem.nb_header, e)
  BY <1>1 DEF Advanced
<1>4. /\ \A j \in 2..n : j \in 1..Len(drv.plan) => ~\E p : Covers(drv.plan[j], "nb", p)
      /\ \A j \in 2..n : j \in 1..Len(drv.plan) => ~\E p : Covers(drv.plan[j], "nb_header", p)
  BY DEF Laidable
<1>20. LaidIn(chip.mem.nb, m, "nb", drv.plan) /\ LaidIn(chip.mem.nb_header, e, "nb_header", drv.plan)
  BY <1>1
<1>5. LaidIn(chip'.mem.nb, m, "nb", <<>>)
  BY <1>2, <1>3, <1>4, <1>20, LaidOn
<1>6. LaidIn(chip'.mem.nb_header, e, "nb_header", <<>>)
  BY <1>2, <1>3, <1>4, <1>20, LaidOn
<1>7. /\ IsSeq(chip'.mem.nb_header) /\ Len(chip'.mem.nb_header) = 4
      /\ IsSeq(chip'.mem.nb) /\ Len(chip'.mem.nb) = conf.room
      /\ IsSeq(e) /\ Len(e) = 4 /\ IsSeq(m) /\ Len(m) <= conf.room
  BY <1>1, CommConfigured, HeaderForm DEF Advanced, CommChip, CommForm
<1>8. chip'.mem.nb_header = e
  BY <1>6, <1>7, Laid
<1>9. \A p \in 1..Len(m) : chip'.mem.nb[p] = m[p]
  BY <1>5, <1>7, Laid
<1>10. PICK c, z, b : c = Cut(m) /\ z = Len(c) /\ b = chip'.mem.nb
  OBVIOUS
<1>11. /\ z \in 1..Len(m) /\ Len(m) \in Nat /\ IsSeq(c) /\ Len(c) = z
       /\ \A i \in 1..z : c[i] = m[i]
  BY <1>1, <1>10, CutForm DEF CommForm
<1>12. Len(b) \in Nat /\ IsSeq(b) /\ z \in Nat /\ 1 <= z /\ z <= Len(b) /\ 1 \in Nat \ {0}
  BY <1>7, <1>10, <1>11, SeqForm
<1>13. /\ IsSeq(SubSeq(b, 1, z)) /\ Len(SubSeq(b, 1, z)) = IF 1 <= z THEN z - 1 + 1 ELSE 0
       /\ \A i \in 1..(z - 1 + 1) : SubSeq(b, 1, z)[i] = b[1 + i - 1]
  BY <1>12, SubSeqForm
<1>14. Len(SubSeq(b, 1, z)) = z /\ \A i \in 1..z : SubSeq(b, 1, z)[i] = b[i]
  <2>1. \A i \in 1..z : i \in 1..(z - 1 + 1) /\ 1 + i - 1 = i
    BY <1>12
  <2> QED
    BY <1>12, <1>13, <2>1
<1>15. \A i \in 1..z : SubSeq(b, 1, z)[i] = c[i]
  BY <1>9, <1>10, <1>11, <1>14
<1>16. SubSeq(b, 1, z) = c
  BY <1>11, <1>13, <1>14, <1>15, SeqSame
<1> QED
  BY <1>1, <1>8, <1>10, <1>16 DEF Carries

(* What the last byte of a read leaves in the buffer. *)
Answered(h) ==
  Asking /\ h.ok =>
    /\ IsSeq(h.buf) /\ Len(h.buf) = ReadOf(drv.call).n
    /\ \A i \in 1..ReadOf(drv.call).n : ByteTells(chip', drv.call, i, h.buf[i])

(* What is to be shown of the sets when no set is under way. *)
LEMMA SetsHold ==
  ASSUME conf' = conf, drv'.call \notin {"version_set", "ext_set"},
         seen'.version # None => chip'.mem.version = seen'.version,
         conf.width = 2 /\ seen'.ext \in 0..ExtMax => chip'.mem.ext = Tenfold(seen'.ext)
  PROVE  Sets'
<1>1. (seen.version # None /\ drv.call # "version_set" => chip.mem.version = seen.version)'
  OBVIOUS
<1>2. (conf.width = 2 /\ seen.ext \in 0..ExtMax /\ drv.call # "ext_set" => chip.mem.ext = Tenfold(seen.ext))'
  BY DEF Tenfold
<1>3. (drv.call = "version_set" =>
         drv.arg \in conf.versions /\ LaidIn(chip.mem.version, drv.arg, "version", drv.plan))'
  OBVIOUS
<1>4. (drv.call = "ext_set" =>
         drv.arg \in Nat /\ LaidIn(chip.mem.ext, ControlBytes(drv.arg), "ext", drv.plan))'
  OBVIOUS
<1> QED
  BY <1>1, <1>2, <1>3, <1>4 DEF Sets

LEMMA HostFailed ==
  ASSUME HostGood, conf' = conf, drv.call # "idle", NEW h, CallOf(h), Advanced(h), EndFailed(h)
  PROVE  HostGood'
<1>1. CommForm /\ Plans /\ Reads /\ Sets /\ Free /\ Loads /\ Filled /\ SetsStand
  BY DEF HostGood
<1>2. /\ out' = [call |-> h.call, res |-> "failed", val |-> 0]
      /\ drv' = AtRest /\ seen' = AfterFailed(h) /\ h.call = drv.call
  BY DEF EndFailed, Outcome, CallOf
<1>3. /\ DOMAIN seen' = DOMAIN seen /\ seen'.asked = seen.asked /\ seen'.taken = seen.taken
      /\ IF drv.call = "version_set" THEN seen'.version = None ELSE seen'.version = seen.version
      /\ IF drv.call = "ext_set" THEN seen'.ext = -1 ELSE seen'.ext = seen.ext
  BY <1>1, <1>2 DEF AfterFailed, CommForm
<1>4. CommForm'
  <2>1. CommChip(chip)'
    BY DEF Advanced, CommChip
  <2>2. CommDrv(drv)' /\ (conf \in CommConf)' /\ (DOMAIN seen = {"asked", "taken", "version", "ext"})'
    BY <1>1, <1>2, <1>3 DEF CommForm, CommDrv, AtRest
  <2> QED
    BY <2>1, <2>2 DEF CommForm
<1>5. Plans' /\ Reads' /\ Loads' /\ SetsStand'
  BY <1>2 DEF Plans, Reads, Asking, Loads, SetsStand, AtRest
<1>6. ~(drv.call = "msg_write" /\ h.ok /\ Orders(drv.plan[1], "complete")) => (chip'.full => chip.full)
  BY DEF Advanced
<1>7. Sets'
  <2>1. drv.call # "version_set" /\ seen.version # None => chip'.mem.version = seen.version
    BY <1>1 DEF Sets, Advanced
  <2>2. drv.call # "ext_set" /\ conf.width = 2 /\ seen.ext \in 0..ExtMax =>
          chip'.mem.ext = Tenfold(seen.ext)
    BY <1>1 DEF Sets, Advanced
  <2>3. drv'.call = "idle"
    BY <1>2 DEF AtRest
  <2>4. -1 \notin 0..ExtMax
    BY DEF ExtMax
  <2>5. seen'.version # None => chip'.mem.version = seen'.version
    BY <1>3, <2>1
  <2>6. conf.width = 2 /\ seen'.ext \in 0..ExtMax => chip'.mem.ext = Tenfold(seen'.ext)
    BY <1>3, <2>2, <2>4
  <2>7. drv'.call \notin {"version_set", "ext_set"}
    BY <2>3
  <2> QED
    BY <2>5, <2>6, <2>7, SetsHold
<1>8. Free' /\ Filled'
  <2>1. CASE drv.call # "msg_write"
    <3>1. /\ chip'.full => chip.full
          /\ chip'.mem.nb = chip.mem.nb /\ chip'.mem.nb_header = chip.mem.nb_header
      BY <2>1 DEF Advanced
    <3> QED
      BY <1>1, <1>2, <1>3, <3>1 DEF Free, Filled, AtRest
  <2>2. CASE drv.call = "msg_write" /\ ~chip'.full
    BY <1>1, <1>2, <1>3, <2>2 DEF Free, Filled, AtRest
  <2>3. CASE drv.call = "msg_write" /\ chip'.full
    <3>1. ~chip.full /\ h.ok /\ Orders(drv.plan[1], "complete") /\ "ready" \notin seen.asked
      BY <1>1, <2>3 DEF Advanced, Loads, Free
    <3>2. /\ LaidIn(chip.mem.nb, drv.arg, "nb", drv.plan) /\ drv.arg \in conf.written
          /\ LaidIn(chip.mem.nb_header, Header(Cut(drv.arg)), "nb_header", drv.plan)
          /\ 1 \in 1..Len(drv.plan) => 1 = Len(drv.plan)
      BY <1>1, <2>3, <3>1 DEF Loads
    <3>3. IsSeq(drv.plan) /\ Len(drv.plan) = 1
      <4>1. IsSeq(drv.plan) /\ Len(drv.plan) # 0
        BY <1>1 DEF Plans, Sound
      <4> QED
        BY <3>2, <4>1, SeqForm
    <3>4. Carries(chip'.mem.nb_header, chip'.mem.nb, drv.arg)
      BY <1>1, <2>3, <3>1, <3>2, <3>3, Delivered
    <3> QED
      BY <1>1, <1>2, <1>3, <3>1, <3>2, <3>4 DEF Free, Filled
  <2> QED
    BY <2>1, <2>2, <2>3
<1> QED
  BY <1>4, <1>5, <1>7, <1>8 DEF HostGood

(* Two bytes hold ten times a value of up to 6553. *)
LEMMA TenfoldBack ==
  ASSUME NEW v \in 0..ExtMax
  PROVE  (((v * 10) % 256) + 256 * (((v * 10) \div 256) % 256)) \div 10 = v
<1>1. PICK w \in Nat : w = v * 10 /\ w <= 65530
  BY DEF ExtMax
<1>2. PICK q \in Nat : q = w \div 256 /\ q * 256 <= w /\ w < (q + 1) * 256
  BY Division
<1>3. PICK r \in Nat : r = w % 256 /\ r <= 255 /\ w = 256 * q + r
  BY <1>2
<1>4. q % 256 = q
  BY <1>1, <1>2
<1>5. w \div 10 = v
  BY <1>1
<1>6. r + 256 * q = w
  BY <1>3
<1> QED
  BY <1>1, <1>2, <1>3, <1>4, <1>5, <1>6

LEMMA HostEnded ==
  ASSUME HostGood, conf' = conf, drv.call # "idle", NEW h, CallOf(h), Advanced(h), Answered(h), h.ok,
         EndOk([h EXCEPT !.got = Got(h)]),
         NEW n \in Nat \ {0}, n >= Len(h.plan), Leaves(h.plan, h.ok, n)
  PROVE  HostGood'
<1>1. CommForm /\ Plans /\ Reads /\ Sets /\ Free /\ Loads /\ Filled /\ SetsStand
  BY DEF HostGood
<1>2. PICK g : g = [h EXCEPT !.got = Got(h)]
  OBVIOUS
<1>3. g.call = drv.call /\ g.arg = drv.arg /\ g.got = Got(h) /\ h.plan = drv.plan
  BY <1>2 DEF CallOf, CommDrv
<1>4. PICK val \in Results(g) :
        /\ out' = [call |-> drv.call, res |-> "ok", val |-> val]
        /\ drv' = AtRest /\ seen' = AfterCall(g, val)
  BY <1>2, <1>3 DEF EndOk, Outcome
<1>5. /\ DOMAIN seen' = DOMAIN seen /\ seen'.taken = seen.taken
      /\ IF drv.call = "version_set" THEN seen'.version = drv.arg ELSE seen'.version = seen.version
      /\ IF drv.call = "ext_set" THEN seen'.ext = drv.arg ELSE seen'.ext = seen.ext
      /\ \/ seen'.asked \subseteq seen.asked
         \/ drv.call = "ready" /\ val /\ seen'.asked \subseteq seen.asked \cup {"ready"}
  BY <1>1, <1>3, <1>4 DEF AfterCall, CommForm
<1>6. CommForm'
  <2>1. CommChip(chip)'
    BY DEF Advanced, CommChip
  <2>2. CommDrv(drv)' /\ (conf \in CommConf)' /\ (DOMAIN seen = {"asked", "taken", "version", "ext"})'
    BY <1>1, <1>4, <1>5 DEF CommForm, CommDrv, AtRest
  <2> QED
    BY <2>1, <2>2 DEF CommForm
<1>7. Plans' /\ Reads' /\ Loads'
  BY <1>4 DEF Plans, Reads, Asking, Loads, AtRest
<1>8. IsSeq(drv.plan) /\ Len(drv.plan) # 0 /\ Skips(drv.plan) /\ Drop(drv.plan, n) = <<>>
  <2>1. IsSeq(drv.plan) /\ Len(drv.plan) # 0 /\ Skips(drv.plan)
    BY <1>1 DEF Plans, Sound
  <2> QED
    BY <1>3, <2>1, DropForm
<1>9. \A j \in 2..n : j \in 1..Len(drv.plan) => \A reg \in Laidable : ~\E p : Covers(drv.plan[j], reg, p)
  BY <1>3, NotCovering DEF Leaves
<1>10. drv.call = "version_set" => chip'.mem.version = drv.arg
  <2> SUFFICES ASSUME drv.call = "version_set" PROVE chip'.mem.version = drv.arg
    OBVIOUS
  <2>1. /\ drv.arg \in conf.versions /\ LaidIn(chip.mem.version, drv.arg, "version", drv.plan)
        /\ Lain("version", chip.mem.version, chip'.mem.version, drv.arg)
    BY <1>1 DEF Sets, Advanced
  <2>2. \A j \in 2..n : j \in 1..Len(drv.plan) => ~\E p : Covers(drv.plan[j], "version", p)
    BY <1>9 DEF Laidable
  <2>3. LaidIn(chip'.mem.version, drv.arg, "version", <<>>)
    BY <1>8, <2>1, <2>2, LaidOn
  <2>4. /\ IsSeq(drv.arg) /\ IsSeq(chip'.mem.version) /\ Len(chip'.mem.version) = Len(drv.arg)
    BY <1>1, <2>1, CommConfigured DEF CommForm, Advanced, CommChip
  <2> QED
    BY <2>3, <2>4, Laid
<1>11. drv.call = "ext_set" /\ conf.width = 2 => chip'.mem.ext = Tenfold(drv.arg)
  <2> SUFFICES ASSUME drv.call = "ext_set", conf.width = 2 PROVE chip'.mem.ext = Tenfold(drv.arg)
    OBVIOUS
  <2>1. PICK v : v = ControlBytes(drv.arg)
    OBVIOUS
  <2>2. v = Tenfold(drv.arg) /\ IsSeq(v) /\ Len(v) = 2
    BY <2>1, ControlForm
  <2>3. LaidIn(chip.mem.ext, v, "ext", drv.plan) /\ Lain("ext", chip.mem.ext, chip'.mem.ext, v)
    BY <1>1, <2>1 DEF Sets, Advanced
  <2>4. \A j \in 2..n : j \in 1..Len(drv.plan) => ~\E p : Covers(drv.plan[j], "ext", p)
    BY <1>9 DEF Laidable
  <2>5. LaidIn(chip'.mem.ext, v, "ext", <<>>)
    BY <1>8, <2>3, <2>4, LaidOn
  <2>6. IsSeq(chip'.mem.ext) /\ Len(chip'.mem.ext) = Len(v)
    BY <2>2 DEF Advanced, CommChip
  <2> QED
    BY <2>2, <2>5, <2>6, Laid
<1>12. Sets'
  <2>1. drv.call # "version_set" /\ seen.version # None => chip'.mem.version = seen.version
    BY <1>1 DEF Sets, Advanced
  <2>2. drv.call # "ext_set" /\ conf.width = 2 /\ seen.ext \in 0..ExtMax =>
          chip'.mem.ext = Tenfold(seen.ext)
    BY <1>1 DEF Sets, Advanced
  <2>3. drv'.call = "idle"
    BY <1>4 DEF AtRest
  <2>5. seen'.version # None => chip'.mem.version = seen'.version
    BY <1>5, <1>10, <2>1
  <2>6. conf.width = 2 /\ seen'.ext \in 0..ExtMax => chip'.mem.ext = Tenfold(seen'.ext)
    BY <1>5, <1>11, <2>2
  <2>7. drv'.call \notin {"version_set", "ext_set"}
    BY <2>3
  <2> QED
    BY <2>5, <2>6, <2>7, SetsHold
<1>13. Asking => /\ IsSeq(Got(h)) /\ Len(Got(h)) = ReadOf(drv.call).n
                 /\ \A i \in 1..ReadOf(drv.call).n : ByteTells(chip', drv.call, i, Got(h)[i])
  <2> SUFFICES ASSUME Asking
               PROVE  /\ IsSeq(Got(h)) /\ Len(Got(h)) = ReadOf(drv.call).n
                      /\ \A i \in 1..ReadOf(drv.call).n : ByteTells(chip', drv.call, i, Got(h)[i])
    OBVIOUS
  <2>1. drv.plan = <<ReadOf(drv.call)>>
    BY <1>1 DEF Reads
  <2>2. drv.plan[1] = ReadOf(drv.call)
    BY <2>1, Tuples
  <2>3. Keeps(drv.plan[1])
    BY <2>2 DEF Keeps, ReadOf, ReadOp, Asking
  <2>4. Got(h) = h.buf
    BY <1>3, <2>3 DEF Got
  <2> QED
    BY <2>4 DEF Answered
<1>14. drv.call = "ready" /\ val => ~chip'.full
  <2> SUFFICES ASSUME drv.call = "ready", val PROVE ~chip'.full
    OBVIOUS
  <2>1. g.got[1] = 0
    BY <1>3, <1>4 DEF Results
  <2>2. 1 \in 1..ReadOf(drv.call).n
    BY DEF ReadOf, ReadOp
  <2>3. ByteTells(chip', "ready", 1, Got(h)[1])
    BY <1>13, <2>2 DEF Asking
  <2> QED
    BY <1>3, <2>1, <2>3 DEF ByteTells
<1>15. SetsStand'
  <2>1. CASE drv.call = "version_get"
    <3>1. val = Got(h)
      BY <1>3, <1>4, <2>1 DEF Results
    <3>2. ReadOf(drv.call).n = Len(conf.first)
      BY <2>1 DEF ReadOf, ReadOp
    <3>3. /\ IsSeq(val) /\ Len(val) = Len(conf.first)
          /\ \A i \in 1..Len(conf.first) : val[i] = chip'.mem.version[i]
      BY <1>13, <2>1, <3>1, <3>2 DEF Asking, ByteTells
    <3>4. IsSeq(chip'.mem.version) /\ Len(chip'.mem.version) = Len(conf.first)
      BY DEF Advanced, CommChip
    <3>5. val = chip'.mem.version
      BY <3>3, <3>4, SeqSame
    <3>6. seen'.version # None => val = seen'.version
      BY <1>1, <1>5, <2>1, <3>5 DEF Sets, Advanced
    <3> QED
      BY <1>4, <2>1, <3>6 DEF SetsStand
  <2>2. CASE drv.call = "ext_get"
    <3> SUFFICES ASSUME seen'.ext \in 0..ExtMax, conf.width = 2 PROVE val = seen'.ext
      BY <1>4, <2>2 DEF SetsStand
    <3>1. ReadOf(drv.call).n = 2
      BY <2>2 DEF ReadOf, ReadOp
    <3>2. Got(h)[1] = chip'.mem.ext[1] /\ Got(h)[2] = chip'.mem.ext[2]
      <4>1. \A i \in 1..2 : ByteTells(chip', "ext_get", i, Got(h)[i])
        BY <1>13, <2>2, <3>1 DEF Asking
      <4> QED
        BY <4>1 DEF ByteTells
    <3>3. chip'.mem.ext = Tenfold(seen'.ext)
      <4>1. chip'.mem.ext = chip.mem.ext /\ seen'.ext = seen.ext
        BY <1>5, <2>2 DEF Advanced
      <4>2. chip.mem.ext = Tenfold(seen.ext)
        BY <1>1, <2>2, <4>1 DEF Sets
      <4> QED
        BY <4>1, <4>2
    <3>4. val = (Got(h)[1] + 256 * Got(h)[2]) \div 10
      BY <1>3, <1>4, <2>2 DEF Results, ExtWord
    <3>5. PICK v \in 0..ExtMax : v = seen'.ext
      OBVIOUS
    <3>6. Got(h)[1] = (v * 10) % 256 /\ Got(h)[2] = ((v * 10) \div 256) % 256
      BY <3>2, <3>3, <3>5, Tuples DEF Tenfold
    <3>7. (((v * 10) % 256) + 256 * (((v * 10) \div 256) % 256)) \div 10 = v
      BY <3>5, TenfoldBack
    <3> QED
      BY <3>4, <3>5, <3>6, <3>7
  <2>3. CASE drv.call \notin {"version_get", "ext_get"}
    BY <1>4, <2>3 DEF SetsStand
  <2> QED
    BY <2>1, <2>2, <2>3
<1>16. Free' /\ Filled'
  <2>1. CASE drv.call # "msg_write"
    <3>1. /\ chip'.full => chip.full
          /\ chip'.mem.nb = chip.mem.nb /\ chip'.mem.nb_header = chip.mem.nb_header
      BY <2>1 DEF Advanced
    <3> QED
      BY <1>1, <1>4, <1>5, <1>14, <3>1 DEF Free, Filled, AtRest
  <2>2. CASE drv.call = "msg_write"
    <3>1. /\ LaidIn(chip.mem.nb, drv.arg, "nb", drv.plan) /\ drv.arg \in conf.written
          /\ LaidIn(chip.mem.nb_header, Header(Cut(drv.arg)), "nb_header", drv.plan)
          /\ "ready" \notin seen.asked
      BY <1>1, <2>2 DEF Loads, Free
    <3>2. Carries(chip'.mem.nb_header, chip'.mem.nb, drv.arg)
      <4>1. LaidIn(chip.mem.nb, drv.arg, "nb", drv.plan)
        BY <3>1
      <4>2. LaidIn(chip.mem.nb_header, Header(Cut(drv.arg)), "nb_header", drv.plan)
        BY <3>1
      <4>3. CommForm /\ drv.arg \in conf.written /\ n >= Len(drv.plan)
        BY <1>1, <1>3, <3>1
      <4>4. IsSeq(drv.plan) /\ Len(drv.plan) # 0
        BY <1>8
      <4> QED
        BY <1>9, <2>2, <4>1, <4>2, <4>3, <4>4, Delivered
    <3>3. "ready" \notin seen'.asked
      BY <1>5, <2>2, <3>1
    <3> QED
      BY <1>1, <1>4, <1>5, <3>1, <3>2, <3>3 DEF Free, Filled
  <2> QED
    BY <2>1, <2>2
<1> QED
  BY <1>6, <1>7, <1>12, <1>15, <1>16 DEF HostGood

(* The operations that a failure leaves out write none of the registers. *)
LEMMA SkipsClear ==
  ASSUME NEW plan, IsSeq(plan), Len(plan) # 0, Skips(plan), NEW ok, NEW n \in Nat \ {0},
         Leaves(plan, ok, n), ok \/ plan[1].skip # All
  PROVE  \A j \in 2..n : j \in 1..Len(plan) => \A reg \in Laidable : ~\E p : Covers(plan[j], reg, p)
<1> SUFFICES ASSUME NEW j \in 2..n, j \in 1..Len(plan)
             PROVE  \A reg \in Laidable : ~\E p : Covers(plan[j], reg, p)
  OBVIOUS
<1>1. CASE ok
  BY <1>1, NotCovering DEF Leaves
<1>2. CASE ~ok
  <2>1. 1 \in 1..Len(plan) /\ Len(plan) \in Nat
    BY SeqForm
  <2>2. plan[1].skip \in Nat /\ 1 < j /\ j <= 1 + plan[1].skip
    BY <1>2, <2>1 DEF Skips, Leaves
  <2>3. Gentle(plan[j])
    BY <2>1, <2>2 DEF Skips
  <2> QED
    BY <2>3, NotCovering
<1> QED
  BY <1>1, <1>2

LEMMA SoundStill ==
  ASSUME conf' = conf, NEW call, NEW arg, NEW plan, Sound(call, arg, plan)
  PROVE  Sound(call, arg, plan)'
  BY DEF Sound, Serves, ControlBytes

LEMMA HostGoesOn ==
  ASSUME HostGood, conf' = conf, drv.call # "idle", NEW h, CallOf(h), Advanced(h), GoesOn(h)
  PROVE  HostGood'
<1>1. CommForm /\ Plans /\ Reads /\ Sets /\ Free /\ Loads /\ Filled /\ SetsStand
  BY DEF HostGood
<1>2. h.call = drv.call /\ h.plan = drv.plan /\ h.arg = drv.arg
  BY DEF CallOf
<1>3. PICK n \in Nat \ {0} :
        /\ n < Len(drv.plan) /\ Leaves(drv.plan, h.ok, n) /\ (h.ok \/ drv.plan[1].skip # All)
        /\ drv'.plan = Drop(drv.plan, n) /\ drv'.arg = drv.arg
  BY <1>2 DEF GoesOn
<1>4. CommDrv(drv') /\ drv'.call = drv.call /\ drv'.k = 0 /\ out' = out /\ seen' = seen
  BY <1>2 DEF GoesOn
<1>5. /\ out.call = "none" /\ Sound(drv.call, drv.arg, drv.plan)
      /\ IsSeq(drv.plan) /\ Len(drv.plan) # 0 /\ Skips(drv.plan)
  BY <1>1 DEF Plans, Sound
<1>6. \A j \in 2..n : j \in 1..Len(drv.plan) => \A reg \in Laidable : ~\E p : Covers(drv.plan[j], reg, p)
  BY <1>3, <1>5, SkipsClear
<1>7. CommForm'
  <2>1. CommChip(chip)'
    BY DEF Advanced, CommChip
  <2>2. CommDrv(drv)' /\ (conf \in CommConf)' /\ (DOMAIN seen = {"asked", "taken", "version", "ext"})'
    BY <1>1, <1>4 DEF CommForm, CommDrv
  <2> QED
    BY <2>1, <2>2 DEF CommForm
<1>8. Plans'
  <2>1. Sound(drv.call, drv.arg, Drop(drv.plan, n))
    BY <1>3, <1>5, RestSound
  <2>2. PICK c, a, p : c = drv.call /\ a = drv.arg /\ p = Drop(drv.plan, n)
    OBVIOUS
  <2>3. Sound(c, a, p)'
    BY <2>1, <2>2, SoundStill
  <2>4. drv'.call = c /\ drv'.arg = a /\ drv'.plan = p
    BY <1>3, <1>4, <2>2
  <2> QED
    BY <1>4, <1>5, <2>3, <2>4 DEF Plans
<1>9. Reads'
  <2>1. ~Asking
    <3> SUFFICES ASSUME Asking PROVE FALSE
      OBVIOUS
    <3>1. Len(drv.plan) = 1
      BY <1>1, Tuples DEF Reads
    <3> QED
      BY <1>3, <3>1
  <2> QED
    BY <1>4, <2>1 DEF Reads, Asking
<1>10. \A reg \in Laidable : \A r, s, v :
         LaidIn(r, v, reg, drv.plan) /\ Lain(reg, r, s, v) => LaidIn(s, v, reg, drv'.plan)
  BY <1>3, <1>5, <1>6, LaidOn
<1>11. h.ok \/ drv.plan[1].skip # All
  BY <1>3
<1>12. Sets'
  <2>1. (seen.version # None /\ drv.call # "version_set" => chip.mem.version = seen.version)'
    BY <1>1, <1>4 DEF Sets, Advanced
  <2>2. (conf.width = 2 /\ seen.ext \in 0..ExtMax /\ drv.call # "ext_set" =>
           chip.mem.ext = Tenfold(seen.ext))'
    BY <1>1, <1>4 DEF Sets, Advanced
  <2>3. (drv.call = "version_set" =>
           drv.arg \in conf.versions /\ LaidIn(chip.mem.version, drv.arg, "version", drv.plan))'
    <3> SUFFICES ASSUME drv.call = "version_set"
                 PROVE  drv.arg \in conf.versions /\ LaidIn(chip'.mem.version, drv.arg, "version", drv'.plan)
      BY <1>3, <1>4
    <3>1. drv.arg \in conf.versions /\ LaidIn(chip.mem.version, drv.arg, "version", drv.plan)
      BY <1>1 DEF Sets
    <3>2. Lain("version", chip.mem.version, chip'.mem.version, drv.arg)
      BY <1>11 DEF Advanced
    <3> QED
      BY <1>10, <3>1, <3>2 DEF Laidable
  <2>4. (drv.call = "ext_set" =>
           drv.arg \in Nat /\ LaidIn(chip.mem.ext, ControlBytes(drv.arg), "ext", drv.plan))'
    <3> SUFFICES ASSUME drv.call = "ext_set"
                 PROVE  drv.arg \in Nat /\ LaidIn(chip'.mem.ext, ControlBytes(drv.arg), "ext", drv'.plan)
      <4>1. ControlBytes(drv.arg)' = ControlBytes(drv.arg)
        BY <1>3 DEF ControlBytes
      <4> QED
        BY <1>3, <1>4, <4>1
    <3>1. drv.arg \in Nat /\ LaidIn(chip.mem.ext, ControlBytes(drv.arg), "ext", drv.plan)
      BY <1>1 DEF Sets
    <3>2. Lain("ext", chip.mem.ext, chip'.mem.ext, ControlBytes(drv.arg))
      BY <1>11 DEF Advanced
    <3> QED
      BY <1>10, <3>1, <3>2 DEF Laidable
  <2> QED
    BY <2>1, <2>2, <2>3, <2>4 DEF Sets
<1>13. chip'.full => chip.full
  <2>1. Len(drv.plan) \in Nat /\ 1 \in 1..Len(drv.plan) /\ Len(drv.plan) # 1
    <3>1. IsSeq(drv.plan) /\ n < Len(drv.plan)
      BY <1>3, <1>5
    <3>2. Len(drv.plan) \in Nat
      BY <3>1, SeqForm
    <3>3. PICK L : L = Len(drv.plan)
      OBVIOUS
    <3>4. n \in Nat \ {0} /\ n < L /\ L \in Nat
      BY <1>3, <3>1, <3>2, <3>3
    <3>5. 1 \in 1..L /\ L # 1
      BY <3>4
    <3> QED
      BY <3>2, <3>3, <3>5
  <2> QED
    BY <1>1, <2>1 DEF Advanced, Loads
<1>14. Free'
  BY <1>1, <1>4, <1>13 DEF Free
<1>15. Loads'
  <2> SUFFICES ASSUME drv.call = "msg_write"
               PROVE  /\ ~chip'.full
                      /\ drv.arg \in conf.written
                      /\ LaidIn(chip'.mem.nb, drv.arg, "nb", drv'.plan)
                      /\ LaidIn(chip'.mem.nb_header, Header(Cut(drv.arg)), "nb_header", drv'.plan)
                      /\ \A i \in 1..Len(drv'.plan) :
                           Orders(drv'.plan[i], "complete") => i = Len(drv'.plan)
    BY <1>3, <1>4 DEF Loads
  <2>1. /\ ~chip.full /\ drv.arg \in conf.written
        /\ LaidIn(chip.mem.nb, drv.arg, "nb", drv.plan)
        /\ LaidIn(chip.mem.nb_header, Header(Cut(drv.arg)), "nb_header", drv.plan)
        /\ \A i \in 1..Len(drv.plan) : Orders(drv.plan[i], "complete") => i = Len(drv.plan)
    BY <1>1 DEF Loads
  <2>2. /\ Lain("nb", chip.mem.nb, chip'.mem.nb, drv.arg)
        /\ Lain("nb_header", chip.mem.nb_header, chip'.mem.nb_header, Header(Cut(drv.arg)))
    BY <1>11 DEF Advanced
  <2>3. LaidIn(chip'.mem.nb, drv.arg, "nb", drv'.plan)
    BY <1>10, <2>1, <2>2 DEF Laidable
  <2>4. LaidIn(chip'.mem.nb_header, Header(Cut(drv.arg)), "nb_header", drv'.plan)
    BY <1>10, <2>1, <2>2 DEF Laidable
  <2>5. ASSUME NEW i \in 1..Len(drv'.plan), Orders(drv'.plan[i], "complete")
        PROVE  i = Len(drv'.plan)
    <3>1. Len(drv.plan) \in Nat /\ n \in Nat /\ n < Len(drv.plan)
      BY <1>3, <1>5, SeqForm
    <3>2. /\ Len(drv'.plan) = Len(drv.plan) - n
          /\ \A j \in 1..(Len(drv.plan) - n) : drv'.plan[j] = drv.plan[n + j]
      BY <1>3, <1>5, <3>1, DropForm
    <3>3. n + i \in 1..Len(drv.plan) /\ drv'.plan[i] = drv.plan[n + i]
      BY <2>5, <3>1, <3>2
    <3>4. n + i = Len(drv.plan)
      BY <2>1, <2>5, <3>3
    <3> QED
      BY <3>1, <3>2, <3>4
  <2> QED
    BY <1>13, <2>1, <2>3, <2>4, <2>5
<1>16. Filled'
  <2>1. CASE drv.call = "msg_write"
    BY <1>1, <1>4, <1>13, <2>1 DEF Filled, Loads
  <2>2. CASE drv.call # "msg_write"
    BY <1>1, <1>4, <1>13, <2>2 DEF Filled, Advanced
  <2> QED
    BY <2>1, <2>2
<1>17. SetsStand'
  BY <1>4, <1>5 DEF SetsStand
<1> QED
  BY <1>7, <1>8, <1>9, <1>12, <1>14, <1>15, <1>16, <1>17 DEF HostGood

(* The header of a message is read: its body is next. *)
LEMMA HostAnnounced ==
  ASSUME HostGood, conf' = conf, drv.call # "idle", NEW h, CallOf(h), Advanced(h), Announced(h)
  PROVE  HostGood' /\ drv.call = "msg_read"
<1>1. CommForm /\ Plans /\ Reads /\ Sets /\ Free /\ Loads /\ Filled /\ SetsStand
  BY DEF HostGood
<1>2. h.call = drv.call /\ h.plan = drv.plan /\ h.arg = drv.arg
  BY DEF CallOf
<1>3. PICK body : body = ReadOp("sb", HeaderSize(h.buf), All)
  OBVIOUS
<1>4. /\ CommDrv(drv') /\ drv'.call = drv.call /\ out' = out /\ seen' = seen
      /\ drv.plan[1].reg = "header" /\ drv'.plan = <<body>> \o Drop(drv.plan, 1)
  BY <1>2, <1>3 DEF Announced
<1>5. /\ out.call = "none" /\ Sound(drv.call, drv.arg, drv.plan)
      /\ IsSeq(drv.plan) /\ Len(drv.plan) # 0 /\ Len(drv.plan) \in Nat
      /\ 1 \in 1..Len(drv.plan) /\ \A i \in 1..Len(drv.plan) : Serves(drv.call, drv.arg, drv.plan[i])
  BY <1>1, SeqForm DEF Plans, Sound
<1>6. drv.call = "msg_read"
  <2>1. Serves(drv.call, drv.arg, drv.plan[1])
    BY <1>5
  <2> QED
    BY <1>4, <2>1 DEF Serves, Lays, Orders, Gentle
<1>7. CommForm'
  <2>1. CommChip(chip)'
    BY DEF Advanced, CommChip
  <2>2. CommDrv(drv)' /\ (conf \in CommConf)' /\ (DOMAIN seen = {"asked", "taken", "version", "ext"})'
    BY <1>1, <1>4 DEF CommForm, CommDrv
  <2> QED
    BY <2>1, <2>2 DEF CommForm
<1>8. Plans'
  <2>1. PICK e, t : e = <<body>> /\ t = Drop(drv.plan, 1)
    OBVIOUS
  <2>2. /\ IsSeq(e) /\ Len(e) = 1 /\ e[1] = body
        /\ IsSeq(t) /\ Len(t) \in Nat
    BY <1>5, <2>1, Tuples, DropForm, SeqForm
  <2>3. IsSeq(e \o t) /\ Len(e \o t) # 0
    BY <2>2, ConcatForm
  <2>4. \A x : Serves("msg_read", x, body)
    BY <1>3 DEF Serves, ReadOp
  <2>5. ASSUME NEW i \in 1..Len(e \o t), NEW x
        PROVE  Serves("msg_read", x, (e \o t)[i])
    <3>1. CASE i \in 1..Len(e) /\ (e \o t)[i] = e[i]
      <4>1. i = 1
        BY <2>2, <3>1
      <4> QED
        BY <2>2, <2>4, <3>1, <4>1
    <3>2. ASSUME NEW j \in 1..Len(t), (e \o t)[i] = t[j]
          PROVE  Serves("msg_read", x, (e \o t)[i])
      <4>1. 1 + j \in 1..Len(drv.plan) /\ t[j] = drv.plan[1 + j]
        <5>1. IsSeq(drv.plan) /\ Len(drv.plan) \in Nat /\ 1 \in Nat
          BY <1>5
        <5>2. /\ Len(t) = IF 1 < Len(drv.plan) THEN Len(drv.plan) - 1 ELSE 0
              /\ \A k \in 1..(Len(drv.plan) - 1) : t[k] = drv.plan[1 + k]
          BY <2>1, <5>1, DropForm
        <5>3. j \in 1..(Len(drv.plan) - 1)
          BY <3>2, <5>1, <5>2
        <5> QED
          BY <5>1, <5>2, <5>3
      <4>2. Serves(drv.call, drv.arg, drv.plan[1 + j])
        BY <1>5, <4>1
      <4> QED
        BY <1>6, <3>2, <4>1, <4>2 DEF Serves
    <3> QED
      BY <2>2, <2>5, <3>1, <3>2, ConcatParts
  <2>6. \A i \in 1..Len(e \o t) : (e \o t)[i].skip = All
    BY <2>5 DEF Serves
  <2>7. Len(e \o t) \in Nat
    BY <2>3, SeqForm
  <2>8. Skips(e \o t)
    BY <2>6, <2>7 DEF Skips, All
  <2>9. PICK c, a, p : c = "msg_read" /\ a = drv'.arg /\ p = e \o t
    OBVIOUS
  <2>10. Sound(c, a, p)
    BY <2>3, <2>5, <2>8, <2>9 DEF Sound
  <2>11. Sound(c, a, p)'
    BY <2>10, SoundStill
  <2>12. drv'.call = c /\ drv'.arg = a /\ drv'.plan = p
    BY <1>4, <1>6, <2>1, <2>9
  <2> QED
    BY <1>4, <1>5, <2>11, <2>12 DEF Plans
<1>9. Reads' /\ Loads' /\ SetsStand'
  BY <1>4, <1>5, <1>6 DEF Reads, Asking, Loads, SetsStand
<1>10. /\ chip'.mem.version = chip.mem.version /\ chip'.mem.ext = chip.mem.ext
       /\ chip'.mem.nb = chip.mem.nb /\ chip'.mem.nb_header = chip.mem.nb_header
       /\ chip'.full => chip.full
  BY <1>6 DEF Advanced
<1>11. Sets'
  <2>1. seen'.version # None => chip'.mem.version = seen'.version
    BY <1>1, <1>4, <1>6, <1>10 DEF Sets
  <2>2. conf.width = 2 /\ seen'.ext \in 0..ExtMax => chip'.mem.ext = Tenfold(seen'.ext)
    BY <1>1, <1>4, <1>6, <1>10 DEF Sets
  <2>3. drv'.call \notin {"version_set", "ext_set"}
    BY <1>4, <1>6
  <2> QED
    BY <2>1, <2>2, <2>3, SetsHold
<1>12. Free' /\ Filled'
  BY <1>1, <1>4, <1>10 DEF Free, Filled
<1> QED
  BY <1>6, <1>7, <1>8, <1>9, <1>11, <1>12 DEF HostGood

(* The end of an operation, whatever comes after it. *)
LEMMA HostOperates ==
  ASSUME HostGood, conf' = conf, drv.call # "idle", NEW h, CallOf(h), Advanced(h), Answered(h),
         AfterOp(h)
  PROVE  HostGood'
<1>1. Sound(drv.call, drv.arg, drv.plan) /\ h.plan = drv.plan /\ h.call = drv.call /\ CommDrv(h)
  BY DEF HostGood, Plans, CallOf
<1>2. IsSeq(h.plan) /\ Len(h.plan) # 0 /\ 1 \in 1..Len(h.plan)
  BY <1>1, SeqForm DEF Sound
<1>3. Serves(drv.call, drv.arg, h.plan[1]) /\ h.plan[1].skip \in Nat \cup {All}
  BY <1>1, <1>2 DEF Sound, Skips
<1>4. h.plan[1].reg = "header" => h.plan[1].do = "read"
  BY <1>3 DEF Serves, Lays, Orders, Gentle
<1>5. Ended(h) \/ GoesOn(h) \/ Announced(h)
  BY <1>1, <1>2, <1>3, <1>4, OpEnds
<1>6. CASE GoesOn(h)
  BY <1>6, HostGoesOn
<1>7. CASE Announced(h)
  BY <1>7, HostAnnounced
<1>8. CASE EndFailed(h)
  BY <1>8, HostFailed
<1>9. CASE /\ h.ok /\ EndOk([h EXCEPT !.got = Got(h)])
           /\ \E n \in Nat \ {0} : n >= Len(h.plan) /\ Leaves(h.plan, h.ok, n)
  BY <1>9, HostEnded
<1> QED
  BY <1>5, <1>6, <1>7, <1>8, <1>9 DEF Ended

(* The transfers of a read. *)
LEMMA HostReads ==
  ASSUME HostGood, conf' = conf, drv.call # "idle", Untouched, CallOf(drv'),
         out' = out, seen' = seen, Reads'
  PROVE  HostGood'
<1>1. CommForm /\ Plans /\ Sets /\ Free /\ Loads /\ Filled /\ SetsStand
  BY DEF HostGood
<1>2. /\ DOMAIN chip' = DOMAIN chip /\ chip'.mem = chip.mem /\ chip'.full = chip.full
      /\ CommDrv(drv') /\ drv'.call = drv.call /\ drv'.plan = drv.plan /\ drv'.arg = drv.arg
  BY DEF Untouched, CallOf
<1>3. CommForm'
  BY <1>1, <1>2 DEF CommForm, CommChip, CommDrv
<1>4. Plans'
  <2>1. PICK c, a, p : c = drv.call /\ a = drv.arg /\ p = drv.plan
    OBVIOUS
  <2>2. Sound(c, a, p)'
    <3>1. Sound(c, a, p)
      BY <1>1, <2>1 DEF Plans
    <3> QED
      BY <3>1, SoundStill
  <2>3. drv'.call = c /\ drv'.arg = a /\ drv'.plan = p
    BY <1>2, <2>1
  <2> QED
    BY <1>1, <2>2, <2>3 DEF Plans
<1>5. Sets'
  <2>1. ControlBytes(drv.arg)' = ControlBytes(drv.arg)
    BY <1>2 DEF ControlBytes
  <2> QED
    BY <1>1, <1>2, <2>1 DEF Sets
<1>6. Free' /\ Loads' /\ Filled' /\ SetsStand'
  BY <1>1, <1>2 DEF Free, Loads, Filled, SetsStand, Is
<1> QED
  BY <1>3, <1>4, <1>5, <1>6 DEF HostGood

(* What a byte of a read tells, and what has been read tells still. *)
LEMMA ReadOn ==
  ASSUME HostGood, Asking, Untouched, drv.k # 0
  PROVE  LET b == Append(drv.buf, Answer)
         IN /\ IsSeq(b) /\ Len(b) = drv.k
            /\ \A i \in 1..drv.k : ByteTells(chip', drv.call, i, b[i])
<1>1. /\ drv.k \in 0..ReadOf(drv.call).n
      /\ chip.reg = ReadOf(drv.call).reg /\ chip.at = drv.k
      /\ IsSeq(drv.buf) /\ Len(drv.buf) = drv.k - 1
      /\ \A i \in 1..(drv.k - 1) : ByteTells(chip, drv.call, i, drv.buf[i])
  BY DEF HostGood, Reads
<1>2. CommForm
  BY DEF HostGood
<1>3. PICK k \in Nat \ {0} : k = drv.k /\ k <= ReadOf(drv.call).n
  <2>1. ReadOf(drv.call).n \in Nat
    <3>1. Len(conf.first) \in Nat /\ conf.width \in Nat
      BY <1>2, CommConfigured DEF CommForm
    <3> QED
      BY <3>1 DEF ReadOf, ReadOp, Asking
  <2> QED
    BY <1>1, <2>1
<1>4. ByteTells(chip', drv.call, k, Answer)
  <2>1. /\ IsSeq(chip.mem.version) /\ Len(chip.mem.version) = Len(conf.first)
        /\ IsSeq(chip.mem.ext) /\ Len(chip.mem.ext) = 2 /\ conf.width \in {1, 2}
        /\ Len(conf.first) \in Nat
    BY <1>2, CommConfigured DEF CommForm, CommChip
  <2>2. CASE drv.call = "ready"
    <3>1. chip.reg = "nb_status" /\ chip.at = k
      BY <1>1, <1>3, <2>2 DEF ReadOf, ReadOp
    <3>2. Answer = IF chip.at = 1 /\ chip.full THEN 1 ELSE 0
      BY <3>1 DEF Answer
    <3> QED
      BY <2>2, <3>1, <3>2 DEF ByteTells, Untouched
  <2>3. CASE drv.call = "version_get"
    <3>1. chip.reg = "version" /\ chip.at = k /\ k <= Len(chip.mem.version)
      BY <1>1, <1>3, <2>1, <2>3 DEF ReadOf, ReadOp
    <3>2. Answer = chip.mem.version[k]
      BY <2>1, <3>1 DEF Answer
    <3> QED
      BY <2>3, <3>2 DEF ByteTells, Untouched
  <2>4. CASE drv.call = "ext_get"
    <3>1. chip.reg = "ext" /\ chip.at = k /\ k <= Len(chip.mem.ext)
      BY <1>1, <1>3, <2>1, <2>4 DEF ReadOf, ReadOp
    <3>2. Answer = chip.mem.ext[k]
      BY <2>1, <3>1 DEF Answer
    <3> QED
      BY <2>4, <3>2 DEF ByteTells, Untouched
  <2> QED
    BY <2>2, <2>3, <2>4 DEF Asking
<1>5. PICK s, e : s = drv.buf /\ e = Answer
  OBVIOUS
<1>6. /\ IsSeq(Append(s, e)) /\ Len(Append(s, e)) = Len(s) + 1
      /\ \A i \in 1..Len(s) : Append(s, e)[i] = s[i]
      /\ Append(s, e)[Len(s) + 1] = e
  <2>1. IsSeq(s)
    BY <1>1, <1>5
  <2> QED
    BY <2>1, AppendForm
<1>7. Len(s) = k - 1
  BY <1>1, <1>3, <1>5
<1>8. ASSUME NEW i \in 1..k
      PROVE  ByteTells(chip', drv.call, i, Append(s, e)[i])
  <2>1. CASE i = k
    <3>1. Append(s, e)[i] = e
      BY <1>6, <1>7, <2>1
    <3> QED
      BY <1>4, <1>5, <2>1, <3>1
  <2>2. CASE i \in 1..(k - 1)
    <3>1. Append(s, e)[i] = s[i]
      BY <1>6, <1>7, <2>2
    <3>2. ByteTells(chip, drv.call, i, s[i])
      BY <1>1, <1>3, <1>5, <2>2
    <3>3. chip'.full = chip.full /\ chip'.mem = chip.mem
      BY DEF Untouched
    <3> QED
      BY <3>1, <3>2, <3>3 DEF ByteTells
  <2>3. i = k \/ i \in 1..(k - 1)
    BY <1>3, <1>8
  <2> QED
    BY <2>1, <2>2, <2>3
<1> QED
  BY <1>3, <1>5, <1>6, <1>7, <1>8

LEMMA HostMoves ==
  ASSUME HostGood, ~conf.hidden, WriteOffset \/ RecvByte \/ WriteBlock
  PROVE  HostGood'
<1>1. CommForm /\ Plans /\ Reads /\ CommChip(chip) /\ CommDrv(drv)
  BY DEF HostGood, CommForm
<1>2. ASSUME Asking
      PROVE  /\ drv.plan = <<ReadOf(drv.call)>> /\ drv.plan[1] = ReadOf(drv.call)
             /\ ReadOf(drv.call).n \in Nat \ {0} /\ drv.plan[1].do = "read"
  <2>1. drv.plan = <<ReadOf(drv.call)>>
    BY <1>1, <1>2 DEF Reads
  <2>2. drv.plan[1] = ReadOf(drv.call)
    BY <2>1, Tuples
  <2>3. Len(conf.first) \in Nat \ {0} /\ conf.width \in {1, 2}
    BY <1>1, CommConfigured DEF CommForm
  <2> QED
    BY <1>2, <2>1, <2>2, <2>3 DEF ReadOf, ReadOp, Asking
<1>3. CASE WriteOffset
  <2>1. conf' = conf /\ drv.call # "idle" /\ drv.plan[1].do = "read" /\ drv.k = 0 /\ Untouched
    BY <1>1, <1>3, OffsetStep
  <2>2. CASE /\ drv.plan[1].n # 0 /\ CallOf(drv') /\ drv'.k = 1 /\ drv'.buf = <<>>
             /\ chip'.reg = drv.plan[1].reg /\ chip'.at = 1 /\ out' = out /\ seen' = seen
    <3>1. Reads'
      <4> SUFFICES ASSUME Asking
                   PROVE  /\ drv'.plan = <<ReadOf(drv.call)>> /\ 1 \in 0..ReadOf(drv.call).n
                          /\ chip'.reg = ReadOf(drv.call).reg /\ chip'.at = 1
                          /\ IsSeq(<<>>) /\ Len(<<>>) = 1 - 1
        <5>1. drv'.call = drv.call /\ ReadOf(drv.call)' = ReadOf(drv.call)
          BY <2>1, <2>2 DEF CallOf, ReadOf
        <5> QED
          BY <2>2, <5>1 DEF Reads, Asking
      <4> QED
        BY <1>2, <2>2, Tuples DEF CallOf
    <3> QED
      BY <2>1, <2>2, <3>1, HostReads
  <2>3. CASE \E h : CallOf(h) /\ AfterOp(h) /\ (h.ok => drv.plan[1].n = 0 /\ h.buf = <<>>)
    <3>1. PICK h : CallOf(h) /\ AfterOp(h) /\ (h.ok => drv.plan[1].n = 0)
      BY <2>3
    <3>2. Advanced(h)
      BY <2>1, Unwritten
    <3>3. Answered(h)
      BY <1>2, <3>1 DEF Answered
    <3> QED
      BY <2>1, <3>1, <3>2, <3>3, HostOperates
  <2> QED
    BY <1>1, <1>3, <2>2, <2>3, OffsetStep
<1>4. CASE RecvByte
  <2>1. conf' = conf /\ drv.call # "idle" /\ drv.plan[1].do = "read" /\ drv.k # 0 /\ Untouched
    BY <1>1, <1>4, ByteStep
  <2>2. ASSUME Asking
        PROVE  LET b == Append(drv.buf, Answer)
               IN /\ IsSeq(b) /\ Len(b) = drv.k
                  /\ \A i \in 1..drv.k : ByteTells(chip', drv.call, i, b[i])
    BY <2>1, <2>2, ReadOn
  <2>3. CASE /\ drv.k # drv.plan[1].n /\ CallOf(drv') /\ drv'.k = drv.k + 1
             /\ drv'.buf = Append(drv.buf, Answer)
             /\ chip'.reg = chip.reg /\ chip'.at = chip.at + 1 /\ out' = out /\ seen' = seen
    <3>1. Reads'
      <4> SUFFICES ASSUME Asking
                   PROVE  /\ drv'.plan = <<ReadOf(drv.call)>> /\ drv'.k \in 0..ReadOf(drv.call).n
                          /\ chip'.reg = ReadOf(drv.call).reg /\ chip'.at = drv'.k
                          /\ IsSeq(drv'.buf) /\ Len(drv'.buf) = drv'.k - 1
                          /\ \A i \in 1..(drv'.k - 1) : ByteTells(chip', drv.call, i, drv'.buf[i])
        <5>1. drv'.call = drv.call /\ ReadOf(drv.call)' = ReadOf(drv.call)
          BY <2>1, <2>3 DEF CallOf, ReadOf
        <5> QED
          BY <2>3, <5>1 DEF Reads, Asking
      <4>1. /\ drv.k \in 0..ReadOf(drv.call).n /\ chip.reg = ReadOf(drv.call).reg /\ chip.at = drv.k
        BY <1>1, <2>1 DEF Reads
      <4>2. drv.k \in Nat /\ drv'.k - 1 = drv.k /\ drv'.k \in 0..ReadOf(drv.call).n
        BY <1>2, <2>3, <4>1
      <4>3. drv'.plan = <<ReadOf(drv.call)>>
        BY <1>2, <2>3 DEF CallOf
      <4> QED
        BY <2>2, <2>3, <4>1, <4>2, <4>3
    <3> QED
      BY <2>1, <2>3, <3>1, HostReads
  <2>4. CASE /\ drv.k = drv.plan[1].n
             /\ \E h : CallOf(h) /\ AfterOp(h) /\ (h.ok => h.buf = Append(drv.buf, Answer))
    <3>1. PICK h : CallOf(h) /\ AfterOp(h) /\ (h.ok => h.buf = Append(drv.buf, Answer))
      BY <2>4
    <3>2. Advanced(h)
      BY <2>1, Unwritten
    <3>3. Answered(h)
      BY <1>2, <2>2, <2>4, <3>1 DEF Answered
    <3> QED
      BY <2>1, <3>1, <3>2, <3>3, HostOperates
  <2> QED
    BY <1>1, <1>4, <2>3, <2>4, ByteStep
<1>5. CASE WriteBlock
  <2>1. conf' = conf /\ drv.call # "idle" /\ drv.plan[1].do = "write"
    BY <1>1, <1>5, BlockStep
  <2>2. ~Asking
    BY <1>2, <2>1
  <2>3. \A h : Answered(h)
    BY <2>2 DEF Answered
  <2>4. CASE chip' = chip /\ \E h : CallOf(h) /\ AfterOp(h) /\ ~h.ok
    <3>1. PICK h : CallOf(h) /\ AfterOp(h) /\ ~h.ok
      BY <2>4
    <3>2. Advanced(h)
      <4>1. Untouched
        BY <2>4 DEF Untouched
      <4> QED
        BY <2>1, <3>1, <4>1, Unwritten
    <3> QED
      BY <2>1, <2>3, <3>1, <3>2, HostOperates
  <2>5. CASE chip' = AfterBlock(drv.plan[1]) /\ \E h : CallOf(h) /\ AfterOp(h) /\ h.ok
    <3>1. PICK h : CallOf(h) /\ AfterOp(h) /\ h.ok
      BY <2>5
    <3>2. Advanced(h)
      BY <2>1, <2>5, <3>1, BlockDone
    <3> QED
      BY <2>1, <2>3, <3>1, <3>2, HostOperates
  <2> QED
    BY <1>1, <1>5, <2>4, <2>5, BlockStep
<1> QED
  BY <1>3, <1>4, <1>5

(* Failures that are forgotten with the next byte are left out: every failing *)
(* transfer is the last of its operation.                                     *)
NoneHidden == \A c \in CommConf : ~c.hidden

LEMMA HostKept == NoneHidden /\ HostInv /\ [Next]_device => HostInv'
<1> SUFFICES ASSUME NoneHidden, HostInv, [Next]_device, Is("comm")' PROVE HostGood'
  BY DEF HostInv
<1>1. conf' = conf /\ Is("comm")
  BY Steps DEF Is
<1>2. HostGood
  BY <1>1 DEF HostInv
<1>3. CommNext \/ Taken \/ UNCHANGED device
  BY <1>1, Steps DEF Is
<1>4. /\ CommForm /\ Plans /\ Reads /\ Sets /\ Free /\ Loads /\ Filled /\ SetsStand
      /\ conf \in CommConf
  BY <1>2 DEF HostGood, CommForm
<1>5. ~conf.hidden
  BY <1>4 DEF NoneHidden
<1>6. \A call : ReadOf(call)' = ReadOf(call)
  BY <1>1 DEF ReadOf
<1>7. \A v : ControlBytes(v)' = ControlBytes(v)
  BY <1>1 DEF ControlBytes
<1>8. ASSUME drv' = drv, drv.call # "idle" => out' = out, CommChip(chip'),
             chip'.mem.version = chip.mem.version, chip'.mem.ext = chip.mem.ext,
             chip'.mem.nb = chip.mem.nb, chip'.mem.nb_header = chip.mem.nb_header,
             chip'.full => chip.full, chip'.reg = chip.reg, chip'.at = chip.at,
             seen'.version = seen.version, seen'.ext = seen.ext,
             "ready" \in seen'.asked => "ready" \in seen.asked,
             DOMAIN seen' = {"asked", "taken", "version", "ext"},
             \/ seen'.taken = seen.taken
             \/ chip.full /\ seen'.taken = [header |-> chip.mem.nb_header, bytes |-> chip.mem.nb],
             out' = out \/ out'.call \notin {"version_get", "ext_get"}
      PROVE  HostGood'
  <2>1. CommForm'
    <3>1. CommChip(chip)'
      BY <1>1, <1>8 DEF CommChip
    <3>2. CommDrv(drv)' /\ (conf \in CommConf)' /\ (DOMAIN seen = {"asked", "taken", "version", "ext"})'
      BY <1>1, <1>4, <1>8 DEF CommForm, CommDrv
    <3> QED
      BY <3>1, <3>2 DEF CommForm
  <2>2. Plans'
    <3>1. PICK c, a, p : c = drv.call /\ a = drv.arg /\ p = drv.plan
      OBVIOUS
    <3>2. c # "idle" => Sound(c, a, p)'
      <4> SUFFICES ASSUME c # "idle" PROVE Sound(c, a, p)'
        OBVIOUS
      <4>1. Sound(c, a, p)
        BY <1>4, <3>1 DEF Plans
      <4> QED
        BY <1>1, <4>1, SoundStill
    <3>3. drv'.call = c /\ drv'.arg = a /\ drv'.plan = p
      BY <1>8, <3>1
    <3> QED
      BY <1>4, <1>8, <3>1, <3>2, <3>3 DEF Plans
  <2>3. Reads'
    <3> SUFFICES ASSUME Asking
                 PROVE  /\ drv.plan = <<ReadOf(drv.call)>> /\ drv.k \in 0..ReadOf(drv.call).n
                        /\ drv.k # 0 => /\ chip.reg = ReadOf(drv.call).reg /\ chip.at = drv.k
                                        /\ IsSeq(drv.buf) /\ Len(drv.buf) = drv.k - 1
                                        /\ \A i \in 1..(drv.k - 1) : ByteTells(chip', drv.call, i, drv.buf[i])
      <4>1. drv'.call = drv.call /\ ReadOf(drv.call)' = ReadOf(drv.call)
        BY <1>1, <1>8 DEF ReadOf
      <4> QED
        BY <1>8, <4>1 DEF Reads, Asking
    <3>1. \A i : ByteTells(chip, drv.call, i, drv.buf[i]) => ByteTells(chip', drv.call, i, drv.buf[i])
      BY <1>8 DEF ByteTells
    <3> QED
      BY <1>4, <3>1 DEF Reads
  <2>4. Sets'
    <3>1. ControlBytes(drv.arg)' = ControlBytes(drv.arg)
      BY <1>1, <1>8 DEF ControlBytes
    <3> QED
      BY <1>1, <1>4, <1>8, <3>1 DEF Sets
  <2>5. Free' /\ Loads' /\ Filled'
    BY <1>1, <1>4, <1>8 DEF Free, Loads, Filled
  <2>6. SetsStand'
    <3>1. CASE out' = out
      BY <1>1, <1>4, <1>8, <3>1 DEF SetsStand, Is
    <3>2. CASE out'.call \notin {"version_get", "ext_get"}
      BY <3>2 DEF SetsStand
    <3> QED
      BY <1>8, <3>1, <3>2
  <2> QED
    BY <2>1, <2>2, <2>3, <2>4, <2>5, <2>6 DEF HostGood
<1>9. CommChip(chip) /\ DOMAIN seen = {"asked", "taken", "version", "ext"}
  BY <1>4 DEF CommForm
<1>10. drv.call # "idle" => out.call = "none"
  BY <1>4 DEF Plans
<1>11. CASE UNCHANGED device
  BY <1>8, <1>9, <1>11 DEF device
<1>12. CASE Taken
  BY <1>8, <1>9, <1>10, <1>12 DEF Taken, NoCall
<1>13. CASE CommApiRefuses
  BY <1>8, <1>9, <1>13 DEF CommApiRefuses, OnComm, Refuse, Outcome
<1>14. CASE IsMsgPresent
  BY <1>8, <1>9, <1>14 DEF IsMsgPresent, OnComm, Outcome
<1>15. CASE ControllerPuts
  <2>1. PICK m \in conf.sent :
          /\ chip' = [chip EXCEPT !.present = TRUE, !.mem.header = Header(m),
                                  !.mem.sb = Overlay(@, 1, m)]
          /\ drv' = drv /\ out' = out /\ seen' = seen
    BY <1>15 DEF ControllerPuts, World
  <2>2. PICK e, s : e = Header(m) /\ s = Overlay(chip.mem.sb, 1, m)
    OBVIOUS
  <2>3. IsSeq(e) /\ Len(e) = 4
    BY <2>2, HeaderForm
  <2>4. IsSeq(s) /\ Len(s) = Len(chip.mem.sb)
    <3>1. IsSeq(chip.mem.sb)
      BY <1>9 DEF CommChip
    <3>2. PICK r, n : r = chip.mem.sb /\ n = Len(chip.mem.sb)
      OBVIOUS
    <3>3. s = [i \in 1..n |-> s[i]] /\ n \in Nat
      BY <2>2, <3>1, <3>2, SeqForm DEF Overlay
    <3> QED
      BY <3>2, <3>3, FcnIsSeq
  <2>5. /\ chip' = [chip EXCEPT !.present = TRUE, !.mem.header = e, !.mem.sb = s]
    BY <2>1, <2>2
  <2>6. /\ DOMAIN chip' = DOMAIN chip /\ chip'.full = chip.full /\ chip'.reg = chip.reg
        /\ chip'.at = chip.at /\ DOMAIN chip'.mem = DOMAIN chip.mem
        /\ chip'.mem.header = e /\ chip'.mem.sb = s
        /\ \A d \in Drawers \ {"header", "sb"} : chip'.mem[d] = chip.mem[d]
    BY <1>9, <2>5 DEF CommChip, Drawers
  <2>7. CommChip(chip')
    BY <1>9, <2>3, <2>4, <2>6 DEF CommChip, Drawers
  <2> QED
    BY <1>8, <1>9, <2>1, <2>6, <2>7 DEF Drawers
<1>16. CASE ControllerTakes
  <2>1. /\ chip' = [chip EXCEPT !.full = FALSE] /\ drv' = drv /\ out' = out /\ chip.full
        /\ seen' = [seen EXCEPT !.taken = [header |-> chip.mem.nb_header, bytes |-> chip.mem.nb]]
    BY <1>16 DEF ControllerTakes, World
  <2>2. CommChip(chip')
    BY <1>9, <2>1 DEF CommChip
  <2> QED
    BY <1>8, <1>9, <2>1, <2>2 DEF CommChip
<1>17. CASE ControllerResets
  <2>1. PICK e, s : e = [i \in 1..4 |-> Erased] /\ s = [i \in 1..conf.room |-> Erased]
    OBVIOUS
  <2>2. IsSeq(e) /\ Len(e) = 4 /\ IsSeq(s) /\ Len(s) = conf.room
    BY <1>4, <2>1, CommConfigured, WipedForm
  <2>3. /\ chip' = [chip EXCEPT !.on = FALSE, !.alarm = TRUE, !.present = FALSE, !.full = FALSE,
                               !.mem.header = e, !.mem.sb = s]
        /\ drv' = drv /\ out' = out /\ seen' = seen
    BY <1>17, <2>1 DEF ControllerResets, World
  <2>4. /\ DOMAIN chip' = DOMAIN chip /\ chip'.full = FALSE /\ chip'.reg = chip.reg
        /\ chip'.at = chip.at /\ DOMAIN chip'.mem = DOMAIN chip.mem
        /\ chip'.mem.header = e /\ chip'.mem.sb = s
        /\ \A d \in Drawers \ {"header", "sb"} : chip'.mem[d] = chip.mem[d]
    BY <1>9, <2>3 DEF CommChip, Drawers
  <2>5. CommChip(chip')
    BY <1>9, <2>2, <2>4 DEF CommChip, Drawers
  <2> QED
    BY <1>8, <1>9, <2>3, <2>4, <2>5 DEF Drawers
<1>18. CASE WriteOffset \/ RecvByte \/ WriteBlock
  BY <1>2, <1>5, <1>18, HostMoves
<1>19. CASE \/ MsgRead \/ MsgWrite \/ PlatformInfoGet \/ HostSwVersionGet \/ HostSwVersionSet
            \/ HostTemperatureSet \/ HostAmbientTemperatureSet \/ MessagingEnable
            \/ FlushMsgBufferCall \/ IsWriteBufferReady \/ ExtCtrlGet \/ ExtCtrlSet
  BY <1>2, <1>19, HostStartsCalls
<1> QED
  BY <1>3, <1>11, <1>12, <1>13, <1>14, <1>15, <1>16, <1>17, <1>18, <1>19 DEF CommNext

(* A buffer that sdi_comm_dev_is_write_buffer_ready calls ready holds nothing the *)
(* controller has yet to take, and a version or a control value that is read back *)
(* is the one of the last set that succeeded, if none failed since: for every     *)
(* host, every message and every step of the controller between two bytes, as     *)
(* long as the last transfer of an operation is the one that fails                *)
(* (sdi_comm_dev_driver.c).                                                       *)
THEOREM HostSafety ==
  ASSUME NoneHidden
  PROVE  Spec => []HostTold
<1>1. HostInv => HostTold
  BY DEF HostInv, HostGood, Free, HostTold, ReadyHonest, SetsStand
<1> QED
  BY <1>1, HostStarts, HostKept, PTL DEF Spec

--------------------------------------------------------------------------------
(* The mailbox from the controller. *)

Holds(m) ==
  /\ chip.mem.header = Header(m)
  /\ \A i \in 1..Len(m) : chip.mem.sb[i] = m[i]
Wiped ==
  /\ \A i \in 1..4 : chip.mem.header[i] = Erased
  /\ \A i \in 1..conf.room : chip.mem.sb[i] = Erased

(* Where a message is of which something was read: in its mailbox, or gone with *)
(* a reset, after which there is no other before the call ends.                 *)
There(m) == IF chip.present THEN Holds(m) ELSE ~chip.on /\ Wiped

Received(op) ==
  /\ drv.plan[1] = op /\ drv.k \in 0..op.n
  /\ drv.k # 0 => /\ chip.reg = op.reg /\ chip.at = drv.k
                  /\ drv.buf \in Bytes /\ Len(drv.buf) = drv.k - 1

(* A header of which the first bytes were read before the message was there, the *)
(* last ones after it was gone.                                                  *)
Torn(m, buf, last, gone) ==
  \A j \in 1..last :
    \/ buf[j] = Header(m)[j]
    \/ \A i \in 1..j : buf[i] = Erased
    \/ gone /\ \A i \in j..last : buf[i] = Erased
HeaderIn ==
  /\ drv.plan = ReadMailbox /\ Received(ReadOp("header", 4, All))
  /\ \/ ~chip.present /\ Wiped /\ \A i \in 1..(drv.k - 1) : drv.buf[i] = Erased
     \/ \E m \in conf.sent : There(m) /\ Torn(m, drv.buf, drv.k - 1, ~chip.present)

(* The header that goes before the bytes of a message: its size is the message's *)
(* own, or all that was received before the message was there.                   *)
Heads(m, h) ==
  /\ h \in Bytes /\ Len(h) = 4 /\ h[4] = 0
  /\ \/ h[3] = Len(m) /\ h[1] \in {Erased, Header(m)[1]} /\ h[2] \in {Erased, Header(m)[2]}
     \/ h[1] = Erased /\ h[2] = Erased /\ h[3] = Erased
BytesIn ==
  LET op == ReadOp("sb", HeaderSize(drv.arg), All)
  IN /\ drv.plan = <<op>> \o PackageReadAndVerified /\ Received(op)
     /\ \E m \in conf.sent :
          /\ There(m) /\ Heads(m, drv.arg)
          /\ \A i \in 1..(drv.k - 1) :
               i <= Len(m) => drv.buf[i] = Erased \/ drv.buf[i] = m[i]
Verifying ==
  /\ drv.plan \in {PackageReadAndVerified, <<WriteOp("ctl", 1, <<"verified">>, All)>>}
  /\ drv.got \in conf.sent /\ There(drv.got)

MessageIn == chip.present => \E m \in conf.sent : Holds(m)
Present == "present" \in seen.asked => drv.call # "msg_read" /\ (chip.present \/ Wiped)
Stages == drv.call = "msg_read" => HeaderIn \/ BytesIn \/ Verifying

Lettered == chip.mem.header \in Bytes /\ chip.mem.sb \in Bytes

MailInv == Is("comm") => Lettered /\ MessageIn /\ Present /\ Stages /\ NoneLost /\ DeliveredWhole

(* The checksum of a message of up to 255 bytes tells whether some of its bytes *)
(* are missing.                                                                 *)
LEMMA ChecksumForm ==
  ASSUME NEW b \in Bytes, Len(b) <= 255
  PROVE  /\ SumSeq(b) \in Nat /\ SumSeq(b) <= 255 * Len(b)
         /\ Checksum(b) = (Word16 - (SumSeq(b) + Len(b))) % Word16
         /\ Header(b)[3] = Len(b) /\ Header(b)[4] = 0
         /\ Header(b)[1] = Checksum(b) % 256 /\ Header(b)[2] = Checksum(b) \div 256
<1>1. PICK n \in Nat : n = Len(b) /\ n <= 255
  BY ByteSeq
<1>2. SumSeq(b) \in 0..(255 * Len(b))
  <2>1. \A i \in 1..Len(b) : b[i] <= b[i]
    BY ByteSeq DEF IsByte
  <2> QED
    BY <1>1, <2>1, SumCompare
<1>3. PICK s \in Nat : s = SumSeq(b) /\ s <= 255 * n
  BY <1>1, <1>2
<1>4. n % 256 = n /\ n \div 256 = 0
  BY <1>1
<1>5. s + n < Word16
  BY <1>1, <1>3 DEF Word16
<1>6. Checksum(b) = (Word16 - ((s + n + 0) % Word16)) % Word16
  <2>1. Checksum(b) = (Word16 - ((SumSeq(b) + (Len(b) % 256) + (Len(b) \div 256)) % Word16)) % Word16
    BY Zenon DEF Checksum
  <2>2. SumSeq(b) = s /\ Len(b) % 256 = n /\ Len(b) \div 256 = 0
    BY <1>1, <1>3, <1>4
  <2> QED
    BY <2>1, <2>2, Zenon
<1>7. s + n + 0 = s + n /\ (s + n) % Word16 = s + n
  BY <1>5 DEF Word16
<1>8. Checksum(b) = (Word16 - (s + n)) % Word16
  BY <1>6, <1>7, Zenon
<1>9. /\ Header(b)[3] = n % 256 /\ Header(b)[4] = n \div 256
      /\ Header(b)[1] = Checksum(b) % 256 /\ Header(b)[2] = Checksum(b) \div 256
  BY <1>1, Four DEF Header
<1>10. Header(b)[3] = Len(b) /\ Header(b)[4] = 0
  BY <1>1, <1>4, <1>9, Zenon
<1>11. Checksum(b) = (Word16 - (SumSeq(b) + Len(b))) % Word16
  BY <1>1, <1>3, <1>8, Zenon
<1>12. SumSeq(b) \in Nat /\ SumSeq(b) <= 255 * Len(b)
  BY <1>1, <1>3, Zenon
<1> QED
  BY <1>9, <1>10, <1>11, <1>12, Zenon

LEMMA ChecksTell ==
  ASSUME NEW m \in Bytes, Len(m) <= 255, NEW h, Heads(m, h), NEW b \in Bytes, Len(b) = HeaderSize(h),
         \A i \in 1..Len(b) : i <= Len(m) => b[i] = Erased \/ b[i] = m[i], Checks(b, h)
  PROVE  b = m
<1>1. PICK n \in Nat, s \in Nat : n = Len(m) /\ n <= 255 /\ s = SumSeq(m) /\ s <= 255 * n
  BY ByteSeq, ChecksumForm
<1>2. h[4] = 0 /\ IsByte(h[1]) /\ IsByte(h[2]) /\ IsByte(h[3])
  <2>1. h \in Bytes /\ Len(h) = 4 /\ h[4] = 0
    BY DEF Heads
  <2>2. \A i \in 1..4 : IsByte(h[i])
    BY <2>1, ByteSeq
  <2> QED
    BY <2>1, <2>2
<1>3. Len(b) = h[3]
  BY <1>2 DEF HeaderSize, IsByte
<1>4. PICK z \in Nat, t \in Nat : z = Len(b) /\ z <= 255 /\ t = SumSeq(b) /\ t <= 255 * z
  BY <1>2, <1>3, ByteSeq, ChecksumForm DEF IsByte
<1>5. /\ (Word16 - (t + z)) % Word16 = h[1] + 256 * h[2]
      /\ Header(m)[1] = ((Word16 - (s + n)) % Word16) % 256
      /\ Header(m)[2] = ((Word16 - (s + n)) % Word16) \div 256
  BY <1>1, <1>4, ChecksumForm DEF Checks
<1>6. CASE h[3] = Len(m) /\ h[1] \in {Erased, Header(m)[1]} /\ h[2] \in {Erased, Header(m)[2]}
  <2>1. Len(b) = Len(m) /\ z = n
    BY <1>1, <1>3, <1>4, <1>6
  <2>2. CASE n = 0
    <3>1. IsSeq(b) /\ IsSeq(m) /\ Len(b) = 0 /\ Len(m) = 0
      BY <1>1, <2>1, <2>2, BytesAreSeq
    <3> QED
      BY <3>1, SeqForm
  <2>3. CASE n # 0
    <3>1. \A i \in 1..Len(m) : m[i] <= b[i]
      <4> SUFFICES ASSUME NEW i \in 1..Len(m) PROVE m[i] <= b[i]
        OBVIOUS
      <4>1. IsByte(m[i]) /\ (b[i] = Erased \/ b[i] = m[i])
        BY <1>1, <2>1, ByteSeq
      <4> QED
        BY <4>1 DEF IsByte, Erased
    <3>2. s <= t /\ (s = t => m = b)
      BY <1>1, <1>4, <2>1, <3>1, SumCompare
    <3>3. PICK c \in Nat : c = Word16 - (s + n) /\ c < Word16
      BY <1>1, <2>3 DEF Word16
    <3>4. PICK d \in Nat : d = Word16 - (t + z) /\ d < Word16
      BY <1>4, <2>1, <2>3 DEF Word16
    <3>5. c % Word16 = c /\ d % Word16 = d
      BY <3>3, <3>4 DEF Word16
    <3>6. PICK q \in Nat, r \in Nat : q = c \div 256 /\ r = c % 256 /\ c = 256 * q + r /\ q <= 255 /\ r <= 255
      BY <3>3 DEF Word16
    <3>7. d = h[1] + 256 * h[2] /\ Header(m)[1] = r /\ Header(m)[2] = q
      BY <1>5, <3>3, <3>4, <3>5, <3>6
    <3>8. h[1] >= r /\ h[2] >= q
      BY <1>6, <3>6, <3>7 DEF Erased
    <3>9. d >= c
      BY <1>2, <3>6, <3>7, <3>8 DEF IsByte
    <3>10. t <= s
      BY <2>1, <3>3, <3>4, <3>9 DEF Word16
    <3> QED
      BY <3>2, <3>10
  <2> QED
    BY <2>2, <2>3
<1>7. CASE h[1] = Erased /\ h[2] = Erased /\ h[3] = Erased
  <2>1. z = 255
    BY <1>3, <1>4, <1>7 DEF Erased
  <2>2. (Word16 - (t + z)) % Word16 = Word16 - 1
    BY <1>5, <1>7 DEF Erased, Word16
  <2>3. PICK d \in Nat : d = Word16 - (t + z) /\ d < Word16 - 1
    BY <1>4, <2>1 DEF Word16
  <2>4. d % Word16 = d
    BY <2>3 DEF Word16
  <2> QED
    BY <2>2, <2>3, <2>4 DEF Word16
<1> QED
  BY <1>6, <1>7 DEF Heads

(* Steps that leave the mailbox as it is. *)
MailGood == Lettered /\ MessageIn /\ Present /\ Stages /\ NoneLost /\ DeliveredWhole
SameMail ==
  /\ conf' = conf /\ chip'.present = chip.present /\ chip'.lost = chip.lost
  /\ chip'.mem.header = chip.mem.header /\ chip'.mem.sb = chip.mem.sb

LEMMA MailStands ==
  ASSUME SameMail
  PROVE  /\ \A m : Holds(m)' = Holds(m)
         /\ Wiped' = Wiped
         /\ chip'.on = chip.on => \A m : There(m)' = There(m)
         /\ Lettered' = Lettered /\ MessageIn' = MessageIn
         /\ NoneLost' = NoneLost
<1>1. /\ conf' = conf /\ chip'.present = chip.present /\ chip'.lost = chip.lost
      /\ chip'.mem.header = chip.mem.header /\ chip'.mem.sb = chip.mem.sb
  BY DEF SameMail
<1>2. \A m : Holds(m)' = Holds(m)
  BY <1>1 DEF Holds
<1>3. Wiped' = Wiped
  BY <1>1 DEF Wiped
<1>4. chip'.on = chip.on => \A m : There(m)' = There(m)
  BY <1>1, <1>2, <1>3 DEF There
<1>5. Lettered' = Lettered
  BY <1>1 DEF Lettered
<1>6. MessageIn' = MessageIn
  BY <1>1, <1>2 DEF MessageIn
<1>7. NoneLost' = NoneLost
  BY <1>1 DEF NoneLost, Is
<1> QED
  BY <1>2, <1>3, <1>4, <1>5, <1>6, <1>7

(* After which no message is being read. *)
LEMMA MailBeyond ==
  ASSUME MailGood, SameMail, drv'.call # "msg_read",
         "present" \in seen'.asked => "present" \in seen.asked \/ chip.present,
         out' = out \/ out'.call # "msg_read" \/ out'.res # "ok" \/ out'.val \in conf.sent
  PROVE  MailGood'
<1>1. Lettered /\ MessageIn /\ Present /\ Stages /\ NoneLost /\ DeliveredWhole
  BY DEF MailGood
<1>2. conf' = conf /\ chip'.present = chip.present /\ Wiped' = Wiped
  BY MailStands DEF SameMail
<1>3. Lettered' /\ MessageIn' /\ NoneLost'
  BY <1>1, MailStands
<1>4. Present'
  BY <1>1, <1>2 DEF Present
<1>5. Stages'
  BY DEF Stages
<1>6. DeliveredWhole'
  BY <1>1, <1>2 DEF DeliveredWhole, Is
<1> QED
  BY <1>3, <1>4, <1>5, <1>6 DEF MailGood

(* While a message is being read. *)
LEMMA MailWithin ==
  ASSUME MailGood, SameMail, drv.call = "msg_read", out' = out, seen'.asked = seen.asked,
         HeaderIn' \/ BytesIn' \/ Verifying'
  PROVE  MailGood'
<1>1. Lettered /\ MessageIn /\ Present /\ Stages /\ NoneLost /\ DeliveredWhole
  BY DEF MailGood
<1>2. Lettered' /\ MessageIn' /\ NoneLost' /\ conf' = conf
  BY <1>1, MailStands DEF SameMail
<1>3. Present'
  BY <1>1 DEF Present
<1>4. Stages'
  BY DEF Stages
<1>5. DeliveredWhole'
  BY <1>1, <1>2 DEF DeliveredWhole, Is
<1> QED
  BY <1>2, <1>3, <1>4, <1>5 DEF MailGood

(* Steps of the controller and of the caller beside the call. *)
LEMMA MailBeside ==
  ASSUME MailGood, SameMail, chip'.on = chip.on, chip'.reg = chip.reg, chip'.at = chip.at,
         drv' = drv, out' = out, seen'.asked = seen.asked
  PROVE  MailGood'
<1>1. CASE drv.call # "msg_read"
  BY <1>1, MailBeyond
<1>2. CASE drv.call = "msg_read"
  <2>1. \A m : There(m)' = There(m)
    BY MailStands
  <2>2. conf' = conf /\ chip'.present = chip.present /\ Wiped' = Wiped
    BY MailStands DEF SameMail
  <2>3. \A op : Received(op)' = Received(op)
    BY DEF Received
  <2>4. HeaderIn' = HeaderIn
    BY <2>1, <2>2, <2>3 DEF HeaderIn
  <2>5. BytesIn' = BytesIn
    BY <2>1, <2>2, <2>3 DEF BytesIn
  <2>6. Verifying' = Verifying
    BY <2>1, <2>2 DEF Verifying
  <2>7. HeaderIn \/ BytesIn \/ Verifying
    BY <1>2 DEF MailGood, Stages
  <2> QED
    BY <1>2, <2>4, <2>5, <2>6, <2>7, MailWithin
<1> QED
  BY <1>1, <1>2

(* The ends of the operations of a read. *)
LEMMA FailsOut ==
  ASSUME NEW h, CommDrv(h), IsSeq(h.plan), Len(h.plan) # 0, h.plan[1].skip = All,
         h.plan[1].reg = "header" => h.plan[1].do = "read", ~h.ok, AfterOp(h)
  PROVE  EndFailed(h)
<1>1. Ended(h) \/ GoesOn(h) \/ Announced(h)
  BY OpEnds
<1> QED
  BY <1>1 DEF Ended, GoesOn, Announced

LEMMA CallFails ==
  ASSUME MailGood, SameMail, NEW h, EndFailed(h)
  PROVE  MailGood'
<1>1. /\ out' = [call |-> h.call, res |-> "failed", val |-> 0] /\ drv' = AtRest
      /\ seen' = AfterFailed(h)
  BY DEF EndFailed, Outcome
<1>2. drv'.call # "msg_read" /\ out'.res # "ok"
  BY <1>1 DEF AtRest
<1>3. seen'.asked = seen.asked
  BY <1>1 DEF AfterFailed
<1> QED
  BY <1>2, <1>3, MailBeyond

LEMMA HeaderEnds ==
  ASSUME NEW h, CommDrv(h), IsSeq(h.plan), h.plan[1] = ReadOp("header", 4, All), h.ok,
         HeaderSize(h.buf) \in Nat, AfterOp(h)
  PROVE  EndFailed(h) \/ Announced(h)
<1> DEFINE g == [h EXCEPT !.got = h.buf]
<1>1. /\ h.plan[1].reg = "header" /\ h.plan[1].do = "read" /\ h.plan[1].skip = All
      /\ Keeps(h.plan[1])
  BY DEF ReadOp, Keeps
<1>2. CommDrv(g) /\ g.call = h.call /\ g.got = h.buf /\ g.plan = h.plan /\ g.ok
  BY DEF CommDrv
<1>3. HeaderSize(h.buf) > BufferMaxSize \/ HeaderSize(h.buf) <= BufferMaxSize
  BY DEF BufferMaxSize
<1>4. CASE HeaderSize(h.buf) > BufferMaxSize
  <2>1. EndFailed(g)
    <3>1. ~(HeaderSize(h.buf) <= BufferMaxSize)
      BY <1>4 DEF BufferMaxSize
    <3> HIDE DEF g
    <3> QED
      BY <1>1, <1>2, <1>4, <3>1 DEF AfterOp, g
  <2> QED
    BY <1>2, <2>1 DEF EndFailed, AfterFailed
<1>5. CASE HeaderSize(h.buf) <= BufferMaxSize
  <2> DEFINE z == [g EXCEPT !.arg = h.buf]
             t == <<ReadOp("sb", HeaderSize(h.buf), All)>> \o Drop(h.plan, 1)
  <2>1. Continue(z, t)
    BY <1>1, <1>2, <1>5 DEF AfterOp
  <2>2. CommDrv(z) /\ z.call = h.call /\ z.got = h.buf /\ z.arg = h.buf
    BY DEF CommDrv
  <2>3. t # <<>>
    <3>1. PICK e, d : e = <<ReadOp("sb", HeaderSize(h.buf), All)>> /\ d = Drop(h.plan, 1)
      OBVIOUS
    <3>2. IsSeq(e) /\ Len(e) = 1 /\ IsSeq(d)
      BY <3>1, Tuples, DropForm
    <3>3. IsSeq(e \o d) /\ Len(e \o d) = Len(e) + Len(d) /\ Len(d) \in Nat
      BY ONLY ZenonT(30), <3>2, ConcatForm, SeqForm
    <3> QED
      BY <3>1, <3>2, <3>3, SeqForm
  <2> HIDE DEF z, t, g
  <2>4. /\ CommDrv(drv') /\ out' = out /\ seen' = seen /\ drv'.call = z.call /\ drv'.k = 0
        /\ drv'.got = z.got /\ drv'.arg = z.arg /\ drv'.plan = t
    BY <2>1, <2>2, <2>3, Continued
  <2> QED
    BY <1>1, <1>5, <2>2, <2>4 DEF Announced, t
<1> QED
  BY <1>3, <1>4, <1>5

LEMMA BytesEnd ==
  ASSUME NEW h, CommDrv(h), IsSeq(h.plan), Len(h.plan) \in Nat, Len(h.plan) > 1,
         NEW n, h.plan[1] = ReadOp("sb", n, All), h.ok, AfterOp(h)
  PROVE  \/ EndFailed(h)
         \/ /\ Checks(h.buf, h.arg) /\ CommDrv(drv') /\ out' = out /\ seen' = seen
            /\ drv'.call = h.call /\ drv'.k = 0 /\ drv'.got = h.buf
            /\ drv'.plan = Drop(h.plan, 1)
<1> DEFINE g == [h EXCEPT !.got = h.buf]
<1>1. /\ h.plan[1].reg = "sb" /\ h.plan[1].do = "read" /\ h.plan[1].skip = All
      /\ Keeps(h.plan[1])
  BY DEF ReadOp, Keeps
<1>2. /\ CommDrv(g) /\ g.call = h.call /\ g.got = h.buf /\ g.plan = h.plan /\ g.ok
      /\ g.arg = h.arg
  BY DEF CommDrv
<1>3. CASE ~Checks(h.buf, h.arg)
  <2>1. EndFailed(g)
    <3> HIDE DEF g
    <3> QED
      BY <1>1, <1>2, <1>3 DEF AfterOp, g
  <2> QED
    BY <1>2, <2>1 DEF EndFailed, AfterFailed
<1>4. CASE Checks(h.buf, h.arg)
  <2>1. Continue(g, Drop(h.plan, 1))
    <3> HIDE DEF g
    <3> QED
      BY <1>1, <1>2, <1>4 DEF AfterOp, g
  <2>2. Drop(h.plan, 1) # <<>>
    BY DropForm
  <2> HIDE DEF g
  <2> QED
    BY <1>2, <1>4, <2>1, <2>2, Continued
<1> QED
  BY <1>3, <1>4

(* The bytes of the mailbox, one by one. *)
LEMMA AppendBytes ==
  ASSUME NEW b \in Bytes, NEW e \in Byte
  PROVE  /\ Append(b, e) \in Bytes /\ Len(Append(b, e)) = Len(b) + 1
         /\ \A i \in 1..Len(b) : Append(b, e)[i] = b[i]
         /\ Append(b, e)[Len(b) + 1] = e
<1>1. IsSeq(b)
  BY BytesAreSeq
<1>2. Append(b, e) \in Bytes
  BY AppendProperties DEF Bytes
<1> QED
  BY <1>1, <1>2, AppendForm

LEMMA MailAnswer ==
  ASSUME CommForm, Lettered
  PROVE  /\ chip.reg = "header" /\ chip.at \in 1..4 =>
              Answer = chip.mem.header[chip.at] /\ Answer \in Byte
         /\ chip.reg = "sb" /\ chip.at \in Nat \ {0} =>
              /\ Answer = IF chip.at > conf.room THEN Erased ELSE chip.mem.sb[chip.at]
              /\ Answer \in Byte
<1>1. Len(chip.mem.header) = 4 /\ Len(chip.mem.sb) = conf.room /\ conf.room \in Nat
  BY CommConfigured DEF CommForm, CommChip
<1>2. /\ \A i \in 1..4 : IsByte(chip.mem.header[i])
      /\ \A i \in 1..conf.room : IsByte(chip.mem.sb[i])
  BY <1>1, ByteSeq DEF Lettered
<1>3. CASE chip.reg = "header" /\ chip.at \in 1..4
  <2>1. Answer = chip.mem.header[chip.at]
    BY <1>1, <1>3 DEF Answer
  <2> QED
    BY <1>2, <1>3, <2>1, ByteIs
<1>4. CASE chip.reg = "sb" /\ chip.at \in Nat \ {0}
  <2>1. Answer = IF chip.at > conf.room THEN Erased ELSE chip.mem.sb[chip.at]
    BY <1>1, <1>4 DEF Answer
  <2>2. IsByte(Answer)
    <3>1. IsByte(Erased)
      BY DEF IsByte, Erased
    <3>2. chip.at > conf.room \/ chip.at \in 1..conf.room
      BY <1>1, <1>4
    <3> QED
      BY <1>2, <2>1, <3>1, <3>2
  <2> QED
    BY <1>4, <2>1, <2>2, ByteIs
<1> QED
  BY <1>3, <1>4

LEMMA HeaderByte ==
  ASSUME CommForm, Lettered, HeaderIn, drv.k # 0
  PROVE  LET b == Append(drv.buf, Answer)
         IN /\ drv.k \in 1..4 /\ b \in Bytes /\ Len(b) = drv.k
            /\ \/ ~chip.present /\ Wiped /\ \A i \in 1..drv.k : b[i] = Erased
               \/ \E m \in conf.sent : There(m) /\ Torn(m, b, drv.k, ~chip.present)
<1>1. /\ drv.k \in 1..4 /\ chip.reg = "header" /\ chip.at = drv.k
      /\ drv.buf \in Bytes /\ Len(drv.buf) = drv.k - 1
  BY DEF HeaderIn, Received, ReadOp
<1>2. PICK k \in 1..4, s \in Bytes, e \in Byte :
        k = drv.k /\ s = drv.buf /\ e = Answer /\ e = chip.mem.header[k] /\ Len(s) = k - 1
  BY <1>1, MailAnswer
<1>3. PICK b \in Bytes : b = Append(s, e) /\ Len(b) = k /\ b[k] = e /\ \A i \in 1..(k - 1) : b[i] = s[i]
  <2>1. PICK b : b = Append(s, e)
    OBVIOUS
  <2>2. /\ b \in Bytes /\ Len(b) = Len(s) + 1
        /\ \A i \in 1..Len(s) : b[i] = s[i]
        /\ b[Len(s) + 1] = e
    BY ONLY SMTT(30), <1>2, <2>1, AppendBytes
  <2>3. Len(s) = k - 1 /\ Len(s) + 1 = k
    BY <1>2
  <2> QED
    BY <2>1, <2>2, <2>3
<1>4. ASSUME NEW m \in conf.sent, There(m), Torn(m, s, k - 1, ~chip.present)
      PROVE  Torn(m, b, k, ~chip.present)
  <2> SUFFICES ASSUME NEW j \in 1..k
               PROVE  \/ b[j] = Header(m)[j]
                      \/ \A i \in 1..j : b[i] = Erased
                      \/ ~chip.present /\ \A i \in j..k : b[i] = Erased
    BY DEF Torn
  <2>1. chip.present => e = Header(m)[k]
    BY <1>2, <1>4 DEF There, Holds
  <2>2. ~chip.present => e = Erased
    BY <1>2, <1>4 DEF There, Wiped
  <2>3. CASE j = k
    BY <1>3, <2>1, <2>2, <2>3
  <2>4. CASE j \in 1..(k - 1)
    <3>1. \/ s[j] = Header(m)[j]
          \/ \A i \in 1..j : s[i] = Erased
          \/ ~chip.present /\ \A i \in j..(k - 1) : s[i] = Erased
      BY <1>4, <2>4 DEF Torn
    <3>2. CASE s[j] = Header(m)[j]
      BY <1>3, <2>4, <3>2
    <3>3. CASE \A i \in 1..j : s[i] = Erased
      BY <1>3, <2>4, <3>3
    <3>4. CASE ~chip.present /\ \A i \in j..(k - 1) : s[i] = Erased
      <4>1. \A i \in j..k : i = k \/ (i \in j..(k - 1) /\ i \in 1..(k - 1))
        BY <1>2, <2>4
      <4> QED
        BY <1>3, <2>2, <3>4, <4>1
    <3> QED
      BY <3>1, <3>2, <3>3, <3>4
  <2> QED
    BY <1>2, <2>3, <2>4
<1>5. \/ ~chip.present /\ Wiped /\ \A i \in 1..(k - 1) : s[i] = Erased
      \/ \E m \in conf.sent : There(m) /\ Torn(m, s, k - 1, ~chip.present)
  BY <1>2 DEF HeaderIn
<1>6. \/ ~chip.present /\ Wiped /\ \A i \in 1..k : b[i] = Erased
      \/ \E m \in conf.sent : There(m) /\ Torn(m, b, k, ~chip.present)
  <2>1. CASE ~chip.present /\ Wiped /\ \A i \in 1..(k - 1) : s[i] = Erased
    <3>1. e = Erased
      BY <1>2, <2>1 DEF Wiped
    <3> QED
      BY <1>3, <2>1, <3>1
  <2> QED
    BY <1>4, <1>5, <2>1
<1> QED
  BY <1>1, <1>2, <1>3, <1>6

(* The size of a header is beyond the buffer unless its message was there when *)
(* its last byte was read.                                                     *)
LEMMA HeaderWhole ==
  ASSUME NEW b \in Bytes, Len(b) = 4
  PROVE  /\ HeaderSize(b) \in Nat
         /\ (\A i \in 1..4 : b[i] = Erased) => ~(HeaderSize(b) <= BufferMaxSize)
         /\ \A m \in Bytes, gone \in BOOLEAN :
              Len(m) <= 255 /\ Torn(m, b, 4, gone) /\ HeaderSize(b) <= BufferMaxSize => Heads(m, b)
<1>1. IsByte(b[1]) /\ IsByte(b[2]) /\ IsByte(b[3]) /\ IsByte(b[4])
  BY ByteSeq
<1>2. HeaderSize(b) \in Nat
  BY <1>1 DEF HeaderSize, IsByte
<1>3. HeaderSize(b) <= BufferMaxSize => b[4] # Erased
  BY <1>1 DEF HeaderSize, IsByte, BufferMaxSize, Erased
<1>4. ASSUME NEW m \in Bytes, NEW gone \in BOOLEAN, Len(m) <= 255, Torn(m, b, 4, gone), b[4] # Erased
      PROVE  Heads(m, b)
  <2>1. PICK f : f = Header(m) /\ f[3] = Len(m) /\ f[4] = 0
    BY <1>4, ChecksumForm
  <2>2. \A j \in 1..4 : \/ b[j] = f[j]
                        \/ \A i \in 1..j : b[i] = Erased
                        \/ \A i \in j..4 : b[i] = Erased
    BY <1>4, <2>1 DEF Torn
  <2>3. \A j \in 1..4 : b[j] = f[j] \/ \A i \in 1..j : b[i] = Erased
    BY <1>4, <2>2
  <2>4. b[4] = 0
    BY <1>4, <2>1, <2>3
  <2>5. b[1] \in {Erased, f[1]} /\ b[2] \in {Erased, f[2]}
    BY <2>3
  <2>6. b[3] = Len(m) \/ (b[1] = Erased /\ b[2] = Erased /\ b[3] = Erased)
    BY <2>1, <2>3
  <2> QED
    BY <2>1, <2>4, <2>5, <2>6 DEF Heads
<1> QED
  BY <1>2, <1>3, <1>4

LEMMA BytesByte ==
  ASSUME CommForm, Lettered, NEW n \in Nat, Received(ReadOp("sb", n, All)), drv.k # 0,
         NEW m \in conf.sent, There(m),
         \A i \in 1..(drv.k - 1) : i <= Len(m) => drv.buf[i] = Erased \/ drv.buf[i] = m[i]
  PROVE  LET b == Append(drv.buf, Answer)
         IN /\ drv.k \in 1..n /\ b \in Bytes /\ Len(b) = drv.k
            /\ \A i \in 1..drv.k : i <= Len(m) => b[i] = Erased \/ b[i] = m[i]
<1>1. /\ drv.k \in 1..n /\ chip.reg = "sb" /\ chip.at = drv.k /\ drv.k \in Nat \ {0}
      /\ drv.buf \in Bytes /\ Len(drv.buf) = drv.k - 1
  BY DEF Received, ReadOp
<1>2. PICK k \in 1..n, s \in Bytes, e \in Byte :
        /\ k = drv.k /\ s = drv.buf /\ e = Answer /\ Len(s) = k - 1
        /\ e = IF k > conf.room THEN Erased ELSE chip.mem.sb[k]
  BY <1>1, MailAnswer
<1>3. PICK b \in Bytes : b = Append(s, e) /\ Len(b) = k /\ b[k] = e /\ \A i \in 1..(k - 1) : b[i] = s[i]
  <2>1. PICK b : b = Append(s, e)
    OBVIOUS
  <2>2. /\ b \in Bytes /\ Len(b) = Len(s) + 1
        /\ \A i \in 1..Len(s) : b[i] = s[i]
        /\ b[Len(s) + 1] = e
    BY <1>2, <2>1, AppendBytes
  <2>3. Len(s) = k - 1 /\ Len(s) + 1 = k
    BY <1>2
  <2> QED
    BY <2>1, <2>2, <2>3
<1>4. k <= Len(m) => e = Erased \/ e = m[k]
  <2>1. Len(m) \in Nat /\ Len(m) <= conf.room /\ conf.room \in Nat
    BY CommConfigured, ByteSeq DEF CommForm
  <2>2. CASE chip.present
    BY <1>2, <2>1, <2>2 DEF There, Holds
  <2>3. CASE ~chip.present
    BY <1>2, <2>1, <2>3 DEF There, Wiped
  <2> QED
    BY <2>2, <2>3
<1>5. \A i \in 1..k : i <= Len(m) => b[i] = Erased \/ b[i] = m[i]
  <2>1. \A i \in 1..k : i = k \/ i \in 1..(k - 1)
    BY <1>2
  <2>2. \A i \in 1..(k - 1) : i <= Len(m) => s[i] = Erased \/ s[i] = m[i]
    BY <1>2
  <2> QED
    BY <1>3, <1>4, <2>1, <2>2
<1> QED
  BY <1>1, <1>2, <1>3, <1>5

(* The plans of a read. *)
Acknowledge == WriteOp("ctl", 1, <<"verified">>, All)
LEMMA MailPlans ==
  /\ IsSeq(PackageReadAndVerified) /\ Len(PackageReadAndVerified) = 2
  /\ PackageReadAndVerified[1] = ReadOp("ctl", 2, All) /\ PackageReadAndVerified[2] = Acknowledge
  /\ Drop(PackageReadAndVerified, 1) = <<Acknowledge>>
  /\ \A op : LET p == <<op>> \o PackageReadAndVerified
             IN IsSeq(p) /\ Len(p) = 3 /\ p[1] = op /\ Drop(p, 1) = PackageReadAndVerified
<1>1. PICK r, a : r = ReadOp("ctl", 2, All) /\ a = Acknowledge
  OBVIOUS
<1>2. PackageReadAndVerified = <<r, a>>
  BY <1>1 DEF PackageReadAndVerified, Command, Acknowledge
<1>3. PICK p : p = PackageReadAndVerified
  OBVIOUS
<1>4. IsSeq(p) /\ Len(p) = 2 /\ p[1] = r /\ p[2] = a
  BY <1>2, <1>3, Tuples
<1>5. Drop(p, 1) = <<a>>
  <2>1. IsSeq(Drop(p, 1)) /\ Len(Drop(p, 1)) = 1 /\ Drop(p, 1)[1] = p[1 + 1]
    <3>1. IsSeq(p) /\ 1 \in Nat
      BY <1>4
    <3>2. /\ IsSeq(Drop(p, 1)) /\ Len(Drop(p, 1)) = IF 1 < Len(p) THEN Len(p) - 1 ELSE 0
          /\ \A i \in 1..(Len(p) - 1) : Drop(p, 1)[i] = p[1 + i]
      BY <3>1, DropForm
    <3>3. 1 \in 1..(Len(p) - 1)
      BY <1>4
    <3> QED
      BY <1>4, <3>2, <3>3
  <2>2. IsSeq(<<a>>) /\ Len(<<a>>) = 1 /\ <<a>>[1] = a
    BY Tuples
  <2>3. PICK d, t : d = Drop(p, 1) /\ t = <<a>>
    OBVIOUS
  <2>4. d[1] = a /\ t[1] = a
    BY <1>4, <2>1, <2>2, <2>3
  <2>5. \A i \in 1..Len(d) : d[i] = t[i]
    BY <2>1, <2>3, <2>4
  <2>6. d = t
    BY <2>1, <2>2, <2>3, <2>5, SeqSame
  <2> QED
    BY <2>3, <2>6
<1>6. ASSUME NEW op
      PROVE  LET q == <<op>> \o p IN IsSeq(q) /\ Len(q) = 3 /\ q[1] = op /\ Drop(q, 1) = p
  <2>1. PICK s, q : s = <<op>> /\ q = s \o p
    OBVIOUS
  <2>2. IsSeq(s) /\ Len(s) = 1 /\ s[1] = op
    BY <2>1, Tuples
  <2>3. /\ IsSeq(q) /\ Len(q) = Len(s) + Len(p)
        /\ \A i \in 1..Len(s) : q[i] = s[i]
        /\ \A i \in 1..Len(p) : q[Len(s) + i] = p[i]
    <3>1. IsSeq(s) /\ IsSeq(p)
      BY <1>4, <2>2
    <3> QED
      BY <2>1, <3>1, ConcatForm
  <2>4. Len(q) = 3 /\ q[1] = op /\ q[2] = p[1] /\ q[3] = p[2]
    BY <1>4, <2>2, <2>3
  <2>5. IsSeq(Drop(q, 1)) /\ Len(Drop(q, 1)) = 2 /\ \A i \in 1..2 : Drop(q, 1)[i] = q[1 + i]
    <3>1. IsSeq(q) /\ 1 \in Nat
      BY <2>3
    <3>2. /\ IsSeq(Drop(q, 1)) /\ Len(Drop(q, 1)) = IF 1 < Len(q) THEN Len(q) - 1 ELSE 0
          /\ \A i \in 1..(Len(q) - 1) : Drop(q, 1)[i] = q[1 + i]
      BY <3>1, DropForm
    <3> QED
      BY <2>4, <3>2
  <2>6. PICK d : d = Drop(q, 1)
    OBVIOUS
  <2>7. \A i \in 1..Len(d) : d[i] = p[i]
    BY <2>4, <2>5, <2>6
  <2>8. d = p
    BY <1>4, <2>5, <2>6, <2>7, SeqSame
  <2> QED
    BY <2>1, <2>3, <2>4, <2>6, <2>8
<1> QED
  BY <1>1, <1>3, <1>4, <1>5, <1>6

(* The header. *)
LEMMA HeaderStays ==
  ASSUME SameMail, chip'.on = chip.on, NEW k \in 1..4, NEW b \in Bytes, Len(b) = k - 1,
         drv'.plan = ReadMailbox, drv'.k = k, drv'.buf = b, chip'.reg = "header", chip'.at = k,
         \/ ~chip.present /\ Wiped /\ \A i \in 1..(k - 1) : b[i] = Erased
         \/ \E m \in conf.sent : There(m) /\ Torn(m, b, k - 1, ~chip.present)
  PROVE  HeaderIn'
<1>1. ReadMailbox[1] = ReadOp("header", 4, All) /\ ReadOp("header", 4, All).n = 4
      /\ ReadOp("header", 4, All).reg = "header"
  BY MailPlans DEF ReadMailbox, ReadOp
<1>2. Received(ReadOp("header", 4, All))'
  BY <1>1 DEF Received
<1>3. conf' = conf /\ chip'.present = chip.present /\ Wiped' = Wiped /\ \A m : There(m)' = There(m)
  BY MailStands DEF SameMail
<1>4. \A m : Torn(m, drv.buf, drv.k - 1, ~chip.present)' = Torn(m, b, k - 1, ~chip.present)
  BY <1>3 DEF Torn
<1>5. (\/ ~chip.present /\ Wiped /\ \A i \in 1..(drv.k - 1) : drv.buf[i] = Erased
       \/ \E m \in conf.sent : There(m) /\ Torn(m, drv.buf, drv.k - 1, ~chip.present))'
  BY <1>3, <1>4
<1> QED
  BY <1>2, <1>5 DEF HeaderIn

Shorts == \A m \in conf.sent : Len(m) <= 255

LEMMA HeaderMoves ==
  ASSUME CommForm, MailGood, ~conf.hidden, Shorts, drv.call = "msg_read", HeaderIn,
         WriteOffset \/ RecvByte \/ WriteBlock
  PROVE  MailGood'
<1>1. CommChip(chip) /\ CommDrv(drv) /\ Lettered
  BY DEF CommForm, MailGood
<1>2. PICK p : p = drv.plan /\ p = ReadMailbox /\ IsSeq(p) /\ Len(p) = 3
               /\ p[1] = ReadOp("header", 4, All) /\ Drop(p, 1) = PackageReadAndVerified
  BY MailPlans DEF HeaderIn, ReadMailbox
<1>3. p[1].do = "read" /\ p[1].reg = "header" /\ p[1].n = 4 /\ p[1].skip = All
  BY <1>2 DEF ReadOp
<1>4. ASSUME SameMail, NEW h, CallOf(h), AfterOp(h), ~h.ok
      PROVE  MailGood'
  <2>1. CommDrv(h) /\ h.plan = p
    BY <1>2, <1>4 DEF CallOf
  <2>2. EndFailed(h)
    BY <1>2, <1>3, <1>4, <2>1, FailsOut
  <2> QED
    BY <1>4, <2>2, CallFails
<1>5. CASE WriteOffset
  <2>1. conf' = conf /\ drv.k = 0 /\ Untouched
    BY <1>1, <1>5, OffsetStep
  <2>2. SameMail /\ chip'.on = chip.on
    BY <2>1 DEF Untouched, SameMail
  <2>3. CASE /\ CallOf(drv') /\ drv'.k = 1 /\ drv'.buf = <<>>
             /\ chip'.reg = drv.plan[1].reg /\ chip'.at = 1 /\ out' = out /\ seen' = seen
    <3>1. \/ ~chip.present /\ Wiped
          \/ \E m \in conf.sent : There(m)
      BY DEF HeaderIn
    <3>2. \A m : Torn(m, <<>>, 1 - 1, ~chip.present)
      BY DEF Torn
    <3>3. <<>> \in Bytes /\ Len(<<>>) = 1 - 1
      BY DEF Bytes
    <3>4. drv'.plan = ReadMailbox /\ chip'.reg = "header"
      BY <1>2, <1>3, <2>3 DEF CallOf
    <3>5. HeaderIn'
      <4>1. \/ ~chip.present /\ Wiped /\ \A i \in 1..(1 - 1) : <<>>[i] = Erased
            \/ \E m \in conf.sent : There(m) /\ Torn(m, <<>>, 1 - 1, ~chip.present)
        BY <3>1, <3>2
      <4>2. 1 \in 1..4
        OBVIOUS
      <4> QED
        BY <2>2, <2>3, <3>3, <3>4, <4>1, <4>2, HeaderStays
    <3> QED
      BY <2>2, <2>3, <3>5, MailWithin
  <2>4. CASE \E h : CallOf(h) /\ AfterOp(h) /\ (h.ok => drv.plan[1].n = 0 /\ h.buf = <<>>)
    <3>1. PICK h : CallOf(h) /\ AfterOp(h) /\ ~h.ok
      BY <1>2, <1>3, <2>4
    <3> QED
      BY <1>4, <2>2, <3>1
  <2> QED
    BY <1>1, <1>5, <2>3, <2>4, OffsetStep
<1>6. CASE RecvByte
  <2>1. conf' = conf /\ drv.k # 0 /\ Untouched
    BY <1>1, <1>6, ByteStep
  <2>2. SameMail /\ chip'.on = chip.on
    BY <2>1 DEF Untouched, SameMail
  <2>3. PICK k \in 1..4, b \in Bytes :
          /\ k = drv.k /\ b = Append(drv.buf, Answer) /\ Len(b) = k
          /\ \/ ~chip.present /\ Wiped /\ \A i \in 1..k : b[i] = Erased
             \/ \E m \in conf.sent : There(m) /\ Torn(m, b, k, ~chip.present)
    BY <1>1, <2>1, HeaderByte
  <2>4. chip.reg = "header" /\ chip.at = k
    BY <2>1, <2>3 DEF HeaderIn, Received, ReadOp
  <2>5. CASE /\ drv.k # drv.plan[1].n /\ CallOf(drv') /\ drv'.k = drv.k + 1
             /\ drv'.buf = Append(drv.buf, Answer)
             /\ chip'.reg = chip.reg /\ chip'.at = chip.at + 1 /\ out' = out /\ seen' = seen
    <3>1. PICK l \in 1..4 : l = k + 1 /\ l - 1 = k
      BY <1>2, <1>3, <2>3, <2>5
    <3>2. /\ drv'.plan = ReadMailbox /\ drv'.k = l /\ drv'.buf = b /\ chip'.reg = "header"
          /\ chip'.at = l
      BY <1>2, <2>3, <2>4, <2>5, <3>1 DEF CallOf
    <3>3. /\ Len(b) = l - 1
          /\ \/ ~chip.present /\ Wiped /\ \A i \in 1..(l - 1) : b[i] = Erased
             \/ \E m \in conf.sent : There(m) /\ Torn(m, b, l - 1, ~chip.present)
      BY <2>3, <3>1
    <3>4. HeaderIn'
      BY <2>2, <2>3, <3>1, <3>2, <3>3, HeaderStays
    <3> QED
      BY <2>2, <2>5, <3>4, MailWithin
  <2>6. CASE /\ drv.k = drv.plan[1].n
             /\ \E h : CallOf(h) /\ AfterOp(h) /\ (h.ok => h.buf = Append(drv.buf, Answer))
    <3>1. PICK h : CallOf(h) /\ AfterOp(h) /\ (h.ok => h.buf = b)
      BY <2>3, <2>6
    <3>2. k = 4 /\ Len(b) = 4
      BY <1>2, <1>3, <2>3, <2>6
    <3>3. CASE h.ok
      <4>1. h.buf = b /\ CommDrv(h) /\ h.plan = p /\ h.call = "msg_read" /\ h.got = drv.got
        BY <1>2, <3>1, <3>3 DEF CallOf
      <4>2. HeaderSize(b) \in Nat
        BY <2>3, <3>2, HeaderWhole
      <4>3. EndFailed(h) \/ Announced(h)
        BY <1>2, <3>1, <3>3, <4>1, <4>2, HeaderEnds
      <4>4. CASE Announced(h)
        <5>1. /\ CommDrv(drv') /\ drv'.call = "msg_read" /\ drv'.k = 0 /\ out' = out /\ seen' = seen
              /\ HeaderSize(b) <= BufferMaxSize /\ drv'.arg = b
              /\ drv'.plan = <<ReadOp("sb", HeaderSize(b), All)>> \o PackageReadAndVerified
          BY <1>2, <4>1, <4>4 DEF Announced
        <5>2. ~(\A i \in 1..k : b[i] = Erased)
          BY <2>3, <3>2, <5>1, HeaderWhole
        <5>3. PICK m \in conf.sent : There(m) /\ Torn(m, b, 4, ~chip.present)
          BY <2>3, <3>2, <5>2
        <5>4. m \in Bytes /\ Len(m) <= 255
          BY CommConfigured DEF CommForm, Shorts
        <5>5. Heads(m, b)
          <6>1. PICK gone \in BOOLEAN : gone = ~chip.present
            OBVIOUS
          <6> QED
            BY <2>3, <3>2, <5>1, <5>3, <5>4, <6>1, HeaderWhole
        <5>6. BytesIn'
          <6>1. PICK op : op = ReadOp("sb", HeaderSize(b), All) /\ op.n = HeaderSize(b)
            <7>1. ReadOp("sb", HeaderSize(b), All).n = HeaderSize(b)
              BY DEF ReadOp
            <7> QED
              BY <7>1
          <6>2. drv'.plan[1] = op
            BY <5>1, <6>1, MailPlans
          <6>3. 0 \in 0..op.n
            BY <4>2, <6>1
          <6>4. There(m)' /\ m \in conf'.sent
            BY <2>2, <5>3, MailStands DEF SameMail
          <6>5. Received(ReadOp("sb", HeaderSize(drv.arg), All))'
            BY <5>1, <6>1, <6>2, <6>3 DEF Received
          <6> QED
            BY <5>1, <5>5, <6>4, <6>5 DEF BytesIn
        <5> QED
          BY <2>2, <5>1, <5>6, MailWithin
      <4> QED
        BY <2>2, <4>3, <4>4, CallFails
    <3> QED
      BY <1>4, <2>2, <3>1, <3>3
  <2> QED
    BY <1>1, <1>6, <2>5, <2>6, ByteStep
<1>7. CASE WriteBlock
  BY <1>1, <1>2, <1>3, <1>7, BlockStep
<1> QED
  BY <1>5, <1>6, <1>7

(* The bytes of the message. *)
LEMMA BytesDone ==
  ASSUME CommForm, MailGood, SameMail, chip'.on = chip.on, drv.call = "msg_read", Shorts,
         drv.plan = <<ReadOp("sb", HeaderSize(drv.arg), All)>> \o PackageReadAndVerified,
         NEW m \in conf.sent, There(m), Heads(m, drv.arg), NEW h, CallOf(h), AfterOp(h),
         h.ok => /\ h.buf \in Bytes /\ Len(h.buf) = HeaderSize(drv.arg)
                 /\ \A i \in 1..Len(h.buf) : i <= Len(m) => h.buf[i] = Erased \/ h.buf[i] = m[i]
  PROVE  MailGood'
<1>1. /\ IsSeq(h.plan) /\ Len(h.plan) \in Nat /\ Len(h.plan) > 1 /\ Len(h.plan) # 0
      /\ h.plan[1] = ReadOp("sb", HeaderSize(drv.arg), All)
      /\ Drop(h.plan, 1) = PackageReadAndVerified
  BY MailPlans DEF CallOf
<1>2. CommDrv(h) /\ h.call = "msg_read" /\ h.arg = drv.arg
  BY DEF CallOf
<1>3. h.plan[1].skip = All /\ h.plan[1].reg = "sb"
  BY <1>1 DEF ReadOp
<1>4. CASE ~h.ok
  <2>1. EndFailed(h)
    BY <1>1, <1>2, <1>3, <1>4, FailsOut
  <2> QED
    BY <2>1, CallFails
<1>5. CASE /\ h.ok /\ Checks(h.buf, h.arg) /\ CommDrv(drv') /\ out' = out /\ seen' = seen
           /\ drv'.call = h.call /\ drv'.k = 0 /\ drv'.got = h.buf
           /\ drv'.plan = Drop(h.plan, 1)
  <2>1. PICK b, a : b = h.buf /\ a = drv.arg
    OBVIOUS
  <2>2. m \in Bytes /\ Len(m) <= 255
    BY CommConfigured DEF CommForm, Shorts
  <2>3. /\ Heads(m, a) /\ b \in Bytes /\ Len(b) = HeaderSize(a) /\ Checks(b, a)
        /\ \A i \in 1..Len(b) : i <= Len(m) => b[i] = Erased \/ b[i] = m[i]
    BY <1>2, <1>5, <2>1
  <2>4. b = m
    BY <2>2, <2>3, ChecksTell
  <2>5. There(m)' /\ m \in conf'.sent
    BY MailStands DEF SameMail
  <2>6. drv'.plan = PackageReadAndVerified /\ drv'.got = m
    BY <1>1, <1>5, <2>1, <2>4
  <2>7. There(drv.got)'
    BY <2>5, <2>6 DEF There, Holds
  <2>8. Verifying'
    BY <2>5, <2>6, <2>7 DEF Verifying
  <2> QED
    BY <1>5, <2>8, MailWithin
<1>6. CASE h.ok
  <2>1. PICK n : n = HeaderSize(drv.arg) /\ h.plan[1] = ReadOp("sb", n, All)
    BY <1>1
  <2>2. \/ EndFailed(h)
       \/ /\ Checks(h.buf, h.arg) /\ CommDrv(drv') /\ out' = out /\ seen' = seen
          /\ drv'.call = h.call /\ drv'.k = 0 /\ drv'.got = h.buf
          /\ drv'.plan = Drop(h.plan, 1)
    BY <1>1, <1>2, <1>6, <2>1, BytesEnd
  <2> QED
    BY <1>5, <1>6, <2>2, CallFails
<1> QED
  BY <1>4, <1>6

LEMMA BytesMoves ==
  ASSUME CommForm, MailGood, ~conf.hidden, Shorts, drv.call = "msg_read", BytesIn,
         WriteOffset \/ RecvByte \/ WriteBlock
  PROVE  MailGood'
<1>1. CommChip(chip) /\ CommDrv(drv) /\ Lettered
  BY DEF CommForm, MailGood
<1>2. PICK m \in conf.sent :
        /\ There(m) /\ Heads(m, drv.arg)
        /\ \A i \in 1..(drv.k - 1) : i <= Len(m) => drv.buf[i] = Erased \/ drv.buf[i] = m[i]
  BY DEF BytesIn
<1>3. PICK n \in Nat : n = HeaderSize(drv.arg)
  <2>1. drv.arg \in Bytes /\ Len(drv.arg) = 4
    BY <1>2 DEF Heads
  <2>2. HeaderSize(drv.arg) \in Nat
    BY <2>1, HeaderWhole
  <2> QED
    BY <2>2
<1>4. PICK op : op = ReadOp("sb", n, All) /\ op.do = "read" /\ op.reg = "sb" /\ op.n = n
  <2>1. PICK op : op = ReadOp("sb", n, All)
    OBVIOUS
  <2>2. op.do = "read" /\ op.reg = "sb" /\ op.n = n
    BY <2>1 DEF ReadOp
  <2> QED
    BY <2>1, <2>2
<1>5. /\ drv.plan = <<op>> \o PackageReadAndVerified /\ drv.plan[1] = op /\ Received(op)
  BY <1>3, <1>4 DEF BytesIn, Received
<1>6. drv.plan = <<ReadOp("sb", HeaderSize(drv.arg), All)>> \o PackageReadAndVerified
  BY DEF BytesIn
<1>7. ASSUME SameMail, chip'.on = chip.on, NEW k \in 1..n, NEW b \in Bytes, Len(b) = k - 1,
             CallOf(drv'), drv'.k = k, drv'.buf = b, chip'.reg = "sb", chip'.at = k,
             out' = out, seen' = seen,
             \A i \in 1..(k - 1) : i <= Len(m) => b[i] = Erased \/ b[i] = m[i]
      PROVE  MailGood'
  <2>1. drv'.plan = drv.plan /\ drv'.arg = drv.arg
    BY <1>7 DEF CallOf
  <2>2. There(m)' /\ m \in conf'.sent
    BY <1>2, <1>7, MailStands DEF SameMail
  <2>3. Received(op)'
    BY <1>4, <1>5, <1>7, <2>1 DEF Received
  <2>4. ReadOp("sb", HeaderSize(drv.arg), All)' = op
    BY <1>3, <1>4, <2>1
  <2>5. BytesIn'
    <3>1. Received(ReadOp("sb", HeaderSize(drv.arg), All))'
      BY <2>3, <2>4 DEF Received
    <3>2. drv'.plan = <<ReadOp("sb", HeaderSize(drv.arg), All)'>> \o PackageReadAndVerified
      BY <1>5, <2>1, <2>4
    <3>3. (\A i \in 1..(drv.k - 1) : i <= Len(m) => drv.buf[i] = Erased \/ drv.buf[i] = m[i])'
      BY <1>7
    <3> QED
      BY <1>2, <2>1, <2>2, <3>1, <3>2, <3>3 DEF BytesIn
  <2> QED
    BY <1>7, <2>5, MailWithin
<1>8. CASE WriteOffset
  <2>1. conf' = conf /\ drv.k = 0 /\ Untouched
    BY <1>1, <1>8, OffsetStep
  <2>2. SameMail /\ chip'.on = chip.on
    BY <2>1 DEF Untouched, SameMail
  <2>3. CASE /\ drv.plan[1].n # 0 /\ CallOf(drv') /\ drv'.k = 1 /\ drv'.buf = <<>>
             /\ chip'.reg = drv.plan[1].reg /\ chip'.at = 1 /\ out' = out /\ seen' = seen
    <3>1. <<>> \in Bytes /\ Len(<<>>) = 1 - 1
      BY DEF Bytes
    <3>2. 1 \in 1..n /\ chip'.reg = "sb"
      BY <1>3, <1>4, <1>5, <2>3
    <3>3. \A i \in 1..(1 - 1) : i <= Len(m) => <<>>[i] = Erased \/ <<>>[i] = m[i]
      OBVIOUS
    <3> QED
      BY <1>7, <2>2, <2>3, <3>1, <3>2, <3>3
  <2>4. CASE \E h : CallOf(h) /\ AfterOp(h) /\ (h.ok => drv.plan[1].n = 0 /\ h.buf = <<>>)
    <3>1. PICK h : CallOf(h) /\ AfterOp(h) /\ (h.ok => drv.plan[1].n = 0 /\ h.buf = <<>>)
      BY <2>4
    <3>2. h.ok => /\ h.buf \in Bytes /\ Len(h.buf) = HeaderSize(drv.arg)
                  /\ \A i \in 1..Len(h.buf) : i <= Len(m) => h.buf[i] = Erased \/ h.buf[i] = m[i]
      <4>1. <<>> \in Bytes /\ Len(<<>>) = 0
        BY DEF Bytes
      <4> QED
        BY <1>3, <1>4, <1>5, <3>1, <4>1
    <3> QED
      BY <1>2, <1>6, <2>2, <3>1, <3>2, BytesDone
  <2> QED
    BY <1>1, <1>8, <2>3, <2>4, OffsetStep
<1>9. CASE RecvByte
  <2>1. conf' = conf /\ drv.k # 0 /\ Untouched
    BY <1>1, <1>9, ByteStep
  <2>2. SameMail /\ chip'.on = chip.on
    BY <2>1 DEF Untouched, SameMail
  <2>3. Received(ReadOp("sb", n, All))
    BY <1>4, <1>5
  <2>4. PICK k \in 1..n, b \in Bytes :
          /\ k = drv.k /\ b = Append(drv.buf, Answer) /\ Len(b) = k
          /\ \A i \in 1..k : i <= Len(m) => b[i] = Erased \/ b[i] = m[i]
    BY <1>1, <1>2, <1>3, <2>1, <2>3, BytesByte
  <2>5. chip.reg = "sb" /\ chip.at = k
    BY <1>4, <1>5, <2>1, <2>4 DEF Received
  <2>6. CASE /\ drv.k # drv.plan[1].n /\ CallOf(drv') /\ drv'.k = drv.k + 1
             /\ drv'.buf = Append(drv.buf, Answer)
             /\ chip'.reg = chip.reg /\ chip'.at = chip.at + 1 /\ out' = out /\ seen' = seen
    <3>1. PICK l \in 1..n : l = k + 1 /\ l - 1 = k
      BY <1>3, <1>4, <1>5, <2>4, <2>6
    <3>2. drv'.k = l /\ drv'.buf = b /\ chip'.reg = "sb" /\ chip'.at = l
      BY <2>4, <2>5, <2>6, <3>1
    <3>3. Len(b) = l - 1 /\ \A i \in 1..(l - 1) : i <= Len(m) => b[i] = Erased \/ b[i] = m[i]
      BY <2>4, <3>1
    <3> QED
      BY <1>7, <2>2, <2>4, <2>6, <3>1, <3>2, <3>3
  <2>7. CASE /\ drv.k = drv.plan[1].n
             /\ \E h : CallOf(h) /\ AfterOp(h) /\ (h.ok => h.buf = Append(drv.buf, Answer))
    <3>1. PICK h : CallOf(h) /\ AfterOp(h) /\ (h.ok => h.buf = b)
      BY <2>4, <2>7
    <3>2. Len(b) = HeaderSize(drv.arg)
      BY <1>3, <1>4, <1>5, <2>4, <2>7
    <3>3. h.ok => /\ h.buf \in Bytes /\ Len(h.buf) = HeaderSize(drv.arg)
                  /\ \A i \in 1..Len(h.buf) : i <= Len(m) => h.buf[i] = Erased \/ h.buf[i] = m[i]
      BY <2>4, <3>1, <3>2
    <3> QED
      BY <1>2, <1>6, <2>2, <3>1, <3>3, BytesDone
  <2> QED
    BY <1>1, <1>9, <2>6, <2>7, ByteStep
<1>10. CASE WriteBlock
  BY <1>1, <1>4, <1>5, <1>10, BlockStep
<1> QED
  BY <1>8, <1>9, <1>10

(* The acknowledgement. *)
LEMMA VerifyMoves ==
  ASSUME CommForm, MailGood, ~conf.hidden, Shorts, drv.call = "msg_read", Verifying,
         WriteOffset \/ RecvByte \/ WriteBlock
  PROVE  MailGood'
<1>1. CommChip(chip) /\ CommDrv(drv)
  BY DEF CommForm
<1>2. PICK m \in conf.sent : m = drv.got /\ There(m)
  BY DEF Verifying
<1>3. ASSUME SameMail, chip'.on = chip.on, out' = out, seen' = seen, drv'.got = m,
             drv'.plan \in {PackageReadAndVerified, <<Acknowledge>>}
      PROVE  MailGood'
  <2>1. There(m)' /\ m \in conf'.sent
    BY <1>2, <1>3, MailStands DEF SameMail
  <2>2. There(drv.got)'
    BY <1>3, <2>1 DEF There, Holds
  <2>3. Verifying'
    BY <1>3, <2>1, <2>2 DEF Verifying, Acknowledge
  <2> QED
    BY <1>3, <2>3, MailWithin
<1>4. PICK p : p = drv.plan /\ p \in {PackageReadAndVerified, <<Acknowledge>>}
  BY DEF Verifying, Acknowledge
<1>5. /\ Acknowledge.do = "write" /\ Acknowledge.reg = "ctl" /\ Acknowledge.skip = All
      /\ Acknowledge.bytes = <<"verified">> /\ Acknowledge.bytes[1] = "verified"
  BY DEF Acknowledge, WriteOp
<1>6. ASSUME NEW h, CallOf(h)
      PROVE  CommDrv(h) /\ h.call = "msg_read" /\ h.plan = p /\ h.got = m
  BY <1>2, <1>4, <1>6 DEF CallOf
<1>7. CASE p = PackageReadAndVerified
  <2>1. /\ IsSeq(p) /\ Len(p) = 2 /\ Len(p) # 0 /\ p[2] = Acknowledge /\ Drop(p, 1) = <<Acknowledge>>
        /\ p[1].do = "read" /\ p[1].reg = "ctl" /\ p[1].skip = All /\ p[1].n = 2
    BY <1>7, MailPlans DEF ReadOp
  <2>2. ASSUME SameMail, chip'.on = chip.on, NEW h, CallOf(h), AfterOp(h)
        PROVE  MailGood'
    <3>1. CommDrv(h) /\ h.call = "msg_read" /\ h.plan = p /\ h.got = m
      BY <1>6, <2>2
    <3>2. Ended(h) \/ GoesOn(h) \/ Announced(h)
      BY <2>1, <2>2, <3>1, OpEnds
    <3>3. ~Keeps(p[1])
      BY <2>1 DEF Keeps
    <3>4. CASE EndFailed(h)
      BY <2>2, <3>4, CallFails
    <3>5. CASE GoesOn(h)
      <4>1. PICK n \in Nat \ {0} : n < 2 /\ drv'.plan = Drop(p, n)
        BY <2>1, <3>1, <3>5 DEF GoesOn
      <4>2. n = 1
        BY <4>1
      <4>3. drv'.plan = <<Acknowledge>> /\ drv'.got = m /\ out' = out /\ seen' = seen
        BY <2>1, <3>1, <3>3, <3>5, <4>1, <4>2 DEF GoesOn, Got
      <4> QED
        BY <1>3, <2>2, <4>3
    <3>6. ASSUME NEW n \in Nat \ {0}, n >= 2, Leaves(p, TRUE, n)
          PROVE  FALSE
      <4>1. p[2].reg = "enable"
        BY <2>1, <3>6 DEF Leaves
      <4> QED
        BY <1>5, <2>1, <4>1
    <3> QED
      BY <2>1, <3>1, <3>2, <3>4, <3>5, <3>6 DEF Ended, Announced
  <2>3. CASE WriteOffset
    <3>1. conf' = conf /\ Untouched
      BY <1>1, <2>3, OffsetStep
    <3>2. SameMail /\ chip'.on = chip.on
      BY <3>1 DEF Untouched, SameMail
    <3>3. CASE CallOf(drv') /\ out' = out /\ seen' = seen
      BY <1>2, <1>3, <1>4, <3>2, <3>3 DEF CallOf
    <3>4. CASE \E h : CallOf(h) /\ AfterOp(h)
      BY <2>2, <3>2, <3>4
    <3> QED
      BY <1>1, <2>3, <3>3, <3>4, OffsetStep
  <2>4. CASE RecvByte
    <3>1. conf' = conf /\ Untouched
      BY <1>1, <2>4, ByteStep
    <3>2. SameMail /\ chip'.on = chip.on
      BY <3>1 DEF Untouched, SameMail
    <3>3. CASE CallOf(drv') /\ out' = out /\ seen' = seen
      BY <1>2, <1>3, <1>4, <3>2, <3>3 DEF CallOf
    <3>4. CASE \E h : CallOf(h) /\ AfterOp(h)
      BY <2>2, <3>2, <3>4
    <3> QED
      BY <1>1, <2>4, <3>3, <3>4, ByteStep
  <2>5. CASE WriteBlock
    BY <1>1, <1>4, <2>1, <2>5, BlockStep
  <2> QED
    BY <2>3, <2>4, <2>5
<1>8. CASE p = <<Acknowledge>>
  <2>1. IsSeq(p) /\ Len(p) = 1 /\ Len(p) # 0 /\ p[1] = Acknowledge
    BY <1>8, Tuples
  <2>2. WriteBlock
    <3>1. p[1].do = "write"
      BY <1>5, <2>1
    <3>2. ~WriteOffset /\ ~RecvByte
      BY <1>1, <1>4, <3>1, OffsetStep, ByteStep
    <3> QED
      BY <3>2
  <2>3. conf' = conf
    BY <1>1, <2>2, BlockStep
  <2>4. ASSUME NEW h, CallOf(h), AfterOp(h)
        PROVE  \/ EndFailed(h)
               \/ /\ h.ok /\ drv' = AtRest /\ seen' = seen
                  /\ out' = [call |-> "msg_read", res |-> "ok", val |-> m]
    <3>1. CommDrv(h) /\ h.call = "msg_read" /\ h.plan = p /\ h.got = m
      BY <1>6, <2>4
    <3>2. p[1].reg # "header" /\ p[1].skip = All /\ ~Keeps(p[1])
      BY <1>5, <2>1 DEF Keeps
    <3>3. Ended(h) \/ GoesOn(h) \/ Announced(h)
      BY <2>1, <2>4, <3>1, <3>2, OpEnds
    <3>4. ~GoesOn(h) /\ ~Announced(h)
      <4>1. ASSUME GoesOn(h)
            PROVE  FALSE
        <5>1. \E n \in Nat \ {0} : n < 1
          BY <2>1, <3>1, <4>1 DEF GoesOn
        <5> QED
          BY <5>1
      <4>2. ~Announced(h)
        BY <3>1, <3>2 DEF Announced
      <4> QED
        BY <4>1, <4>2
    <3>5. CASE h.ok /\ EndOk([h EXCEPT !.got = Got(h)])
      <4>1. PICK z : z = [h EXCEPT !.got = Got(h)]
        OBVIOUS
      <4>2. Got(h) = m
        BY <3>1, <3>2 DEF Got
      <4>3. z.call = "msg_read" /\ z.got = m
        BY <3>1, <4>1, <4>2 DEF CommDrv
      <4>4. Results(z) = {m}
        BY <4>3 DEF Results
      <4>5. \A val : AfterCall(z, val) = seen
        BY <4>3 DEF AfterCall
      <4>6. EndOk(z)
        BY <3>5, <4>1
      <4> QED
        BY <3>5, <4>3, <4>4, <4>5, <4>6 DEF EndOk, Outcome
    <3> QED
      BY <3>3, <3>4, <3>5 DEF Ended
  <2>5. CASE chip' = chip /\ \E h : CallOf(h) /\ AfterOp(h) /\ ~h.ok
    <3>1. SameMail
      BY <2>3, <2>5 DEF SameMail
    <3> QED
      BY <2>4, <2>5, <3>1, CallFails
  <2>6. CASE chip' = AfterBlock(p[1]) /\ \E h : CallOf(h) /\ AfterOp(h) /\ h.ok
    <3>1. chip' = IF ~chip.on THEN chip
                  ELSE [chip EXCEPT !.present = FALSE, !.lost = @ \/ Loses]
      BY <1>5, <2>1, <2>6 DEF AfterBlock
    <3>2. PICK h : CallOf(h) /\ AfterOp(h) /\ h.ok
      BY <2>6
    <3>3. CASE SameMail
      <4>1. EndFailed(h) \/ (drv' = AtRest /\ seen' = seen /\ out'.val = m)
        BY <2>4, <3>2
      <4>2. AtRest.call # "msg_read"
        BY DEF AtRest
      <4> QED
        BY <1>2, <3>3, <4>1, <4>2, CallFails, MailBeyond
    <3>4. CASE ~chip.on
      <4>1. SameMail
        BY <2>3, <3>1, <3>4 DEF SameMail
      <4> QED
        BY <3>3, <4>1
    <3>5. CASE chip.on
      <4>1. /\ chip'.present = FALSE /\ chip'.lost = (chip.lost \/ Loses)
            /\ chip'.mem.header = chip.mem.header /\ chip'.mem.sb = chip.mem.sb
        BY <1>1, <3>1, <3>5 DEF CommChip
      <4>2. ~Loses
        <5> SUFFICES ASSUME chip.present
                     PROVE  m = SubSeq(chip.mem.sb, 1, HeaderSize(chip.mem.header))
          BY <1>2 DEF Loses
        <5>1. chip.mem.header = Header(m) /\ \A i \in 1..Len(m) : chip.mem.sb[i] = m[i]
          BY <1>2 DEF There, Holds
        <5>2. /\ m \in Bytes /\ IsSeq(m) /\ Len(m) <= conf.room /\ Len(m) <= 255
              /\ IsSeq(chip.mem.sb) /\ Len(chip.mem.sb) = conf.room
          BY <1>1, CommConfigured DEF CommForm, Shorts, CommChip
        <5>3. Len(m) \in Nat
          BY <5>2, SeqForm
        <5>4. Header(m)[3] = Len(m) /\ Header(m)[4] = 0
          BY <5>2, ChecksumForm
        <5>5. HeaderSize(chip.mem.header) = Len(m)
          BY <5>1, <5>3, <5>4 DEF HeaderSize
        <5>6. PICK s, n : s = chip.mem.sb /\ n = Len(m)
          OBVIOUS
        <5>7. /\ IsSeq(SubSeq(s, 1, n)) /\ Len(SubSeq(s, 1, n)) = IF 1 <= n THEN n - 1 + 1 ELSE 0
              /\ \A i \in 1..(n - 1 + 1) : SubSeq(s, 1, n)[i] = s[1 + i - 1]
          <6>1. IsSeq(s) /\ n \in Nat /\ n <= Len(s) /\ 1 \in Nat \ {0}
            BY <5>2, <5>3, <5>6
          <6> QED
            BY <6>1, SubSeqForm
        <5>8. PICK t : t = SubSeq(s, 1, n)
          OBVIOUS
        <5>9. IsSeq(t) /\ Len(t) = Len(m) /\ \A i \in 1..Len(m) : t[i] = m[i]
          BY <5>1, <5>3, <5>6, <5>7, <5>8
        <5>10. t = m
          BY <5>2, <5>9, SeqSame
        <5> QED
          BY <5>5, <5>6, <5>8, <5>10
      <4>3. Lettered /\ Present /\ NoneLost /\ DeliveredWhole
        BY DEF MailGood
      <4>4. "present" \notin seen.asked
        BY <4>3 DEF Present
      <4>5. Lettered' /\ MessageIn' /\ NoneLost'
        BY <2>3, <4>1, <4>2, <4>3 DEF Lettered, MessageIn, NoneLost, Is
      <4>6. /\ drv' = AtRest /\ seen'.asked = seen.asked
            /\ out'.res # "ok" \/ out'.val = m
        <5>1. CASE EndFailed(h)
          <6>1. drv' = AtRest /\ seen' = AfterFailed(h) /\ out'.res # "ok"
            BY <5>1 DEF EndFailed, Outcome
          <6>2. AfterFailed(h).asked = seen.asked
            BY DEF AfterFailed
          <6> QED
            BY <6>1, <6>2
        <5>2. CASE drv' = AtRest /\ seen' = seen /\ out'.val = m
          BY <5>2
        <5>3. EndFailed(h) \/ (drv' = AtRest /\ seen' = seen /\ out'.val = m)
          BY <2>4, <3>2
        <5> QED
          BY <5>1, <5>2, <5>3
      <4>7. Present' /\ Stages'
        BY <4>4, <4>6 DEF Present, Stages, AtRest
      <4>8. DeliveredWhole'
        BY <1>2, <2>3, <4>6 DEF DeliveredWhole
      <4> QED
        BY <4>5, <4>7, <4>8 DEF MailGood
    <3> QED
      BY <3>4, <3>5
  <2> QED
    BY <1>1, <1>4, <2>2, <2>5, <2>6, BlockStep
<1> QED
  BY <1>4, <1>7, <1>8

(* The transfers of the other calls. *)
LEMMA MailElsewhere ==
  ASSUME HostGood, MailGood, ~conf.hidden, drv.call # "msg_read", WriteOffset \/ RecvByte \/ WriteBlock
  PROVE  MailGood'
<1>1. CommForm /\ Plans /\ CommChip(chip) /\ CommDrv(drv)
  BY DEF HostGood, CommForm
<1>2. drv.call # "idle"
  BY <1>1, OffsetStep, ByteStep, BlockStep
<1>3. Sound(drv.call, drv.arg, drv.plan)
  BY <1>1, <1>2 DEF Plans
<1>4. IsSeq(drv.plan) /\ Len(drv.plan) # 0 /\ 1 \in 1..Len(drv.plan)
  BY <1>3, SeqForm DEF Sound
<1>5. Serves(drv.call, drv.arg, drv.plan[1]) /\ drv.plan[1].skip \in Nat \cup {All}
  BY <1>3, <1>4 DEF Sound, Skips
<1>6. drv.plan[1].reg = "header" => drv.plan[1].do = "read"
  BY <1>5 DEF Serves, Lays, Orders, Gentle
<1>7. drv.plan[1].do = "write" => ~Orders(drv.plan[1], "verified")
  BY <1>5 DEF Serves, Lays, Orders, Gentle
<1>8. ASSUME SameMail, NEW h, CallOf(h), AfterOp(h)
      PROVE  MailGood'
  <2>1. CommDrv(h) /\ h.call # "msg_read" /\ h.plan = drv.plan
    BY <1>8 DEF CallOf
  <2>2. Ended(h) \/ GoesOn(h) \/ Announced(h)
    BY <1>4, <1>5, <1>6, <1>8, <2>1, OpEnds
  <2>3. CASE EndFailed(h)
    BY <1>8, <2>3, CallFails
  <2>4. CASE EndOk([h EXCEPT !.got = Got(h)])
    <3>1. PICK z : z = [h EXCEPT !.got = Got(h)]
      OBVIOUS
    <3>2. z.call # "msg_read" /\ EndOk(z)
      BY <2>1, <2>4, <3>1 DEF CommDrv
    <3>3. PICK val : /\ out' = [call |-> z.call, res |-> "ok", val |-> val]
                     /\ drv' = AtRest /\ seen' = AfterCall(z, val)
      BY <3>2 DEF EndOk, Outcome
    <3>4. DOMAIN seen = {"asked", "taken", "version", "ext"}
      BY <1>1 DEF CommForm
    <3>5. \/ seen'.asked = seen.asked \/ seen'.asked = seen.asked \cup {"ready"}
          \/ seen'.asked = seen.asked \ {"ready"}
      BY <3>3, <3>4 DEF AfterCall
    <3>6. drv'.call # "msg_read" /\ out'.call # "msg_read"
      BY <3>2, <3>3 DEF AtRest
    <3> QED
      BY <1>8, <3>5, <3>6, MailBeyond
  <2>5. CASE GoesOn(h) \/ Announced(h)
    <3>1. drv'.call # "msg_read" /\ out' = out /\ seen' = seen
      BY <2>1, <2>5 DEF GoesOn, Announced
    <3> QED
      BY <1>8, <3>1, MailBeyond
  <2> QED
    BY <2>2, <2>3, <2>4, <2>5 DEF Ended
<1>9. CASE WriteOffset
  <2>1. SameMail
    BY <1>1, <1>9, OffsetStep DEF Untouched, SameMail
  <2>2. CASE CallOf(drv') /\ out' = out /\ seen' = seen
    BY <2>1, <2>2, MailBeyond DEF CallOf
  <2> QED
    BY <1>1, <1>8, <1>9, <2>1, <2>2, OffsetStep
<1>10. CASE RecvByte
  <2>1. SameMail
    BY <1>1, <1>10, ByteStep DEF Untouched, SameMail
  <2>2. CASE CallOf(drv') /\ out' = out /\ seen' = seen
    BY <2>1, <2>2, MailBeyond DEF CallOf
  <2> QED
    BY <1>1, <1>8, <1>10, <2>1, <2>2, ByteStep
<1>11. CASE WriteBlock
  <2>1. conf' = conf /\ drv.plan[1].do = "write"
    BY <1>1, <1>11, BlockStep
  <2>2. CASE chip' = chip /\ \E h : CallOf(h) /\ AfterOp(h) /\ ~h.ok
    <3>1. SameMail
      BY <2>1, <2>2 DEF SameMail
    <3> QED
      BY <1>8, <2>2, <3>1
  <2>3. CASE chip' = AfterBlock(drv.plan[1]) /\ \E h : CallOf(h) /\ AfterOp(h) /\ h.ok
    <3>1. PICK h : CallOf(h) /\ AfterOp(h) /\ h.ok
      BY <2>3
    <3>2. SameMail
      BY <1>2, <1>7, <2>1, <2>3, <3>1, BlockDone DEF SameMail
    <3> QED
      BY <1>8, <3>1, <3>2
  <2> QED
    BY <1>1, <1>11, <2>2, <2>3, BlockStep
<1> QED
  BY <1>9, <1>10, <1>11

(* A message is read from its start, and only one that was seen to be there. *)
LEMMA MailReadStarts ==
  ASSUME MailGood, MsgRead
  PROVE  MailGood'
<1>1. /\ conf' = conf /\ chip' = chip /\ out' = out /\ "present" \in seen.asked
      /\ drv' = [AtRest EXCEPT !.call = "msg_read", !.plan = ReadMailbox, !.arg = 0, !.spare = conf.spare]
      /\ seen' = [seen EXCEPT !.asked = @ \ {"present"}]
  BY DEF MsgRead, Asked, StartCall
<1>2. Lettered /\ MessageIn /\ Present /\ Stages /\ NoneLost /\ DeliveredWhole
  BY DEF MailGood
<1>3. SameMail /\ chip'.on = chip.on
  BY <1>1 DEF SameMail
<1>4. drv'.plan = ReadMailbox /\ drv'.k = 0 /\ drv'.call = "msg_read"
  BY <1>1 DEF AtRest
<1>5. Wiped' = Wiped /\ Lettered' /\ MessageIn' /\ NoneLost' /\ \A m : There(m)' = There(m)
  BY <1>2, <1>3, MailStands
<1>6. Present'
  <2>1. "present" \notin seen'.asked
    BY <1>1, <1>2 DEF DeliveredWhole
  <2> QED
    BY <2>1 DEF Present
<1>7. Received(ReadOp("header", 4, All))'
  <2>1. ReadMailbox[1] = ReadOp("header", 4, All) /\ ReadOp("header", 4, All).n = 4
    BY MailPlans DEF ReadMailbox, ReadOp
  <2> QED
    BY <1>4, <2>1 DEF Received
<1>8. HeaderIn'
  <2>1. CASE chip.present
    <3>1. PICK m \in conf.sent : Holds(m)
      BY <1>2, <2>1 DEF MessageIn
    <3>2. There(m)' /\ m \in conf'.sent
      BY <1>1, <1>5, <2>1, <3>1 DEF There
    <3>3. Torn(m, drv.buf, drv.k - 1, ~chip.present)'
      BY <1>4 DEF Torn
    <3> QED
      BY <1>4, <1>7, <3>2, <3>3 DEF HeaderIn
  <2>2. CASE ~chip.present
    <3>1. Wiped' /\ ~chip'.present
      BY <1>1, <1>2, <1>5, <2>2 DEF Present
    <3>2. (\A i \in 1..(drv.k - 1) : drv.buf[i] = Erased)'
      BY <1>4
    <3> QED
      BY <1>4, <1>7, <3>1, <3>2 DEF HeaderIn
  <2> QED
    BY <2>1, <2>2
<1>9. Stages'
  BY <1>8 DEF Stages
<1>10. DeliveredWhole'
  BY <1>1, <1>2 DEF DeliveredWhole, Is
<1> QED
  BY <1>5, <1>6, <1>9, <1>10 DEF MailGood

(* The controller sends a message, and resets. *)
LEMMA HeaderBytes ==
  ASSUME NEW m \in Bytes, Len(m) <= 255
  PROVE  Header(m) \in Bytes
<1>1. PICK c \in Nat, n \in Nat : c = Checksum(m) /\ n = Len(m) /\ c < Word16 /\ n <= 255
  <2>1. /\ SumSeq(m) \in Nat
        /\ Checksum(m) = (Word16 - (SumSeq(m) + Len(m))) % Word16
    BY ChecksumForm
  <2>2. PICK s \in Int : s = Word16 - (SumSeq(m) + Len(m))
    BY <2>1, ByteSeq DEF Word16
  <2>3. s % Word16 \in Nat /\ s % Word16 < Word16
    BY <2>2 DEF Word16
  <2> QED
    BY <2>1, <2>2, <2>3, ByteSeq
<1>2. c % 256 \in Byte /\ c \div 256 \in Byte /\ n % 256 \in Byte /\ n \div 256 \in Byte
  <2>1. IsByte(c % 256) /\ IsByte(c \div 256) /\ IsByte(n % 256) /\ IsByte(n \div 256)
    BY <1>1 DEF IsByte, Word16
  <2> QED
    BY <2>1, ByteIs
<1>3. Header(m) = <<c % 256, c \div 256, n % 256, n \div 256>>
  BY <1>1 DEF Header
<1> QED
  BY <1>2, <1>3 DEF Bytes

LEMMA MailSent ==
  ASSUME CommForm, MailGood, Shorts, ControllerPuts
  PROVE  MailGood'
<1>1. PICK m \in conf.sent :
        chip' = [chip EXCEPT !.present = TRUE, !.mem.header = Header(m), !.mem.sb = Overlay(@, 1, m)]
  BY DEF ControllerPuts
<1>2. /\ conf' = conf /\ drv' = drv /\ out' = out /\ seen' = seen /\ chip.on /\ ~chip.present
  BY DEF ControllerPuts, World
<1>3. Lettered /\ MessageIn /\ Present /\ Stages /\ NoneLost /\ DeliveredWhole /\ CommChip(chip)
  BY DEF MailGood, CommForm
<1>4. PICK e, s, r, n :
        e = Header(m) /\ r = chip.mem.sb /\ n = Len(r) /\ s = Overlay(r, 1, m)
  OBVIOUS
<1>5. /\ chip'.present = TRUE /\ chip'.lost = chip.lost /\ chip'.reg = chip.reg /\ chip'.at = chip.at
      /\ chip'.mem.header = e /\ chip'.mem.sb = s
  <2>1. chip' = [chip EXCEPT !.present = TRUE, !.mem.header = e, !.mem.sb = s]
    BY <1>1, <1>4
  <2> QED
    BY <1>3, <2>1 DEF CommChip, Drawers
<1>6. m \in Bytes /\ Len(m) \in Nat /\ Len(m) <= 255 /\ Len(m) <= n /\ n = conf.room /\ n \in Nat
  BY <1>3, <1>4, CommConfigured, ByteSeq DEF CommForm, Shorts, CommChip
<1>7. e \in Bytes
  BY <1>4, <1>6, HeaderBytes
<1>8. \A i \in 1..n : s[i] = IF i \in 1..(1 + Len(m) - 1) THEN m[i - 1 + 1] ELSE r[i]
  BY <1>4 DEF Overlay
<1>9. s = [i \in 1..n |-> s[i]]
  BY <1>4 DEF Overlay
<1>10. \A i \in 1..Len(m) : s[i] = m[i]
  BY <1>6, <1>8
<1>11. s \in Bytes
  <2>1. \A i \in 1..n : s[i] \in Byte
    <3> SUFFICES ASSUME NEW i \in 1..n PROVE s[i] \in Byte
      OBVIOUS
    <3>1. r \in Bytes
      BY <1>3, <1>4 DEF Lettered
    <3>2. IsByte(r[i])
      BY <1>4, <3>1, ByteSeq
    <3>3. i \in 1..Len(m) => IsByte(m[i])
      BY <1>6, ByteSeq
    <3>4. s[i] = r[i] \/ (i \in 1..Len(m) /\ s[i] = m[i])
      BY <1>6, <1>8
    <3> QED
      BY <3>2, <3>3, <3>4, ByteIs
  <2>2. s \in [1..n -> Byte]
    BY <1>9, <2>1
  <2> QED
    BY <1>6, <2>2 DEF Bytes
<1>12. Holds(m)'
  BY <1>4, <1>5, <1>10 DEF Holds
<1>13. There(m)'
  BY <1>5, <1>12 DEF There
<1>14. Lettered' /\ MessageIn' /\ Present' /\ NoneLost' /\ DeliveredWhole'
  BY <1>2, <1>3, <1>5, <1>7, <1>11, <1>12
     DEF Lettered, MessageIn, Present, NoneLost, DeliveredWhole, Is
<1>15. \A x : ~There(x)
  BY <1>2 DEF There
<1>16. Stages'
  <2> SUFFICES ASSUME drv.call = "msg_read" PROVE HeaderIn'
    BY <1>2 DEF Stages
  <2>1. HeaderIn
    BY <1>3, <1>15 DEF Stages, BytesIn, Verifying
  <2>2. \A i \in 1..(drv.k - 1) : drv.buf[i] = Erased
    BY <1>15, <2>1 DEF HeaderIn
  <2>3. Received(ReadOp("header", 4, All))'
    BY <1>2, <1>5, <2>1 DEF HeaderIn, Received
  <2>4. Torn(m, drv.buf, drv.k - 1, ~chip.present)'
    <3>1. drv.k - 1 \in Int
      BY <2>1 DEF HeaderIn, Received, ReadOp
    <3>2. \A j \in 1..(drv.k - 1) : \A i \in 1..j : drv.buf[i] = Erased
      BY <2>2, <3>1
    <3> QED
      BY <1>2, <3>2 DEF Torn
  <2> QED
    BY <1>2, <1>13, <2>1, <2>3, <2>4 DEF HeaderIn
<1> QED
  BY <1>14, <1>16 DEF MailGood

LEMMA MailReset ==
  ASSUME CommForm, MailGood, ControllerResets
  PROVE  MailGood'
<1>1. /\ chip' = [chip EXCEPT !.on = FALSE, !.alarm = TRUE, !.present = FALSE, !.full = FALSE,
                             !.mem.header = [i \in 1..4 |-> Erased],
                             !.mem.sb = [i \in 1..conf.room |-> Erased]]
      /\ conf' = conf /\ drv' = drv /\ out' = out /\ seen' = seen
  BY DEF ControllerResets, World
<1>2. Lettered /\ MessageIn /\ Present /\ Stages /\ NoneLost /\ DeliveredWhole /\ CommChip(chip)
  BY DEF MailGood, CommForm
<1>3. PICK e, s : e = [i \in 1..4 |-> Erased] /\ s = [i \in 1..conf.room |-> Erased]
  OBVIOUS
<1>4. /\ chip'.present = FALSE /\ chip'.on = FALSE /\ chip'.lost = chip.lost
      /\ chip'.reg = chip.reg /\ chip'.at = chip.at
      /\ chip'.mem.header = e /\ chip'.mem.sb = s
  <2>1. chip' = [chip EXCEPT !.on = FALSE, !.alarm = TRUE, !.present = FALSE, !.full = FALSE,
                            !.mem.header = e, !.mem.sb = s]
    BY <1>1, <1>3
  <2> QED
    BY <1>2, <2>1 DEF CommChip, Drawers
<1>5. e \in Bytes /\ \A i \in 1..4 : e[i] = Erased
  BY <1>3, WipedForm
<1>6. s \in Bytes /\ \A i \in 1..conf.room : s[i] = Erased
  <2>1. conf.room \in Nat
    BY CommConfigured DEF CommForm
  <2> QED
    BY <1>3, <2>1, WipedForm
<1>7. Wiped'
  BY <1>1, <1>4, <1>5, <1>6 DEF Wiped
<1>8. \A x : There(x)'
  BY <1>4, <1>7 DEF There
<1>9. Lettered' /\ MessageIn' /\ Present' /\ NoneLost' /\ DeliveredWhole'
  BY <1>1, <1>2, <1>4, <1>5, <1>6, <1>7
     DEF Lettered, MessageIn, Present, NoneLost, DeliveredWhole, Is
<1>10. Stages'
  <2> SUFFICES ASSUME drv.call = "msg_read" PROVE HeaderIn' \/ BytesIn' \/ Verifying'
    BY <1>1 DEF Stages
  <2>1. \A op : Received(op)' = Received(op)
    BY <1>1, <1>4 DEF Received
  <2>2. CASE HeaderIn
    <3>1. \A m : Torn(m, drv.buf, drv.k - 1, ~chip.present) =>
                   Torn(m, drv.buf, drv.k - 1, ~chip.present)'
      BY <1>1, <1>4 DEF Torn
    <3> QED
      BY <1>1, <1>4, <1>7, <1>8, <2>1, <2>2, <3>1 DEF HeaderIn
  <2>3. CASE BytesIn
    BY <1>1, <1>8, <2>1, <2>3 DEF BytesIn
  <2>4. CASE Verifying
    <3>1. There(drv.got)'
      BY <1>8 DEF There, Holds
    <3> QED
      BY <1>1, <2>4, <3>1 DEF Verifying
  <2> QED
    BY <1>2, <2>2, <2>3, <2>4 DEF Stages
<1> QED
  BY <1>9, <1>10 DEF MailGood

LEMMA MailStarts == Init => MailInv
<1> SUFFICES ASSUME Init, Is("comm")
             PROVE  Lettered /\ MessageIn /\ Present /\ Stages /\ NoneLost /\ DeliveredWhole
  BY DEF MailInv
<1>1. CommInit
  BY Starts
<1>2. /\ chip.present = FALSE /\ chip.lost = FALSE /\ drv = AtRest /\ out = NoCall
      /\ seen.asked = {} /\ conf.room \in Nat
      /\ chip.mem.header = [i \in 1..4 |-> Erased] /\ chip.mem.sb = [i \in 1..conf.room |-> Erased]
  BY <1>1, CommConfigured DEF CommInit
<1>3. Lettered
  BY <1>2, WipedForm DEF Lettered
<1> QED
  BY <1>2, <1>3 DEF MessageIn, Present, Stages, NoneLost, DeliveredWhole, AtRest, NoCall

(* Messages of up to 255 bytes: the two bytes of the checksum tell any number of *)
(* missing bytes of such a message; of a longer one the sum may come out right.  *)
Short == \A c \in CommConf : \A m \in c.sent : Len(m) <= 255

LEMMA MailKept == NoneHidden /\ Short /\ HostInv /\ MailInv /\ [Next]_device => MailInv'
<1> SUFFICES ASSUME NoneHidden, Short, HostInv, MailInv, [Next]_device, Is("comm")'
             PROVE  MailGood'
  BY DEF MailInv, MailGood
<1>1. conf' = conf /\ Is("comm")
  BY Steps DEF Is
<1>2. HostGood /\ MailGood
  BY <1>1 DEF HostInv, MailInv, MailGood
<1>3. CommNext \/ Taken \/ UNCHANGED device
  BY <1>1, Steps DEF Is
<1>4. CommForm /\ Plans /\ conf \in CommConf /\ ~conf.hidden /\ Shorts
  BY <1>2 DEF HostGood, CommForm, NoneHidden, Short, Shorts
<1>5. drv.call # "idle" => out.call = "none"
  BY <1>4 DEF Plans
<1>6. ASSUME chip' = chip, drv'.call # "msg_read",
             "present" \in seen'.asked => "present" \in seen.asked \/ chip.present,
             out' = out \/ out'.call # "msg_read"
      PROVE  MailGood'
  <2>1. SameMail
    BY <1>1, <1>6 DEF SameMail
  <2> QED
    BY <1>2, <1>6, <2>1, MailBeyond
<1>7. ASSUME NEW call, NEW plan, NEW arg, StartCall(call, plan, arg), call # "msg_read",
             \/ seen' = seen
             \/ \E about : seen' = [seen EXCEPT !.asked = @ \ {about}]
      PROVE  MailGood'
  <2>1. /\ chip' = chip /\ out' = out
        /\ drv' = [AtRest EXCEPT !.call = call, !.plan = plan, !.arg = arg, !.spare = conf.spare]
    BY <1>7 DEF StartCall
  <2>2. drv'.call = call
    BY <2>1 DEF AtRest
  <2>3. DOMAIN seen = {"asked", "taken", "version", "ext"}
    BY <1>4 DEF CommForm
  <2>4. seen'.asked \subseteq seen.asked
    BY <1>7, <2>3
  <2> QED
    BY <1>6, <1>7, <2>1, <2>2, <2>4
<1>8. CASE UNCHANGED device
  <2>1. SameMail
    BY <1>8 DEF SameMail, device
  <2> QED
    BY <1>2, <1>8, <2>1, MailBeside DEF device
<1>9. CASE Taken
  BY <1>5, <1>6, <1>9 DEF Taken, NoCall
<1>10. CASE CommApiRefuses
  BY <1>6, <1>10 DEF CommApiRefuses, OnComm, Refuse, Outcome
<1>11. CASE IsMsgPresent
  <2>1. /\ chip' = chip /\ drv' = drv /\ drv.call = "idle" /\ out'.call = "present"
        /\ seen' = [seen EXCEPT !.asked =
                    IF chip.present THEN @ \cup {"present"} ELSE @ \ {"present"}]
    BY <1>11 DEF IsMsgPresent, OnComm, Outcome
  <2>2. DOMAIN seen = {"asked", "taken", "version", "ext"}
    BY <1>4 DEF CommForm
  <2> QED
    BY <1>6, <2>1, <2>2
<1>12. CASE ControllerPuts
  BY <1>2, <1>4, <1>12, MailSent
<1>13. CASE ControllerResets
  BY <1>2, <1>4, <1>13, MailReset
<1>14. CASE ControllerTakes
  <2>1. /\ chip' = [chip EXCEPT !.full = FALSE] /\ drv' = drv /\ out' = out
        /\ seen' = [seen EXCEPT !.taken = [header |-> chip.mem.nb_header, bytes |-> chip.mem.nb]]
    BY <1>14 DEF ControllerTakes, World
  <2>2. CommChip(chip) /\ DOMAIN seen = {"asked", "taken", "version", "ext"}
    BY <1>4 DEF CommForm
  <2>3. SameMail /\ chip'.on = chip.on /\ chip'.reg = chip.reg /\ chip'.at = chip.at
    BY <1>1, <2>1, <2>2 DEF SameMail, CommChip
  <2>4. seen'.asked = seen.asked
    BY <2>1, <2>2
  <2> QED
    BY <1>2, <2>1, <2>3, <2>4, MailBeside
<1>15. CASE MsgRead
  BY <1>2, <1>15, MailReadStarts
<1>16. CASE MsgWrite
  BY <1>7, <1>16 DEF MsgWrite, Asked
<1>17. CASE \/ PlatformInfoGet \/ HostSwVersionGet \/ HostSwVersionSet
            \/ HostTemperatureSet \/ HostAmbientTemperatureSet \/ MessagingEnable
            \/ FlushMsgBufferCall \/ IsWriteBufferReady \/ ExtCtrlGet \/ ExtCtrlSet
  BY <1>7, <1>17
     DEF Calls, PlatformInfoGet, HostSwVersionGet, HostSwVersionSet, HostTemperatureSet,
         HostAmbientTemperatureSet, MessagingEnable, FlushMsgBufferCall, IsWriteBufferReady,
         ExtCtrlGet, ExtCtrlSet
<1>18. CASE WriteOffset \/ RecvByte \/ WriteBlock
  <2>1. CASE drv.call # "msg_read"
    BY <1>2, <1>4, <1>18, <2>1, MailElsewhere
  <2>2. CASE drv.call = "msg_read"
    <3>1. HeaderIn \/ BytesIn \/ Verifying
      BY <1>2, <2>2 DEF MailGood, Stages
    <3> QED
      BY <1>2, <1>4, <1>18, <2>2, <3>1, HeaderMoves, BytesMoves, VerifyMoves
  <2> QED
    BY <2>1, <2>2
<1> QED
  BY <1>3, <1>8, <1>9, <1>10, <1>11, <1>12, <1>13, <1>14, <1>15, <1>16, <1>17, <1>18 DEF CommNext

(* What sdi_comm_dev_msg_read delivers is a message the controller sent, the      *)
(* controller drops only the message that was read, and what it takes is one      *)
(* message of the host with its header: whatever the controller does between two  *)
(* bytes, a reset with the mailbox half read included, and whichever operations   *)
(* of this and of earlier calls fail (sdi_read_mailbox, sdi_write_mailbox).       *)
THEOREM MailboxSafety ==
  ASSUME NoneHidden, Short
  PROVE  Spec => []MailboxWhole
<1>1. HostInv /\ MailInv => MailboxWhole
  BY DEF HostInv, HostGood, Filled, Carries, Cut, MailInv, MailboxWhole, DeliveredWhole, NoneLost,
         TakenWhole
<1>2. HostInv /\ MailInv /\ [Next]_device => (HostInv /\ MailInv)'
  BY HostKept, MailKept
<1> QED
  BY <1>1, <1>2, HostStarts, MailStarts, PTL DEF Spec
================================================================================
