----------------------------- MODULE QsfpEeprom -----------------------------
(***************************************************************************)
(* sdi_qsfp_eeprom.c and the module control of sdi_qsfp.c: what every      *)
(* operation of a QSFP port does, as steps of MediaSteps.                  *)
(*                                                                         *)
(* d is what the driver remembers of the module since module_init:         *)
(*   qsa (an SFP in a QSA adapter: the operation is handed to the SFP      *)
(*   functions, see MediaAccess), dd (category QSFP-DD), ver (EEPROM       *)
(*   version), mw and soft (power class, software controlled).             *)
(* f is the set of what the module itself answers: "flat" (no pages),      *)
(*   "tx", "cdrtx", "cdrrx", "rate", "soft", "sfp", "dd" with "ver2" or    *)
(*   "ver3".                                                               *)
(* Registers from 128 up lie on a page, 0 unless another one is selected.  *)
(* Channels are counted from 0.                                            *)
(***************************************************************************)
EXTENDS MediaPhy

ValidateChannel(ch, d) == ch <= IF d.dd THEN 7 ELSE 3

PageSelect(n, f) ==
  Block(<< S("pgread", Lower) >> \o
        IF "flat" \in f THEN << Refused >> ELSE << S("page", n) >>)

IsTxControlSupported     == << Read(0) >>
IsCdrControlSupported    == << Read(0) >>
IsPagingSupported        == << Read(Lower) >>
IsRateSelectSupported    == << Read(0) >>
(* Whether page 0 must be asked for; neither failure is an error here. *)
DefaultPageIfPaged(f) ==
  Block(Quiet(IsPagingSupported) \o If("flat" \notin f, PageSelect(0, f)))
IsSoftwareControlledPowerModeSupported(f) ==
  Block(DefaultPageIfPaged(f) \o << Read(0) >>)

(* The read of the power class returns from the middle of the function:    *)
(* the two groups stay taken.                                              *)
MediaMaxPowerGet(d) ==
  << S("forgetpower", 0) >> \o
  IF d.qsa THEN Refuse ELSE Qsfp(<< Leave(S("learnpower", 0)) >>)

MediaForcePowerModeSet(d, f, high) ==
  IF d.qsa THEN Refuse
  ELSE Qsfp(Block(IsSoftwareControlledPowerModeSupported(f) \o << Check >> \o
            IF "soft" \in f THEN << Read(Lower), S("power", high) >> ELSE << Refused >>))

ModuleReset(on) == Pins(<< PinRead, PinWrite(IF on THEN 1 ELSE 2) >>)

ModuleMonitorStatusGet(flags) ==
  Qsfp(Block(If("temp" \in flags, << Read(Lower) >>) \o If("volt" \in flags, << Read(Lower) >>)))

(* Mutant: the second read replaces the result of the first. *)
ChannelMonitorStatusOn(d, ch, flags) ==
  IF ~ValidateChannel(ch, d) THEN Refuse
  ELSE Qsfp(Block(If("rx" \in flags, << GoOn(Read(Lower)) >>) \o If("bias" \in flags, << Read(Lower) >>)))

ChannelMonitorStatusGet(d, ch, flags) ==
  IF ~ValidateChannel(ch, d) THEN Refuse
  ELSE Qsfp(Block(If("rx" \in flags, << Read(Lower) >>) \o If("bias" \in flags, << Read(Lower) >>)))

ChannelStatusGet(d, ch, flags) ==
  IF ~ValidateChannel(ch, d) THEN Refuse
  ELSE Qsfp(Block(
         If("disable" \in flags, << Read(Lower) >>) \o
         If("fault" \in flags, << Read(Lower) >>) \o
         IF d.dd THEN If("txlos" \in flags, << Read(Lower) >>) \o If("rxlos" \in flags, << Read(Lower) >>)
         ELSE If(flags \cap {"txlos", "rxlos"} # {}, << Read(Lower) >>)))

(* Mutant: a write of what was not read. *)
TxControlBlind(d, f, ch, enable) ==
  IF ~ValidateChannel(ch, d) THEN Refuse
  ELSE Qsfp(Block(IsTxControlSupported \o
         IF "tx" \in f THEN << S("writetx", Lane(ch, enable)), S("asked", Lane(ch, enable)) >>
         ELSE << Refused >>))

TxControl(d, f, ch, enable) ==
  IF ~ValidateChannel(ch, d) THEN Refuse
  ELSE Qsfp(Block(IsTxControlSupported \o
         IF "tx" \in f THEN << S("readtx", Lower), S("writetx", Lane(ch, enable)), S("asked", Lane(ch, enable)) >>
         ELSE << Refused >>))

TxControlStatusGet(d, ch) ==
  IF ~ValidateChannel(ch, d) THEN Refuse ELSE Qsfp(Block(<< Read(Lower) >>))

(* On a QSFP-DD the transmit and the receive half follow one another, the *)
(* result of the second replaces the one of the first write.              *)
CdrStatusSet(d, f, ch) ==
  IF d.qsa \/ ~ValidateChannel(ch, d) THEN Refuse
  ELSE Qsfp(Block(IsCdrControlSupported \o
         IF {"cdrtx", "cdrrx"} \cap f = {} THEN << Refused >>
         ELSE IF d.dd THEN << Read(Lower), GoOn(Write(Lower)), Read(Lower), Write(Lower) >>
         ELSE << Read(Lower), Write(Lower) >>))

CdrStatusGet(d, f, ch) ==
  IF d.qsa \/ ~ValidateChannel(ch, d) THEN Refuse
  ELSE Qsfp(Block(IsCdrControlSupported \o
         IF {"cdrtx", "cdrrx"} \cap f = {} THEN << Refused >>
         ELSE IF d.dd THEN << GoOn(Read(Lower)), Read(Lower) >> ELSE << Read(Lower) >>))

SpeedGet == << >>

(* A length code of a version 3 module is converted only when the lane     *)
(* assignment, read first, is not zero.                                    *)
ParameterGet(d, param) ==
  IF param = "none" THEN Refuse
  ELSE Qsfp(Block(If(d.ver >= 3 /\ param = "length", << Read(Lower) >>) \o << Read(0) >>))

VendorInfoGet      == Qsfp(Block(<< Read(0) >>))
TransceiverCodeGet == Qsfp(Block(<< Read(0) >>))

(* Mutant: page 0 is not selected again. *)
ThresholdGetStays(d, f, known) ==
  IF ~known THEN Refuse
  ELSE Qsfp(Block(PageSelect(3, f) \o << Check, Read(3) >>))

(* The thresholds lie on page 3, on page 2 from version 3 on; page 0 is    *)
(* selected again unless the module turned out to be flat, and the result  *)
(* of that replaces the result of the read.                                *)
ThresholdGet(d, f, known) ==
  IF ~known THEN Refuse
  ELSE Qsfp(Block(PageSelect(IF d.ver >= 3 THEN 2 ELSE 3, f) \o
                  << Check, Read(IF d.ver >= 3 THEN 2 ELSE 3) >>) \o
            If("flat" \notin f, PageSelect(0, f)))

MonitorThresholdGet == << >>

ModuleMonitorGet(known) ==
  Qsfp(Block(IF known THEN << Read(Lower) >> ELSE << Refused >>))

ChannelMonitorGet(d, ch, monitor) ==
  IF \/ ~ValidateChannel(ch, d)
     \/ monitor = "none"
     \/ monitor = "txpower" /\ ~d.dd
  THEN Refuse
  ELSE Qsfp(Block(<< Read(Lower) >>))

FeatureSupportStatusGet(f) ==
  Qsfp(Block(IsTxControlSupported \o IsPagingSupported \o IsRateSelectSupported \o
             IsSoftwareControlledPowerModeSupported(f) \o << Check >>))

(***************************************************************************)
(* read_generic with a page: whether the module has pages is asked before  *)
(* it is selected, of whatever module the groups select at that moment; a  *)
(* failed or a flat answer makes the rest go on without any page.          *)
(***************************************************************************)
(* SDI_MEDIA_PAGE_SELECT_IGNORE; any other negative page. *)
Ignore  == -2
Invalid == -3
GenericOn(do, page, f) ==
  Qsfp(Block(PageSelect(page, f) \o << Check, S(do, page) >>) \o
       If("flat" \notin f, PageSelect(0, f)))
GenericPlain(do, page) == Qsfp(Block(<< S(do, page) >>))
Generic(do, page, f) ==
  IF page = Ignore THEN GenericPlain(do, Lower)
  ELSE IF page = Invalid THEN Refuse
  ELSE Choose(S("stray", Lower), GenericOn(do, page, f), GenericPlain(do, page))

ReadGeneric(page, f)  == Generic("read", page, f)
WriteGeneric(page, f) == Generic("write", page, f)
ReadRaw(f)  == ReadGeneric(Ignore, f)
WriteRaw(f) == WriteGeneric(Ignore, f)

GetCategory(f) == "dd" \in f

(* A QSFP-DD of version 2 or later has its data path powered up, in        *)
(* version 3 on page 16. The version is read twice into one variable: the  *)
(* first read decides on the page, page 0 when it fails, and the later one *)
(* that succeeds on the power up; no failure stops it.                     *)
DatapathPower(page, f) ==
  If({"ver2", "ver3"} \cap f # {},
     Quiet(PageSelect(page, f)) \o << GoOn(Write(page)), GoOn(Read(page)) >>
     \o Quiet(PageSelect(0, f)))
DatapathPowerUp(f) ==
  Block(Branch(S("learnversion", Lower),
               << GoOn(Read(Lower)) >> \o DatapathPower(IF "ver3" \in f THEN 16 ELSE 0, f),
               Branch(Read(Lower), DatapathPower(0, f), << >>)))

(***************************************************************************)
(* Absent: the SFP stand-in of a QSA is freed.  Present: the identifier    *)
(* decides; a plain QSFP is deselected and then asked, in two calls of     *)
(* their own, for its power class and put into low power.                  *)
(***************************************************************************)
ModuleInit(d, f, pres) ==
  << S("forgetversion", 0) >> \o
  IF ~pres THEN << S("absent", 0) >>
  ELSE LET plain == [d EXCEPT !.qsa = FALSE]
           rest == IF "sfp" \in f THEN << >>
                   ELSE DefaultPageIfPaged(f) \o
                        IF "dd" \in f THEN DatapathPowerUp(f)
                        ELSE QsfpDeselect \o Quiet(MediaMaxPowerGet(plain)) \o
                             If("soft" \in f, Quiet(MediaForcePowerModeSet(plain, f, 0))) \o << Done >>
       IN Around(QsfpSelect, Block(<< S("identify", Lower) >> \o rest), QsfpDeselect)

PhyOf4x1(type, steps) == Qsfp(IF type = "4x1" THEN steps ELSE << Refused >>)
PhyAutonegSet(type, ch, up) == PhyOf4x1(type, Qsfp4x1AutonegSet(ch, up))
PhyModeSet(type, ch, up)    == PhyOf4x1(type, Qsfp4x1ModeSet(ch, up))
PhySpeedSet(type, ch)       == PhyOf4x1(type, Qsfp4x1SpeedSet(ch))
PhyLinkStatusGet    == Refuse
PhyPowerDownEnable  == Refuse
PhySerdesControl    == Refuse
WavelengthSet       == Refuse

(* Both registers are written only when they change; the second result     *)
(* replaces the first.                                                     *)
ExtRateSelect(d, ch, changes) ==
  IF d.qsa \/ ~ValidateChannel(ch, d) THEN Refuse
  ELSE Qsfp(Block(<< Read(Lower), Read(Lower) >> \o
                  If("rx" \in changes, << GoOn(Write(Lower)) >>) \o
                  If("tx" \in changes, << Write(Lower) >>)))

(* The adapter is read with the SFP held in reset.  A failed selection     *)
(* returns with the reset still asserted.                                  *)
QsaAdapterTypeGet(d) ==
  IF ~d.qsa THEN << >>
  ELSE ModuleReset(TRUE) \o OrLeave(Qsfp(<< GoOn(Read(Lower)) >>)) \o
       ModuleReset(FALSE)

(* sdi_qsfp.c *)
PresenceGet == Pins(<< PinRead >>)

(* Mutant: the budget of the cage is not asked. *)
ModuleControlFree(d, f, type, enable, budget) ==
  IF d.qsa \/ type = "none" THEN Refuse
  ELSE IF type = "reset" THEN ModuleReset(enable)
  ELSE If(d.soft, MediaForcePowerModeSet(d, f, IF enable THEN 0 ELSE 1)) \o
       Pins(<< PinRead, PinWrite(0) >>)

ModuleControl(d, f, type, enable, budget) ==
  IF d.qsa \/ type = "none" THEN Refuse
  ELSE IF type = "reset" THEN ModuleReset(enable)
  ELSE IF d.mw > budget /\ ~enable THEN Refuse
  ELSE If(d.soft, MediaForcePowerModeSet(d, f, IF enable THEN 0 ELSE 1)) \o
       Pins(<< PinRead, PinWrite(0) >>)

ModuleControlStatusGet(d, type) ==
  IF d.qsa \/ type = "none" THEN Refuse ELSE Pins(<< PinRead >>)

=============================================================================
