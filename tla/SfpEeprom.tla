----------------------------- MODULE SfpEeprom -----------------------------
(***************************************************************************)
(* sdi_sfp_eeprom.c and the pins of sdi_sfp.c: what every operation of an  *)
(* SFP port does, as steps of MediaSteps.                                  *)
(*                                                                         *)
(* f is the set of what the module answers and of how the port is wired:   *)
(*   "alarm", "ddm", "extcal"/"intcal" (calibration), "rate", "extmod"     *)
(*   (external controller), "options" (an enhanced options byte that is    *)
(*   not 0), "softtx", "softfault", "softlos", "tunable", "bychannel" or   *)
(*   "bywave" (how it is tuned), "tunes" (it reports success);             *)
(*   "txpin", "lospin", "faultpin", "led": pin groups of the port.         *)
(* Only the tuning registers lie on a page, 2.                             *)
(***************************************************************************)
EXTENDS MediaPhy

Channel0(ch, steps) == IF ch # 0 THEN Refuse ELSE steps

IsAlarmFlagsSupported      == << Read(Lower) >>
IsDiagMonitoringSupported  == << Read(Lower) >>
IsSfpRateSelectSupported   == << Read(Lower) >>
IsExtModCtrlSupported      == << Read(Lower) >>
IsWavelengthTuneSupported  == << Read(Lower) >>
(* A failure of the read counts as no external controller. *)
OnAqExtModCtrl(f, yes, no) ==
  IF "extmod" \in f THEN Choose(Read(Lower), yes, no) ELSE Quiet(<< GoOn(Read(Lower)) >>) \o no

SfpPageSelect(n) == << S("page", n) >>

SfpModuleMonitorStatusGet(f, flags) ==
  Sfp(Block(IsAlarmFlagsSupported \o
      IF "alarm" \notin f THEN << Refused >>
      ELSE If("alarms" \in flags, << Read(Lower) >>) \o If("warnings" \in flags, << Read(Lower) >>)))

SfpChannelMonitorStatusGet(f, ch, flags) ==
  Channel0(ch, Sfp(Block(IsAlarmFlagsSupported \o
      IF "alarm" \notin f THEN << Refused >>
      ELSE If("txalarm" \in flags, << Read(Lower) >>) \o If("rxalarm" \in flags, << Read(Lower) >>) \o
           If("txwarn" \in flags, << Read(Lower) >>) \o If("rxwarn" \in flags, << Read(Lower) >>))))

(* The option byte; the rest of the section only when it is not 0. *)
SfpOptions(f, rest) == Block(<< Read(Lower) >> \o If("options" \in f, rest))

(* Each flag comes from its pin, or from the status byte read before; an   *)
(* option the module lacks sets the return code and the next flag follows. *)
SfpChannelStatusGet(f, ch, flags) ==
  Channel0(ch,
    LET soft  == IF {"txpin", "lospin", "faultpin"} \subseteq f THEN << >>
                 ELSE Sfp(SfpOptions(f, << Read(Lower) >>)) \o << Return >>
        One(flag, pin, bit) ==
          IF flag \notin flags THEN << >>
          ELSE IF pin \in f THEN Pins(<< PinRead >>) \o << Return >>
          ELSE If({bit, "options"} \ f # {}, << GoOn(Refused) >>)
    IN soft \o One("disable", "txpin", "softtx") \o One("fault", "faultpin", "softfault")
            \o One("rxlos", "lospin", "softlos") \o If("txlos" \in flags, << Refused >>))

(* With an external controller the serdes is switched first, its result is *)
(* replaced by the one of the option byte.                                 *)
SfpTxControl(f, ch, enable) ==
  Channel0(ch,
    IF "txpin" \in f
    THEN Pins(<< PinRead, S("txpin", Lane(0, enable)), S("asked", Lane(0, enable)) >>)
    ELSE LET aq == OnAqExtModCtrl(f, CusfpPlusPhySerdesControl(f, enable), << >>)
         IN Sfp(aq \o SfpOptions(f,
              << S("readtx", Lower) >> \o
              IF "softtx" \in f
              THEN << S("writetx", Lane(0, enable)), S("asked", Lane(0, enable)) >>
              ELSE << Refused >>)))

SfpTxControlStatusGet(f, ch) ==
  Channel0(ch,
    IF "txpin" \in f THEN Pins(<< PinRead >>)
    ELSE Sfp(SfpOptions(f, << Read(Lower) >> \o If("softtx" \notin f, << Refused >>))))

SfpSpeedGet == << >>

(* The two reads of the tuned wavelength return from the section. *)
SfpParameterGet(f, param) ==
  IF param = "none" THEN Refuse
  ELSE Sfp(Block(If(param = "wavelength", IsWavelengthTuneSupported) \o
           IF param = "tuned" \/ (param = "wavelength" /\ "tunable" \in f)
           THEN SfpPageSelect(2) \o << Leave(Read(2)), Leave(Read(2)) >> \o SfpPageSelect(0)
           ELSE << Read(Lower) >>))

SfpVendorInfoGet      == Sfp(Block(<< Read(Lower) >>))
SfpTransceiverCodeGet == Sfp(Block(<< Read(Lower) >>))

(* The kind of diagnostics is asked in a section of its own. *)
Diagnosed(f, section) ==
  SfpParameterGet(f, "diag") \o << Return >> \o
  IF "ddm" \notin f \/ {"extcal", "intcal"} \cap f = {} THEN << Refused >> ELSE section

SfpThresholdGet(f, kind) ==
  Diagnosed(f,
    IF kind = "none" THEN << Refused >>
    ELSE Sfp(Block(<< Read(Lower) >> \o
             If("extcal" \in f, IF kind = "rxpower" THEN << Read(Lower) >>
                                ELSE << Read(Lower), Read(Lower) >>))))

SfpMonitorThresholdGet == Refuse

RxPowerValueRead(f)      == << Read(Lower) >> \o If("extcal" \in f, << Read(Lower) >>)
ModuleMonitorValueRead(f) == << Read(Lower) >> \o If("extcal" \in f, << Read(Lower), Read(Lower) >>)

SfpModuleMonitorGet(f, known) ==
  Diagnosed(f, Sfp(Block(IF known THEN ModuleMonitorValueRead(f) ELSE << Refused >>)))

SfpChannelMonitorGet(f, ch, monitor) ==
  Channel0(ch, Diagnosed(f, Sfp(Block(
    IF monitor = "none" THEN << Refused >>
    ELSE IF monitor = "rxpower" THEN RxPowerValueRead(f) ELSE ModuleMonitorValueRead(f)))))

SfpFeatureSupportStatusGet ==
  Sfp(Block(IsAlarmFlagsSupported \o IsDiagMonitoringSupported \o IsSfpRateSelectSupported
            \o IsWavelengthTuneSupported \o IsExtModCtrlSupported))

SfpReadGeneric(valid)  == IF valid THEN Sfp(Block(<< Read(Lower) >>)) ELSE Refuse
SfpWriteGeneric(valid) == IF valid THEN Sfp(Block(<< Write(Lower) >>)) ELSE Refuse
SfpRead  == SfpReadGeneric(TRUE)
SfpWrite == SfpWriteGeneric(TRUE)

SfpPhyAutonegSet(up) == Sfp(CusfpPhyAutonegSet(up))
SfpPhyModeSet(up)    == Sfp(CusfpPhyModeSet(up))
SfpPhySpeedSet(f, same) ==
  Sfp(OnAqExtModCtrl(f, CusfpPlusPhySpeedSet(f, same), CusfpPhySpeedSet))
SfpPhyLinkStatusGet(f) ==
  Sfp(OnAqExtModCtrl(f, CusfpPlusPhyLinkStatusGet(f), CusfpPhyLinkStatusGet))
SfpPhyPowerDownEnable(macdown, change) == Sfp(CusfpPhyPowerDownEnable(macdown, change))
SfpPhySerdesControl(f, enable) ==
  Sfp(OnAqExtModCtrl(f, CusfpPlusPhySerdesControl(f, enable), CusfpPhySerdesControl(enable)))

SfpModuleInit == << >>

SfpGetTunableCapabilities(f) ==
  << Read(2) >> \o IF {"bychannel", "bywave"} \cap f = {} THEN << Refused >> ELSE << Read(2) >>
(* High byte, low byte, of the channel number or of the wavelength. *)
SfpSetTunableModuleByWavelength(inrange) ==
  IF inrange THEN << Write(2), Write(2) >> ELSE << Refused >>
(* One round of the poll; a failed read is only remembered. *)
SfpTuneSetStatusGet == << GoOn(Read(2)), Read(2) >>

(* Only the last step selects page 0 again: every break before it leaves   *)
(* page 2.  A module that cannot be tuned ends the call with success.      *)
SfpWavelengthSet(f, inrange) ==
  Sfp(Block(IsWavelengthTuneSupported \o
      If("tunable" \in f,
         SfpPageSelect(2) \o SfpGetTunableCapabilities(f) \o SfpSetTunableModuleByWavelength(inrange)
         \o SfpTuneSetStatusGet \o If("tunes" \notin f, << Refused >>) \o SfpPageSelect(0))))

SfpQsaAdapterTypeGet == << >>

(* sdi_sfp.c *)
SfpPresenceGet == Pins(<< PinRead >>)
SfpLedSet(f, ch, speed) ==
  Channel0(ch, IF "led" \notin f THEN Refuse
               ELSE Pins(<< PinRead >> \o IF speed = "other" THEN << Refused >> ELSE << PinWrite(0) >>))

=============================================================================
