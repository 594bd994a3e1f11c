------------------------------ MODULE MediaApi ------------------------------
(***************************************************************************)
(* hwcore/sdi_media.c: the operations of a front panel port, with the      *)
(* driver a port is bound to (sdi_qsfp.c, sdi_qsfp28_dd.c, sdi_sfp.c).     *)
(* Each definition is the set of step sequences a call of that function    *)
(* can be, over its arguments.  c describes the port that is called:       *)
(*   kind   "qsfp", "dd" (a sub-port of a double density cage) or "sfp"    *)
(*   first  the first channel of the sub-port, 0 elsewhere                 *)
(*   d, f   what QsfpEeprom and SfpEeprom say                              *)
(*   mw     the power the cage can supply                                  *)
(* A call with the handle of another resource returns EPERM before any of  *)
(* this: it is left out.                                                   *)
(***************************************************************************)
EXTENDS QsfpEeprom, SfpEeprom, FiniteSets

CONSTANT Channels       \* the channels asked for, of a sub-port

IsQsfp(c) == c.kind \in {"qsfp", "dd"}
(* A QSFP operation hands an adapted SFP on to the SFP functions. *)
By(c, q, s) == IF IsQsfp(c) /\ ~c.d.qsa THEN q ELSE s
(* The operations without SFP callback. *)
IfQsfp(c, q) == IF IsQsfp(c) THEN q ELSE Refuse
ChannelOffsetGet(c) == c.first
Ch(c, ch) == ch + ChannelOffsetGet(c)
Flags(kinds) == {{}, kinds} \cup {{k} : k \in kinds}

(* A sub-port other than the first is present only with a double density   *)
(* module: its identifier is read, whatever the pin said.                  *)
DdPresenceGet(c) == PresenceGet \o << Return >> \o If(c.first > 0, ParameterGet(c.d, "id"))
MediaPresenceGet(c) ==
  {IF c.kind = "dd" THEN DdPresenceGet(c) ELSE By(c, PresenceGet, SfpPresenceGet)}
MediaModuleMonitorStatusGet(c) ==
  {By(c, ModuleMonitorStatusGet(g), SfpModuleMonitorStatusGet(c.f, h)) :
     g \in Flags({"temp", "volt"}), h \in Flags({"alarms", "warnings"})}
MediaChannelMonitorStatusGet(c) ==
  {By(c, ChannelMonitorStatusGet(c.d, Ch(c, ch), g), SfpChannelMonitorStatusGet(c.f, Ch(c, ch), h)) :
     ch \in Channels, g \in Flags({"rx", "bias"}), h \in Flags({"txalarm", "rxalarm", "txwarn", "rxwarn"})}
MediaChannelStatusGet(c) ==
  {By(c, ChannelStatusGet(c.d, Ch(c, ch), g), SfpChannelStatusGet(c.f, Ch(c, ch), g)) :
     ch \in Channels, g \in Flags({"disable", "fault", "txlos", "rxlos"})}
MediaTxControl(c) ==
  {By(c, TxControl(c.d, c.f, Ch(c, ch), on), SfpTxControl(c.f, Ch(c, ch), on)) :
     ch \in Channels, on \in BOOLEAN}
MediaTxControlStatusGet(c) ==
  {By(c, TxControlStatusGet(c.d, Ch(c, ch)), SfpTxControlStatusGet(c.f, Ch(c, ch))) : ch \in Channels}
MediaCdrStatusSet(c) == {IfQsfp(c, CdrStatusSet(c.d, c.f, Ch(c, ch))) : ch \in Channels}
MediaCdrStatusGet(c) == {IfQsfp(c, CdrStatusGet(c.d, c.f, Ch(c, ch))) : ch \in Channels}
MediaSpeedGet(c)     == {By(c, SpeedGet, SfpSpeedGet)}
MediaParameterGet(c) ==
  {By(c, ParameterGet(c.d, q), SfpParameterGet(c.f, s)) :
     q \in {"none", "length", "other"}, s \in {"none", "wavelength", "tuned", "other"}}
MediaVendorInfoGet(c)      == {By(c, VendorInfoGet, SfpVendorInfoGet)}
MediaTransceiverCodeGet(c) == {By(c, TransceiverCodeGet, SfpTransceiverCodeGet)}
MediaThresholdGet(c) ==
  {By(c, ThresholdGet(c.d, c.f, k # "none"), SfpThresholdGet(c.f, k)) : k \in {"none", "rxpower", "other"}}
MediaMonitorThresholdGet(c) == {By(c, MonitorThresholdGet, SfpMonitorThresholdGet)}
MediaModuleControl(c) ==
  {IfQsfp(c, ModuleControl(c.d, c.f, k, on, c.mw)) : k \in {"none", "reset", "lpmode"}, on \in BOOLEAN}
MediaModuleControlStatusGet(c) ==
  {IfQsfp(c, ModuleControlStatusGet(c.d, k)) : k \in {"none", "reset", "lpmode"}}
MediaPhyAutonegSet(c) ==
  {By(c, PhyAutonegSet(k, Ch(c, ch), up), SfpPhyAutonegSet(up)) :
     k \in {"4x1", "other"}, ch \in Channels, up \in BOOLEAN}
MediaPhyModeSet(c) ==
  {By(c, PhyModeSet(k, Ch(c, ch), up), SfpPhyModeSet(up)) :
     k \in {"4x1", "other"}, ch \in Channels, up \in BOOLEAN}
(* Every speed of the list is set in turn, the last one's result is what   *)
(* the caller sees.                                                        *)
MediaPhySpeedSet(c) ==
  LET once(k, ch, same) == By(c, PhySpeedSet(k, Ch(c, ch)), SfpPhySpeedSet(c.f, same))
  IN {once(k, ch, same) \o More : k \in {"4x1", "other"}, ch \in Channels, same \in BOOLEAN,
                                  More \in {<< >>, once("4x1", 0, FALSE)}}
MediaPhyLinkStatusGet(c) == {By(c, PhyLinkStatusGet, SfpPhyLinkStatusGet(c.f))}
MediaPhyPowerDownEnable(c) ==
  {By(c, PhyPowerDownEnable, SfpPhyPowerDownEnable(down, change)) : down, change \in BOOLEAN}
MediaPhySerdesControl(c) == {By(c, PhySerdesControl, SfpPhySerdesControl(c.f, on)) : on \in BOOLEAN}
MediaModuleMonitorGet(c) ==
  {By(c, ModuleMonitorGet(known), SfpModuleMonitorGet(c.f, known)) : known \in BOOLEAN}
MediaChannelMonitorGet(c) ==
  {By(c, ChannelMonitorGet(c.d, Ch(c, ch), k), SfpChannelMonitorGet(c.f, Ch(c, ch), k)) :
     ch \in Channels, k \in {"none", "rxpower", "txpower", "bias"}}
MediaReadGeneric(c, pages) ==
  {By(c, ReadGeneric(page, c.f), SfpReadGeneric(ok)) : page \in pages, ok \in BOOLEAN}
MediaWriteGeneric(c, pages) ==
  {By(c, WriteGeneric(page, c.f), SfpWriteGeneric(ok)) : page \in pages, ok \in BOOLEAN}
MediaRead(c)  == {By(c, ReadRaw(c.f), SfpRead)}
MediaWrite(c) == {By(c, WriteRaw(c.f), SfpWrite)}
MediaFeatureSupportStatusGet(c) == {By(c, FeatureSupportStatusGet(c.f), SfpFeatureSupportStatusGet)}
(* The QSFP drivers have no led_set, and nothing tests for that. *)
MediaLedSet(c) ==
  IF IsQsfp(c) THEN {} ELSE {SfpLedSet(c.f, Ch(c, ch), v) : ch \in Channels, v \in {"1g", "10g", "other"}}
MediaModuleInit(c, pres) == {IF IsQsfp(c) THEN ModuleInit(c.d, c.f, pres) ELSE SfpModuleInit}
MediaExtRateSelect(c) ==
  {IfQsfp(c, ExtRateSelect(c.d, Ch(c, ch), g)) : ch \in Channels, g \in Flags({"rx", "tx"})}
MediaWavelengthSet(c) == {By(c, WavelengthSet, SfpWavelengthSet(c.f, ok)) : ok \in BOOLEAN}
MediaQsaAdapterTypeGet(c) == {IF IsQsfp(c) THEN QsaAdapterTypeGet(c.d) ELSE SfpQsaAdapterTypeGet}

(* An RJ45 or backplane port: sdi_fixed_port.c answers without any access. *)
FixedPortCalls == {<< >>}
=============================================================================
