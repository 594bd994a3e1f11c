------------------------------ MODULE MediaPhy ------------------------------
(***************************************************************************)
(* The copper PHY behind an SFP, as steps of MediaSteps:                   *)
(* sdi_media_phy_mgmt.c, the mailbox of external controllers               *)
(* (sdi_media_ext_mod_ctrl.c), the Aquantia controller on top of it        *)
(* (sdi_sfp_plus_aq.c) and the four PHYs of a 4x1000BASE-T QSFP            *)
(* (sdi_qsfp_4X1_1000baseT.c).  All run inside the section of their caller.*)
(* "busy" in the facts: the controller never reports that it is done.      *)
(***************************************************************************)
EXTENDS MediaSteps

PhyWrite == << Write(Lower) >>
PhyRead  == << Read(Lower) >>

(* The read is not checked: what is written back is 0 when it failed. *)
PhySwReset == Quiet(<< GoOn(Read(Lower)) >>) \o PhyWrite

(* up: the control register does not say power-down, a reset applies it. *)
CusfpPhyAutonegSet(up) == Block(PhyRead \o PhyWrite \o If(up, PhySwReset))
CusfpPhyModeSet(up)    == Block(PhyRead \o PhyWrite \o If(up, PhySwReset))
CusfpPhySpeedSet       == Block(PhyRead \o PhyWrite \o PhyRead \o PhyWrite)
CusfpPhyLinkStatusGet  == Block(PhyRead)

(* A powered-down MAC interface is woken first, a reset whose result is    *)
(* dropped follows; the power bit is written only when it changes.         *)
CusfpPhyPowerDownEnable(macdown, change) ==
  Block(PhyRead \o PhyRead \o
        If(macdown, PhyWrite \o Quiet(<< GoOn(Read(Lower)), GoOn(Write(Lower)) >>)) \o
        If(change, PhyWrite))
CusfpPhySerdesControl(enable) == Block(PhyWrite \o PhyWrite)

(***************************************************************************)
(* One operation of the mailbox: the six registers are written at once,    *)
(* the status is polled, then the data is read.  The poll that runs out of *)
(* time returns the success of its last read; the data is then missing.    *)
(* command is the write that starts it, data the read of a result.         *)
(***************************************************************************)
ReadGenericA2  == << Read(Lower) >>
WriteGenericA2 == << Write(Lower) >>
PerformOper(f, command, data) ==
  (IF "busy" \in f THEN WriteGenericA2 ELSE command)
  \o ReadGenericA2 \o If("busy" \notin f, data)
(* The chain stops at the first operation that fails: the steps of the     *)
(* operations follow one another in the block of the caller.               *)
ExtModCtrlChainOper(opers) == opers

AqRead(f)  == ExtModCtrlChainOper(PerformOper(f, WriteGenericA2, ReadGenericA2))
AqWrite(f) == PerformOper(f, WriteGenericA2, << >>)

(* Advertisement, rate and restart: of the five registers the tables write *)
(* the first and the last.                                                 *)
AqRateSetPackets(f) == AqWrite(f) \o AqWrite(f)

AqGetTxState(f) == ExtModCtrlChainOper(PerformOper(f, WriteGenericA2, << S("readserdes", Lower) >>))
AqSetTxState(f, on) ==
  AqRead(f) \o ExtModCtrlChainOper(PerformOper(f, << S("writetx", IF on THEN Serdes ELSE -Serdes) >>, << >>))

(* Both registers of the line side; a rate the code does not know is an    *)
(* error.                                                                  *)
AqGetLineSideStatus(f)   == AqRead(f) \o AqRead(f) \o If("oddrate" \in f, << Refused >>)
AqGetSystemSideStatus(f) == AqRead(f) \o If("oddrate" \in f, << Refused >>)

(***************************************************************************)
(* A rate set switches the serdes off and on again if it was on.  Every    *)
(* failure returns: between the two it leaves the serdes off.              *)
(***************************************************************************)
AqSetRate(f, same) ==
  Block(AqGetLineSideStatus(f) \o
        If(~same, AqGetTxState(f) \o AqSetTxState(f, FALSE) \o
                  ExtModCtrlChainOper(AqRateSetPackets(f)) \o
                  << S("wason", 0) >> \o AqSetTxState(f, TRUE)))
AqGetLinkStatus(f) == Block(AqGetLineSideStatus(f) \o AqGetSystemSideStatus(f))

CusfpPlusPhySerdesControl(f, enable) ==
  Block(AqSetTxState(f, enable) \o << S("asked", IF enable THEN Serdes ELSE -Serdes) >>)
CusfpPlusPhyLinkStatusGet(f)  == AqGetLinkStatus(f)
CusfpPlusPhySpeedSet(f, same) == AqSetRate(f, same)

(* The channel of the PHY multiplexer, then the PHY behind it. *)
ChannelSelect(ch) == IF ch >= 4 THEN << Refused >> ELSE << Write(Lower) >>
Qsfp4x1ModeSet(ch, up)    == Block(ChannelSelect(ch) \o CusfpPhyModeSet(up))
Qsfp4x1SpeedSet(ch)       == Block(ChannelSelect(ch) \o CusfpPhySpeedSet)
Qsfp4x1AutonegSet(ch, up) == Block(ChannelSelect(ch) \o CusfpPhyAutonegSet(up))

=============================================================================
