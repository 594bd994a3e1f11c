------------------------- MODULE MC_EntityPresence --------------------------
(***************************************************************************)
(* Kinds of entity for the runs of EntityPresence.                         *)
(***************************************************************************)
EXTENDS EntityPresence

Kind(psu, hotswap, bmc, powerPin) ==
  [psu |-> psu, hotswap |-> hotswap, bmc |-> bmc, powerPin |-> powerPin]

FanTray    == Kind(FALSE, TRUE, FALSE, FALSE)
PsuTray    == Kind(TRUE, TRUE, FALSE, TRUE)
BmcPsuTray == Kind(TRUE, TRUE, TRUE, FALSE)
Board      == Kind(FALSE, FALSE, FALSE, FALSE)

PinKinds == {FanTray, PsuTray, Board}
FanKind  == {FanTray}
BmcPsu   == {BmcPsuTray}
=============================================================================
