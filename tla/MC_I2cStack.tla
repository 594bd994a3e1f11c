---------------------------- MODULE MC_I2cStack ----------------------------
(***************************************************************************)
(* Board layouts on which I2cStack is model-checked.  The addresses a      *)
(* layout gives to devices of two channels of one mux are equal, which is  *)
(* what muxes are for; devices that may be on the wire together differ.    *)
(***************************************************************************)
EXTENDS I2cStack, TLC

CONSTANTS t1, t2, root, c1, c2, c3, a, b, d, cp

Threads2 == {t1, t2}
SymT     == Permutations({t1, t2})
NoBus    == {}
Chans    == {c1, c2}

\* One PCA mux m with the control register cp for both channels.
PcaMux == [c \in {c1, c2} |-> "m"]
PcaSel == [c \in {c1, c2} |-> "s"]
PcaReg == [s \in {"s"} |-> cp]

\* A mux m for c1 and c2, selected by a register cp on the root bus, and a mux
\* n for c3, selected by GPIO pins.
PinChans == {c1, c2, c3}
PinMux   == [c \in {c1, c2, c3} |-> IF c = c3 THEN "n" ELSE "m"]
PinSel   == [c \in {c1, c2, c3} |-> IF c = c3 THEN "r" ELSE "s"]
PinReg   == [s \in {"r", "s"} |-> IF s = "s" THEN cp ELSE NoAddr]

Addrs == {a, b, d, cp}

Req(bus, addr, pec, wide, n) ==
  [bus |-> bus, addr |-> addr, pec |-> pec, wide |-> wide, n |-> n]

\* Two devices with the same address a behind mux m.
PcaDevices  == {<<root, b>>, <<root, cp>>, <<c1, a>>, <<c2, a>>}
PcaRequests == {Req(c1, a, TRUE, TRUE, 1), Req(c2, a, FALSE, FALSE, 2)}
\* A thread may use the root bus as well.
RootRequests == PcaRequests \cup {Req(root, b, FALSE, FALSE, 1)}

PinDevices   == PcaDevices \cup {<<c3, d>>}
PinRequests  == {Req(root, b, FALSE, FALSE, 2), Req(c1, a, TRUE, TRUE, 1),
                 Req(c2, a, FALSE, FALSE, 1), Req(c3, d, FALSE, FALSE, 1)}
\* All channels and not the root bus.
ChanRequests == {Req(c1, a, FALSE, TRUE, 1), Req(c2, a, FALSE, FALSE, 1),
                 Req(c3, d, TRUE, FALSE, 2)}
=============================================================================
