----------------------------- MODULE MediaSteps -----------------------------
(***************************************************************************)
(* The vocabulary in which the transceiver drivers are written down.  Each *)
(* function of sdi_qsfp_eeprom.c, sdi_sfp_eeprom.c and of the PHY helpers  *)
(* is the sequence of steps it takes: take and write the two selection pin *)
(* groups, access the module, give the groups back.  MediaAccess executes  *)
(* the steps of several threads on a few ports.                            *)
(*                                                                         *)
(* A step is                                                               *)
(*   do    what it does                                                    *)
(*   n     its operand: the page an access means (Lower for a register     *)
(*         below 128 or one of device A2 that no page covers), a page      *)
(*         number, a transmitter with a sign                               *)
(*   skip  how many of the following steps are skipped when it fails       *)
(*         (the code's break, or return), Open when no block says so yet:  *)
(*         an open step that fails is followed by the next one             *)
(*   quiet the return code of the call is not assigned from this step      *)
(***************************************************************************)
EXTENDS Integers, Sequences

Lower == -1
Open  == -1
Everything == -2

S(do, n) == [do |-> do, n |-> n, skip |-> Open, quiet |-> FALSE]

(* do { ... } while (0): a failure leaves the block. *)
Block(body) ==
  [i \in DOMAIN body |-> IF body[i].skip = Open
                         THEN [body[i] EXCEPT !.skip = Len(body) - i] ELSE body[i]]

(* A failure that is only logged, one that returns without the cleanup. *)
GoOn(s)  == [s EXCEPT !.skip = 0]
Leave(s) == [s EXCEPT !.skip = Everything]
(* Steps whose result is not assigned to the return code. *)
Quiet(steps) == [i \in DOMAIN steps |-> [steps[i] EXCEPT !.quiet = TRUE]]

If(c, steps) == IF c THEN steps ELSE << >>

Read(page)  == S("read", page)
Write(page) == S("write", page)
(* A transmitter to be switched on, or off: its number with a sign. *)
Lane(ch, on) == IF on THEN ch + 1 ELSE -(ch + 1)
Serdes == 9
(* A return code set by the code itself; a test of it; a return. *)
Refused   == S("refused", 0)
Check     == S("check", 0)
Return    == Leave(S("check", 0))
Done      == S("done", 0)
Refuse    == << Refused >>

(* yes when the module answers the question, no when it does not: the jump *)
(* at the end of yes passes over no. A choice is silent about the failure. *)
Branch(question, yes, no) ==
  << [question EXCEPT !.skip = Len(yes) + 1] >> \o yes \o << S("jump", Len(no)) >> \o no
Choose(question, yes, no) == Branch([question EXCEPT !.quiet = TRUE], yes, no)

(* Mutant of SfpSelect: the module group is not taken. *)
SfpSelectMux == << S("acqmux", 0), S("setmux", 0) >>

(***************************************************************************)
(* sdi_qsfp_module_select and sdi_sfp_module_select: the mux group, then   *)
(* the module group, each acquired and written; what was acquired is given *)
(* back when a later step of the selection fails (MediaAccess!SelectFails).  *)
(* deselect releases the mux group first.                                  *)
(***************************************************************************)
SfpSelect == << S("acqmux", 0), S("setmux", 0), S("acqmod", 0), S("setmod", 0) >>
QsfpSelect == << S("acqmux", 0), S("setmux", 0), S("acqmod", 0), S("setmod", 0) >>
QsfpDeselect == << S("dropmux", 0), S("dropmod", 0) >>
SfpDeselect == << S("dropmux", 0), S("dropmod", 0) >>

Around(select, body, deselect) ==
  LET all == select \o body \o deselect
  IN [i \in DOMAIN all |->
        IF i <= Len(select) THEN [all[i] EXCEPT !.skip = Len(all) - i] ELSE all[i]]

(* The section whose failed selection also ends the call. *)
OrLeave(section) == [i \in DOMAIN section |->
                       IF i <= Len(QsfpSelect) THEN Leave(section[i]) ELSE section[i]]

Qsfp(body) == Around(QsfpSelect, body, QsfpDeselect)
Sfp(body)  == Around(SfpSelect, body, SfpDeselect)

(* acquire, read, write and release of a pin group of the presence, reset, *)
(* low power and transmit lines.                                           *)
Pins(body) == LET all == << S("acqpin", 0) >> \o Block(body) \o << S("droppin", 0) >>
              IN [all EXCEPT ![1].skip = Len(all) - 1]
PinRead == S("pinread", 0)
PinWrite(n) == S("pinwrite", n)

=============================================================================
