------------------------------- MODULE DeviceBus -------------------------------
(* What the drivers of the simple I2C devices share. A call of a driver is a  *)
(* chain of bus accesses over a record that holds the registers, the driver's *)
(* data and whether the call is still without an error; one access of a call, *)
(* any of them, may fail, and what follows it in the code is then left out. A *)
(* driver that logs a failure and goes on says so with GoOn.                  *)
EXTENDS Integers, FiniteSetsExt

CONSTANTS
  Accesses,   \* one more than the accesses of the longest call
  Fails       \* the numbers of the accesses that may fail; Accesses: none does

VARIABLES
  conf,   \* the device: its driver and what its node of the configuration says
  chip,   \* its registers
  drv,    \* the driver's data
  out,    \* the last call: its name, its outcome and the value it delivered
  seen    \* history: what callers were promised, faults nobody was told of yet

device == <<conf, chip, drv, out, seen>>

(* The call whose access number n fails; with n = Accesses none does. *)
Begin(n) == [ok |-> TRUE, left |-> n, val |-> 0, chip |-> chip, drv |-> drv]

(* An access: t is the record after it. *)
Access(s, t) ==
  IF ~s.ok THEN s
  ELSE IF s.left = 0 THEN [s EXCEPT !.ok = FALSE, !.left = Accesses]
  ELSE [t EXCEPT !.left = @ - 1]

Then(s, t) == IF s.ok THEN t ELSE s
GoOn(s) == [s EXCEPT !.ok = TRUE]

(* Calls of one device come one after another: the next one starts when the     *)
(* caller has taken what the last one brought. A call that divided by zero took *)
(* the process with it, so it is never taken.                                   *)
NoCall == [call |-> "none", res |-> "ok", val |-> 0]
Taken == /\ out.call # "none" /\ out.res # "died"
         /\ out' = NoCall /\ UNCHANGED <<conf, chip, drv, seen>>

Is(d) == conf.dev = d
On(d) == Is(d) /\ out.call = "none"

Outcome(call, res, val) == out' = [call |-> call, res |-> res, val |-> val]

(* The end of a call: val is what it delivers when no access failed, g the *)
(* history after it.                                                       *)
Finish(call, s, val, g) ==
  /\ chip' = s.chip /\ drv' = s.drv /\ seen' = g
  /\ IF s.ok THEN Outcome(call, "ok", val) ELSE Outcome(call, "failed", 0)
  /\ UNCHANGED conf

(* A call that is refused before any access, and one that divides by zero. *)
Refuse(call, res) == Outcome(call, res, 0) /\ UNCHANGED <<conf, chip, drv, seen>>
Die(call) == Refuse(call, "died")

Min2(a, b) == IF a < b THEN a ELSE b
================================================================================
