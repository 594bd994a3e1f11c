--------------------------- MODULE I2cStackCalls ----------------------------
(***************************************************************************)
(* I2cStack with threads that make at most MaxCalls calls in all, the      *)
(* system in which progress is checked.  A default pthread mutex promises  *)
(* no waiter its turn, so each thread is only weakly fair: once it is in a *)
(* call it keeps executing while it is not blocked.                        *)
(***************************************************************************)
EXTENDS MC_I2cStack

CONSTANT MaxCalls

VARIABLE calls   \* the calls the threads have started

InitCalls == Init /\ calls = 0

StartCall(t) ==
  /\ calls < MaxCalls
  /\ Start(t)
  /\ calls' = calls + 1

AdvanceCall(t) == Advance(t) /\ UNCHANGED calls

NextCalls == \E t \in Thread : StartCall(t) \/ AdvanceCall(t)

FairCalls ==
  /\ InitCalls /\ [][NextCalls]_<<vars, calls>>
  /\ \A t \in Thread : WF_<<vars, calls>>(AdvanceCall(t))

(***************************************************************************)
(* Every call returns, whatever fails on the way: the lock order mux lock, *)
(* pin group, adapter is free of cycles (also when the pin group is itself *)
(* reached over the adapter) and retries are bounded                       *)
(* (sdi_i2cmux_pin.c:80-146, sdi_i2cdev.c:290-296).                        *)
(***************************************************************************)
CallsReturn == \A t \in Thread : pc[t] # "idle" ~> pc[t] = "idle"
=============================================================================
