----------------------------- MODULE I2cService -----------------------------
(***************************************************************************)
(* What the I2C bus API promises a driver, whatever muxes lie between the  *)
(* adapter and the device: a call is a session with one device.  Sessions  *)
(* do not overlap, and every transfer reaches the session's device and no  *)
(* other one ("Acquire operation should lock the bus for I2C transaction", *)
(* sdi_i2c.h).                                                             *)
(***************************************************************************)
CONSTANTS
  Thread,      \* callers
  Destination, \* what a session may be opened with: a bus and an address
  Device,      \* the targets that are present
  NoTarget,    \* no session
  NoThread

VARIABLES
  session,     \* session[t]: the device thread t is in a session with
  ptr          \* ptr[d]: the thread whose transfer device d took last

Init ==
  /\ session = [t \in Thread |-> NoTarget]
  /\ ptr = [d \in Device |-> NoThread]

Open(t) ==
  /\ \A u \in Thread : session[u] = NoTarget
  /\ \E d \in Destination : session' = [session EXCEPT ![t] = d]
  /\ UNCHANGED ptr

\* A transfer of the session; one that fails may leave the pointer anywhere.
Touch(t) ==
  /\ session[t] \in Device
  /\ \E v \in {t, NoThread} : ptr' = [ptr EXCEPT ![session[t]] = v]
  /\ UNCHANGED session

Close(t) ==
  /\ session[t] # NoTarget
  /\ session' = [session EXCEPT ![t] = NoTarget]
  /\ UNCHANGED ptr

Next == \E t \in Thread : Open(t) \/ Touch(t) \/ Close(t)

Spec == Init /\ [][Next]_<<session, ptr>>
=============================================================================
