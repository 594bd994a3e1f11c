------------------------------ MODULE I2cStack ------------------------------
(***************************************************************************)
(* The I2C access path of opx-sdi-sys: driver threads that call the bus    *)
(* API (sdi_smbus_xxx, sdi_i2c_xxx) on the bus of a kernel adapter, or     *)
(* on a channel bus behind a mux.  A mux is selected either by a pin group *)
(* (i2cmux_pin) or by writing a control register over I2C (i2cmux_pca).    *)
(*                                                                         *)
(* Every lock operation, every ioctl on the shared file descriptor and     *)
(* every attempt of a transfer is a step of its own, so any two threads    *)
(* interleave between them.  One adapter (Root) with one level of muxes is *)
(* modelled.                                                               *)
(***************************************************************************)
EXTENDS Naturals

CONSTANTS
  Thread,      \* threads of the process that call the bus API
  Root,        \* the bus of the adapter, served by sdi_i2cdev.c
  PinChan,     \* channel buses of muxes selected by a pin group
  PcaChan,     \* channel buses of muxes selected over I2C
  MuxOf,       \* MuxOf[c]: the software mux (its mux_lock) of channel c
  SelOf,       \* SelOf[c]: the selector that connects c: pin group or PCA chip
  SelAddr,     \* SelAddr[s]: the I2C address on Root of selector s, or NoAddr
  Addr,        \* slave addresses
  Device,      \* the devices present, each a pair <<bus, address>>
  Request,     \* calls the threads may make
  MaxRetry,    \* SDI_MAX_IIC_RETRY
  Fault,       \* the kinds of failure that may happen
  NoThread, NoAddr, NoChan

Chan     == PinChan \cup PcaChan
Bus      == Chan \cup {Root}
Mux      == {MuxOf[c] : c \in Chan}
Selector == {SelOf[c] : c \in Chan}

(***************************************************************************)
(* A call: the bus and slave address it names, PEC wanted, 16-bit register *)
(* addressing (a read is then an address write followed by a receive) and  *)
(* the number of executes it makes (byte_count of the multi-byte calls).   *)
(***************************************************************************)
RequestType == [bus : Bus, addr : Addr, pec : BOOLEAN, wide : BOOLEAN, n : Nat \ {0}]

FaultKind == {"lock", "level", "slave", "pec", "xfer"}

ASSUME TopologyAssumption ==
  /\ PinChan \cap PcaChan = {}
  /\ Root \notin Chan
  /\ MuxOf \in [Chan -> Mux]
  /\ SelOf \in [Chan -> Selector]
  /\ SelAddr \in [Selector -> Addr \cup {NoAddr}]
  /\ \A c \in PcaChan : SelAddr[SelOf[c]] \in Addr
  /\ \A c \in PinChan, d \in PcaChan : MuxOf[c] # MuxOf[d] /\ SelOf[c] # SelOf[d]
  /\ Device \subseteq Bus \X Addr

ASSUME CallAssumption ==
  /\ Request \subseteq RequestType
  /\ MaxRetry \in Nat \ {0}
  /\ Fault \subseteq FaultKind
  /\ NoThread \notin Thread
  /\ NoAddr \notin Addr
  /\ NoChan \notin Chan

VARIABLES
  busLock,   \* owner of the adapter's lock (sdi_sys_i2c_bus_t.lock)
  muxLock,   \* muxLock[m]: owner of mux_lock
  groupLock, \* groupLock[s]: owner of the lock of a pin group
  sel,       \* sel[s]: the channel selector s connects, or NoChan
  fdSlave,   \* the slave address set on the file descriptor (ioctl I2C_SLAVE)
  fdPec,     \* PEC enabled on the file descriptor (ioctl I2C_PEC)
  ptr,       \* ptr[d]: the thread that last addressed d's register pointer
  pc,        \* pc[t]: the next step of thread t
  phase,     \* phase[t]: which execute of the call is under way
  call,      \* call[t]: the request being served
  count,     \* count[t]: executes done by the loop of a multi-byte call
  sub,       \* sub[t]: TRUE in the receive half of a 16-bit read
  tries,     \* tries[t]: failed attempts of the transfer under way
  rc         \* rc[t]: "ok" or "err"

locks  == <<busLock, muxLock, groupLock>>
wire   == <<sel, fdSlave, fdPec, ptr>>
locals == <<pc, phase, call, count, sub, tries, rc>>
vars   == <<locks, wire, locals>>

Step == {"idle", "muxlock", "grouplock", "level", "buslock", "slave", "pecon",
         "xfer", "pecoff", "busunlock", "groupunlock", "muxunlock"}

Phase == {"body", "select", "deselect", "getlevel", "setlevel"}

TypeOK ==
  /\ busLock \in Thread \cup {NoThread}
  /\ muxLock \in [Mux -> Thread \cup {NoThread}]
  /\ groupLock \in [Selector -> Thread \cup {NoThread}]
  /\ sel \in [Selector -> Chan \cup {NoChan}]
  /\ fdSlave \in Addr \cup {NoAddr}
  /\ fdPec \in BOOLEAN
  /\ ptr \in [Device -> Thread \cup {NoThread}]
  /\ pc \in [Thread -> Step]
  /\ phase \in [Thread -> Phase]
  /\ call \in [Thread -> Request]
  /\ count \in [Thread -> Nat]
  /\ sub \in [Thread -> BOOLEAN]
  /\ tries \in [Thread -> 0 .. MaxRetry - 1]
  /\ rc \in [Thread -> {"ok", "err"}]

-----------------------------------------------------------------------------
(* What a thread's call is about.                                          *)

OnRoot(t) == call[t].bus = Root
OnPin(t)  == call[t].bus \in PinChan
OnPca(t)  == call[t].bus \in PcaChan

MyMux(t) == MuxOf[call[t].bus]
MySel(t) == SelOf[call[t].bus]

\* The device the execute under way is meant for.
Target(t) == IF phase[t] = "body" THEN <<call[t].bus, call[t].addr>>
                                  ELSE <<Root, SelAddr[MySel(t)]>>

SlaveAddr(t) == Target(t)[2]

WantsPec(t) == phase[t] = "body" /\ call[t].pec

\* A channel's devices are on the wire while its selector connects it.
Connected(b) == b = Root \/ sel[SelOf[b]] = b

\* The devices that answer to the address now set on the file descriptor.
Answering == {d \in Device : d[2] = fdSlave /\ Connected(d[1])}

ControlDevice(s) == <<Root, SelAddr[s]>>

-----------------------------------------------------------------------------
Init ==
  /\ busLock = NoThread
  /\ muxLock = [m \in Mux |-> NoThread]
  /\ groupLock = [s \in Selector |-> NoThread]
  /\ sel \in [Selector -> Chan \cup {NoChan}]
  /\ \A s \in Selector : sel[s] # NoChan => SelOf[sel[s]] = s
  /\ fdSlave = NoAddr
  /\ fdPec = FALSE
  /\ ptr = [d \in Device |-> NoThread]
  /\ pc = [t \in Thread |-> "idle"]
  /\ phase = [t \in Thread |-> "body"]
  /\ call \in [Thread -> Request]
  /\ \A t, u \in Thread : call[t] = call[u]
  /\ count = [t \in Thread |-> 0]
  /\ sub = [t \in Thread |-> FALSE]
  /\ tries = [t \in Thread |-> 0]
  /\ rc = [t \in Thread |-> "ok"]

Goto(t, p) == pc' = [pc EXCEPT ![t] = p]

\* t goes to step p of phase f.
Enter(t, p, f) == Goto(t, p) /\ phase' = [phase EXCEPT ![t] = f]

-----------------------------------------------------------------------------
(* Acquiring the bus of the call.                                          *)

\* A driver calls the bus API.
Start(t) == \E q \in Request :
  /\ pc[t] = "idle"
  /\ call' = [call EXCEPT ![t] = q]
  /\ count' = [count EXCEPT ![t] = 0]
  /\ rc' = [rc EXCEPT ![t] = "ok"]
  /\ \/ q.bus = Root /\ Enter(t, "buslock", "body")
     \/ q.bus \in PinChan /\ Enter(t, "muxlock", "body")
     \/ q.bus \in PcaChan /\ Enter(t, "muxlock", "select")
  /\ UNCHANGED <<locks, wire, sub, tries>>

LockMux(t) ==
  /\ pc[t] = "muxlock"
  /\ muxLock[MyMux(t)] = NoThread
  /\ muxLock' = [muxLock EXCEPT ![MyMux(t)] = t]
  /\ \/ OnPca(t) /\ Goto(t, "buslock")
     \/ OnPin(t) /\ Goto(t, "grouplock")
  /\ UNCHANGED <<busLock, groupLock, wire, phase, call, count, sub, tries, rc>>

LockGroup(t) ==
  /\ pc[t] = "grouplock"
  /\ groupLock[MySel(t)] = NoThread
  /\ groupLock' = [groupLock EXCEPT ![MySel(t)] = t]
  /\ \/ SelAddr[MySel(t)] = NoAddr /\ Goto(t, "level") /\ UNCHANGED phase
     \/ SelAddr[MySel(t)] # NoAddr /\ Enter(t, "buslock", "getlevel")
  /\ UNCHANGED <<busLock, muxLock, wire, call, count, sub, tries, rc>>

\* The pin group's level is written without the I2C bus (GPIO, port I/O).
WriteLevel(t) ==
  /\ pc[t] = "level"
  /\ \/ /\ sel' = [sel EXCEPT ![MySel(t)] = call[t].bus]
        /\ Goto(t, "buslock")
        /\ UNCHANGED rc
     \/ /\ "level" \in Fault
        /\ \E c \in {c \in Chan : SelOf[c] = MySel(t)} \cup {NoChan} :
             sel' = [sel EXCEPT ![MySel(t)] = c]
        /\ rc' = [rc EXCEPT ![t] = "err"]
        /\ Goto(t, "groupunlock")
  /\ UNCHANGED <<locks, fdSlave, fdPec, ptr, phase, call, count, sub, tries>>

LockBus(t) ==
  /\ pc[t] = "buslock"
  /\ busLock = NoThread
  /\ busLock' = t
  /\ Goto(t, "slave")
  /\ UNCHANGED <<muxLock, groupLock, wire, phase, call, count, sub, tries, rc>>

\* Slip: a failed acquire returns at once and leaves what it had locked.
LockFailsReturns(t) ==
  /\ "lock" \in Fault
  /\ pc[t] \in {"muxlock", "grouplock", "buslock"}
  /\ Goto(t, "idle")
  /\ rc' = [rc EXCEPT ![t] = "err"]
  /\ UNCHANGED <<locks, wire, phase, call, count, sub, tries>>

\* std_mutex_lock returns an error: the acquire fails and what was locked
\* before is released.  A failed deselect is only traced.
LockFails(t) ==
  /\ "lock" \in Fault
  /\ \/ pc[t] = "muxlock" /\ Goto(t, "idle")
     \/ pc[t] = "grouplock" /\ Goto(t, "muxunlock")
     \/ pc[t] = "buslock" /\ OnRoot(t) /\ Goto(t, "idle")
     \/ pc[t] = "buslock" /\ OnPin(t) /\ Goto(t, "groupunlock")
     \/ pc[t] = "buslock" /\ OnPca(t) /\ Goto(t, "muxunlock")
  /\ rc' = [rc EXCEPT ![t] = IF phase[t] = "deselect" THEN @ ELSE "err"]
  /\ UNCHANGED <<locks, wire, phase, call, count, sub, tries>>

-----------------------------------------------------------------------------
(* One execute on the adapter: I2C_SLAVE, PEC on, the transfer with its    *)
(* retries, PEC off.                                                       *)

\* The execute ends with result r: the loop of a multi-byte call goes on, or
\* the bus is released (a PCA channel first writes its deselect).
EndExecute(t, r) ==
  \/ /\ phase[t] = "body" /\ r = "ok" /\ count[t] + 1 < call[t].n
     /\ count' = [count EXCEPT ![t] = @ + 1]
     /\ Goto(t, "slave")
     /\ UNCHANGED <<phase, rc>>
  \/ /\ phase[t] = "body" /\ (r = "err" \/ count[t] + 1 >= call[t].n)
     /\ IF OnPca(t) THEN Enter(t, "buslock", "deselect")
                    ELSE Enter(t, "busunlock", "body")
     /\ rc' = [rc EXCEPT ![t] = r]
     /\ UNCHANGED count
  \/ /\ phase[t] # "body"
     /\ Goto(t, "busunlock")
     /\ rc' = [rc EXCEPT ![t] = IF phase[t] = "deselect" THEN @ ELSE r]
     /\ UNCHANGED <<count, phase>>

\* Slip: the descriptor is told a slave address the first time only.
SetSlaveOnce(t) ==
  /\ pc[t] = "slave"
  /\ fdSlave' = IF fdSlave = NoAddr THEN SlaveAddr(t) ELSE fdSlave
  /\ Goto(t, IF WantsPec(t) THEN "pecon" ELSE "xfer")
  /\ UNCHANGED <<locks, sel, fdPec, ptr, phase, call, count, sub, tries, rc>>

SetSlave(t) ==
  /\ pc[t] = "slave"
  /\ \/ /\ fdSlave' = SlaveAddr(t)
        /\ Goto(t, IF WantsPec(t) THEN "pecon" ELSE "xfer")
        /\ UNCHANGED <<phase, count, rc>>
     \/ /\ "slave" \in Fault
        /\ EndExecute(t, "err")
        /\ UNCHANGED fdSlave
  /\ UNCHANGED <<locks, sel, fdPec, ptr, call, sub, tries>>

EnablePec(t) ==
  /\ pc[t] = "pecon"
  /\ \/ /\ fdPec' = TRUE
        /\ Goto(t, "xfer")
        /\ UNCHANGED <<phase, count, rc>>
     \/ /\ "pec" \in Fault
        /\ EndExecute(t, "err")
        /\ UNCHANGED fdPec
  /\ UNCHANGED <<locks, sel, fdSlave, ptr, call, sub, tries>>

DisablePec(t) ==
  /\ pc[t] = "pecoff"
  /\ \/ /\ fdPec' = FALSE
        /\ EndExecute(t, rc[t])
     \/ /\ "pec" \in Fault
        /\ EndExecute(t, "err")
        /\ UNCHANGED fdPec
  /\ UNCHANGED <<locks, sel, fdSlave, ptr, call, sub, tries>>

\* Slip: a transfer with PEC that fails returns before it turns PEC off.
EndTransferEarly(t, r) ==
  \/ /\ WantsPec(t) /\ r = "ok"
     /\ Goto(t, "pecoff")
     /\ UNCHANGED <<phase, count, rc>>
  \/ /\ ~(WantsPec(t) /\ r = "ok")
     /\ EndExecute(t, r)

\* The transfer is over with result r; the error of a transfer with PEC is
\* kept in rc until PEC is off again.
EndTransfer(t, r) ==
  \/ /\ WantsPec(t)
     /\ Goto(t, "pecoff")
     /\ rc' = [rc EXCEPT ![t] = r]
     /\ UNCHANGED <<phase, count>>
  \/ /\ ~WantsPec(t)
     /\ EndExecute(t, r)

\* The values selector s may hold once its control register took t's transfer.
\* A transfer that was meant for another device writes anything.
Selected(t, s) ==
  IF Target(t) # ControlDevice(s) THEN {c \in Chan : SelOf[c] = s} \cup {NoChan}
  ELSE CASE phase[t] = "deselect" /\ s = MySel(t) -> {NoChan}
         [] phase[t] \in {"select", "setlevel"} /\ s = MySel(t) -> {call[t].bus}
         [] OTHER -> {sel[s]}

\* The devices in D take the transfer.
Deliver(t, D) ==
  /\ sel' \in [Selector -> Chan \cup {NoChan}]
  /\ \A s \in Selector :
       sel'[s] \in IF ControlDevice(s) \in D THEN Selected(t, s) ELSE {sel[s]}
  /\ ptr' = [d \in Device |-> IF d \in D THEN t ELSE ptr[d]]

\* A failed attempt may have reached the devices all the same; the pointer
\* of a device that streams bytes may have moved.
DeliverFailed(t, D) ==
  \/ UNCHANGED <<sel, ptr>>
  \/ Deliver(t, D)
  \/ /\ sub[t]
     /\ ptr' = [d \in Device |-> IF d \in D THEN NoThread ELSE ptr[d]]
     /\ UNCHANGED sel

\* One attempt, successful: the next half of a 16-bit read or the end.
Transfer(t) ==
  /\ pc[t] = "xfer"
  /\ Answering # {}
  /\ Deliver(t, Answering)
  /\ tries' = [tries EXCEPT ![t] = 0]
  /\ \/ /\ phase[t] = "body" /\ call[t].wide /\ ~sub[t]
        /\ sub' = [sub EXCEPT ![t] = TRUE]
        /\ UNCHANGED <<pc, phase, count, rc>>
     \/ /\ ~(phase[t] = "body" /\ call[t].wide /\ ~sub[t])
        /\ sub' = [sub EXCEPT ![t] = FALSE]
        /\ EndTransfer(t, "ok")
  /\ UNCHANGED <<locks, fdSlave, fdPec, call>>

\* Slip: one attempt too many.
TransferFailsOnceMore(t) ==
  /\ pc[t] = "xfer"
  /\ "xfer" \in Fault \/ Answering = {}
  /\ DeliverFailed(t, Answering)
  /\ \/ /\ tries[t] < MaxRetry
        /\ tries' = [tries EXCEPT ![t] = @ + 1]
        /\ UNCHANGED <<pc, phase, count, sub, rc>>
     \/ /\ tries[t] >= MaxRetry
        /\ tries' = [tries EXCEPT ![t] = 0]
        /\ sub' = [sub EXCEPT ![t] = FALSE]
        /\ EndTransfer(t, "err")
  /\ UNCHANGED <<locks, fdSlave, fdPec, call>>

\* Slip: the retries are not counted.
TransferFailsForever(t) ==
  /\ pc[t] = "xfer"
  /\ "xfer" \in Fault \/ Answering = {}
  /\ DeliverFailed(t, Answering)
  /\ UNCHANGED <<locks, fdSlave, fdPec, locals>>

\* Slip: a 16-bit read receives although its address write failed.
TransferFailsUnchecked(t) ==
  /\ pc[t] = "xfer"
  /\ "xfer" \in Fault \/ Answering = {}
  /\ DeliverFailed(t, Answering)
  /\ tries' = [tries EXCEPT ![t] = IF @ + 1 < MaxRetry THEN @ + 1 ELSE 0]
  /\ IF tries[t] + 1 < MaxRetry THEN UNCHANGED <<pc, phase, count, sub, rc>>
     ELSE \/ /\ phase[t] = "body" /\ call[t].wide /\ ~sub[t]
             /\ sub' = [sub EXCEPT ![t] = TRUE]
             /\ UNCHANGED <<pc, phase, count, rc>>
          \/ /\ ~(phase[t] = "body" /\ call[t].wide /\ ~sub[t])
             /\ sub' = [sub EXCEPT ![t] = FALSE]
             /\ EndTransfer(t, "err")
  /\ UNCHANGED <<locks, fdSlave, fdPec, call>>

\* One attempt, failed: retried until MaxRetry attempts have failed.
TransferFails(t) ==
  /\ pc[t] = "xfer"
  /\ "xfer" \in Fault \/ Answering = {}
  /\ DeliverFailed(t, Answering)
  /\ \/ /\ tries[t] + 1 < MaxRetry
        /\ tries' = [tries EXCEPT ![t] = @ + 1]
        /\ UNCHANGED <<pc, phase, count, sub, rc>>
     \/ /\ tries[t] + 1 >= MaxRetry
        /\ tries' = [tries EXCEPT ![t] = 0]
        /\ sub' = [sub EXCEPT ![t] = FALSE]
        /\ EndTransfer(t, "err")
  /\ UNCHANGED <<locks, fdSlave, fdPec, call>>

-----------------------------------------------------------------------------
(* Releasing.                                                              *)

\* Slip: the call goes on although the channel could not be selected.
UnlockBusUnchecked(t) ==
  /\ pc[t] = "busunlock"
  /\ busLock' = NoThread
  /\ \/ phase[t] = "select" /\ Enter(t, "slave", "body")
     \/ phase[t] = "deselect" /\ Enter(t, "muxunlock", "deselect")
     \/ phase[t] = "getlevel" /\ Enter(t, "buslock", "setlevel")
     \/ phase[t] = "setlevel" /\ Enter(t, "buslock", "body")
     \/ phase[t] = "body" /\ OnPin(t) /\ Enter(t, "groupunlock", "body")
     \/ phase[t] = "body" /\ OnRoot(t) /\ Enter(t, "idle", "body")
  /\ UNCHANGED <<muxLock, groupLock, wire, call, count, sub, tries, rc>>

UnlockBus(t) ==
  /\ pc[t] = "busunlock"
  /\ busLock' = NoThread
  /\ \/ phase[t] = "select" /\ rc[t] = "ok" /\ Enter(t, "slave", "body")
     \/ phase[t] = "select" /\ rc[t] = "err" /\ Enter(t, "muxunlock", "select")
     \/ phase[t] = "deselect" /\ Enter(t, "muxunlock", "deselect")
     \/ phase[t] = "getlevel" /\ rc[t] = "ok" /\ Enter(t, "buslock", "setlevel")
     \/ phase[t] = "setlevel" /\ rc[t] = "ok" /\ Enter(t, "buslock", "body")
     \/ phase[t] \in {"getlevel", "setlevel"} /\ rc[t] = "err"
        /\ Goto(t, "groupunlock") /\ UNCHANGED phase
     \/ phase[t] = "body" /\ OnPin(t) /\ Enter(t, "groupunlock", "body")
     \/ phase[t] = "body" /\ OnRoot(t) /\ Enter(t, "idle", "body")
  /\ UNCHANGED <<muxLock, groupLock, wire, call, count, sub, tries, rc>>

UnlockGroup(t) ==
  /\ pc[t] = "groupunlock"
  /\ groupLock' = [groupLock EXCEPT ![MySel(t)] = NoThread]
  /\ Goto(t, "muxunlock")
  /\ UNCHANGED <<busLock, muxLock, wire, phase, call, count, sub, tries, rc>>

UnlockMux(t) ==
  /\ pc[t] = "muxunlock"
  /\ muxLock' = [muxLock EXCEPT ![MyMux(t)] = NoThread]
  /\ Goto(t, "idle")
  /\ UNCHANGED <<busLock, groupLock, wire, phase, call, count, sub, tries, rc>>

-----------------------------------------------------------------------------
Acquire(t) == LockMux(t) \/ LockGroup(t) \/ WriteLevel(t) \/ LockBus(t) \/ LockFails(t)
Execute(t) == SetSlave(t) \/ EnablePec(t) \/ Transfer(t) \/ TransferFails(t) \/ DisablePec(t)
Release(t) == UnlockBus(t) \/ UnlockGroup(t) \/ UnlockMux(t)

Advance(t) == Acquire(t) \/ Execute(t) \/ Release(t)

Next == \E t \in Thread : Start(t) \/ Advance(t)

Spec == Init /\ [][Next]_vars

-----------------------------------------------------------------------------
(* Correctness.                                                            *)

\* The steps in which the code of t has the adapter's lock, the mux lock and
\* the pin group's lock.  A PCA channel executes its body without the first.
HoldsBus(t) == /\ pc[t] \in {"slave", "pecon", "xfer", "pecoff", "busunlock"}
               /\ ~(OnPca(t) /\ phase[t] = "body")
HoldsMux(t) == pc[t] \notin {"idle", "muxlock"} /\ ~OnRoot(t)
HoldsGroup(t) == /\ pc[t] \notin {"idle", "muxlock", "grouplock", "muxunlock"}
                 /\ OnPin(t)

(***************************************************************************)
(* Every lock is owned by exactly the thread whose position in the         *)
(* acquire / execute / release sequence says so: no error path of the      *)
(* acquire functions leaks a lock or releases one it does not own          *)
(* (sdi_i2cmux_pin.c:80-146, sdi_i2cmux_pca.c:68-127, sdi_i2c_bus_api.c).  *)
(***************************************************************************)
LockOwnership ==
  /\ \A t \in Thread : busLock = t <=> HoldsBus(t)
  /\ \A t \in Thread, m \in Mux : muxLock[m] = t <=> HoldsMux(t) /\ MyMux(t) = m
  /\ \A t \in Thread, s \in Selector :
       groupLock[s] = t <=> HoldsGroup(t) /\ MySel(t) = s

(***************************************************************************)
(* The phases a call passes through and the steps it takes in each follow  *)
(* from the kind of bus it names.  This and the ownership of the locks are *)
(* inductive together.                                                     *)
(***************************************************************************)
CallShape ==
  \A t \in Thread :
    /\ pc[t] \in {"grouplock", "level", "groupunlock"} => OnPin(t)
    /\ pc[t] \in {"muxlock", "muxunlock"} => ~OnRoot(t)
    /\ pc[t] \in {"grouplock", "level", "pecon", "pecoff"} => phase[t] = "body"
    /\ pc[t] = "muxlock" /\ OnPin(t) => phase[t] = "body"
    /\ pc[t] # "idle" /\ phase[t] \in {"select", "deselect"} => OnPca(t)
    /\ pc[t] # "idle" /\ phase[t] \in {"getlevel", "setlevel"} =>
         OnPin(t) /\ SelAddr[MySel(t)] # NoAddr
    /\ OnPca(t) /\ phase[t] = "body" => pc[t] \in {"idle", "slave", "pecon", "xfer", "pecoff"}
    /\ pc[t] \in {"pecon", "pecoff"} => call[t].pec

(***************************************************************************)
(* A transfer goes to the slave address of the call that issues it: no     *)
(* other thread changes the address on the shared descriptor between       *)
(* ioctl(I2C_SLAVE) and any attempt of the transfer (sdi_i2cdev.c:628-760).*)
(***************************************************************************)
SlaveIsMine ==
  \A t \in Thread : pc[t] = "xfer" => fdSlave = SlaveAddr(t)

(***************************************************************************)
(* A transfer is answered by the device on the channel the caller named    *)
(* and by no other: the mux routes that channel until the call's last      *)
(* transfer is done (sdi_i2cmux_pin.c:80-126, sdi_i2cmux_pca.c:68-127).    *)
(***************************************************************************)
ExactTarget ==
  \A t \in Thread : pc[t] = "xfer" => Answering = {Target(t)} \cap Device

(***************************************************************************)
(* PEC is used by the transfers of the calls that asked for it and by no   *)
(* others, although it is a flag of the descriptor all calls share         *)
(* (sdi_i2cdev.c:648-657 and 748-757).                                     *)
(***************************************************************************)
PecHonoured ==
  \A t \in Thread : pc[t] = "xfer" => fdPec = WantsPec(t)

(***************************************************************************)
(* The receive half of a 16-bit read, on its first attempt, reads from the *)
(* register the address half of the same call set: nobody moved the        *)
(* device's pointer in between (sdi_i2cdev.c:683-696).                     *)
(***************************************************************************)
PointerStable ==
  \A t \in Thread :
    pc[t] = "xfer" /\ sub[t] /\ tries[t] = 0 => ptr[Target(t)] = t

(***************************************************************************)
(* The API's promise: while a thread is between acquire and release it is  *)
(* in a session with the device its execute is meant for, sessions do not  *)
(* overlap, and every transfer reaches the session's device only.          *)
(***************************************************************************)
InSession(t) == pc[t] \in {"slave", "pecon", "xfer", "pecoff", "busunlock"}

Service == INSTANCE I2cService WITH
  Destination <- Bus \X Addr,
  NoTarget    <- <<Root, NoAddr>>,
  session     <- [t \in Thread |-> IF InSession(t) THEN Target(t) ELSE <<Root, NoAddr>>]

ImplementsService == Service!Spec
=============================================================================
