--------------------------- MODULE I2cStackProofs ---------------------------
(***************************************************************************)
(* Theorems about I2cStack for every layout of muxes, every set of calls   *)
(* and every combination of faults.                                        *)
(***************************************************************************)
EXTENDS I2cStack, TLAPS

USE DEF Step, Phase, RequestType

-----------------------------------------------------------------------------
(* Types.                                                                  *)

\* Where a call's mux and selector are found.
LEMMA ChanTypes ==
  ASSUME NEW c \in Chan
  PROVE  MuxOf[c] \in Mux /\ SelOf[c] \in Selector
BY TopologyAssumption DEF Mux, Selector

LEMMA EndExecuteType ==
  ASSUME TypeOK, NEW t \in Thread, NEW r \in {"ok", "err"}, EndExecute(t, r)
  PROVE  /\ pc' \in [Thread -> Step]
         /\ phase' \in [Thread -> Phase]
         /\ count' \in [Thread -> Nat]
         /\ rc' \in [Thread -> {"ok", "err"}]
BY DEF TypeOK, EndExecute, Goto, Enter

LEMMA EndTransferType ==
  ASSUME TypeOK, NEW t \in Thread, NEW r \in {"ok", "err"}, EndTransfer(t, r)
  PROVE  /\ pc' \in [Thread -> Step]
         /\ phase' \in [Thread -> Phase]
         /\ count' \in [Thread -> Nat]
         /\ rc' \in [Thread -> {"ok", "err"}]
<1>1. CASE WantsPec(t)
  BY <1>1 DEF TypeOK, EndTransfer, Goto
<1>2. CASE ~WantsPec(t)
  BY <1>2, EndExecuteType DEF EndTransfer
<1> QED BY <1>1, <1>2

\* The selector step of a delivery keeps the type of sel.
LEMMA DeliverType ==
  ASSUME TypeOK, NEW t \in Thread, NEW D, Deliver(t, D) \/ DeliverFailed(t, D)
  PROVE  /\ sel' \in [Selector -> Chan \cup {NoChan}]
         /\ ptr' \in [Device -> Thread \cup {NoThread}]
BY DEF TypeOK, Deliver, DeliverFailed

LEMMA SlaveAddrType ==
  ASSUME TypeOK, CallShape, NEW t \in Thread, pc[t] # "idle",
         pc[t] \in {"slave", "pecon", "xfer", "pecoff", "busunlock"}
  PROVE  SlaveAddr(t) \in Addr
<1>1. call[t] \in RequestType
  BY CallAssumption DEF TypeOK
<1>2. CASE phase[t] = "body"
  BY <1>1, <1>2 DEF SlaveAddr, Target
<1>3. CASE phase[t] # "body"
  <2>1. call[t].bus \in Chan /\ SelAddr[MySel(t)] # NoAddr
    BY <1>3, CallAssumption, TopologyAssumption
       DEF CallShape, TypeOK, OnPca, OnPin, Chan, MySel
  <2>2. SelAddr[MySel(t)] \in Addr
    BY <2>1, ChanTypes, TopologyAssumption DEF MySel
  <2> QED BY <1>3, <2>2 DEF SlaveAddr, Target
<1> QED BY <1>2, <1>3

-----------------------------------------------------------------------------
LEMMA InitType == Init => TypeOK
<1> SUFFICES ASSUME Init PROVE TypeOK
  OBVIOUS
<1>1. sub \in [Thread -> BOOLEAN] /\ fdPec \in BOOLEAN
  BY DEF Init
<1>2. /\ busLock \in Thread \cup {NoThread}
      /\ muxLock \in [Mux -> Thread \cup {NoThread}]
      /\ groupLock \in [Selector -> Thread \cup {NoThread}]
      /\ ptr \in [Device -> Thread \cup {NoThread}]
  BY DEF Init
<1>3. /\ pc \in [Thread -> Step]
      /\ phase \in [Thread -> Phase]
      /\ count \in [Thread -> Nat]
      /\ rc \in [Thread -> {"ok", "err"}]
  BY DEF Init
<1>5. tries \in [Thread -> 0 .. MaxRetry - 1]
  BY CallAssumption DEF Init
<1>4. /\ sel \in [Selector -> Chan \cup {NoChan}]
      /\ fdSlave \in Addr \cup {NoAddr}
      /\ call \in [Thread -> Request]
  BY DEF Init
<1> QED BY <1>1, <1>2, <1>3, <1>4, <1>5 DEF TypeOK

LEMMA StartType ==
  ASSUME TypeOK, NEW t \in Thread, Start(t)
  PROVE  TypeOK'
<1>1. PICK q \in Request : Start(t)!(q)
  BY DEF Start
<1> QED BY <1>1 DEF TypeOK, Goto, Enter, locks, wire

LEMMA AcquireType ==
  ASSUME TypeOK, CallShape, NEW t \in Thread, Acquire(t)
  PROVE  TypeOK'
<1>0. call[t] \in RequestType
  BY CallAssumption DEF TypeOK
<1>1. CASE LockMux(t)
  BY <1>1 DEF TypeOK, LockMux, Goto, wire
<1>2. CASE LockGroup(t)
  BY <1>2 DEF TypeOK, LockGroup, Goto, Enter, wire
<1>3. CASE WriteLevel(t)
  <2>1. call[t].bus \in Chan
    BY <1>3 DEF WriteLevel, CallShape, OnPin, Chan
  <2> QED BY <1>3, <2>1 DEF TypeOK, WriteLevel, Goto, locks
<1>4. CASE LockBus(t)
  BY <1>4 DEF TypeOK, LockBus, Goto, wire
<1>5. CASE LockFails(t)
  BY <1>5 DEF TypeOK, LockFails, Goto, locks, wire
<1> QED BY <1>1, <1>2, <1>3, <1>4, <1>5 DEF Acquire

LEMMA ExecuteType ==
  ASSUME TypeOK, CallShape, NEW t \in Thread, Execute(t)
  PROVE  TypeOK'
<1>1. CASE SetSlave(t)
  <2>1. SlaveAddr(t) \in Addr
    BY <1>1, SlaveAddrType DEF SetSlave
  <2> QED BY <1>1, <2>1, EndExecuteType DEF TypeOK, SetSlave, Goto, locks
<1>2. CASE EnablePec(t)
  BY <1>2, EndExecuteType DEF TypeOK, EnablePec, Goto, locks
<1>3. CASE Transfer(t)
  <2>1. /\ sel' \in [Selector -> Chan \cup {NoChan}]
        /\ ptr' \in [Device -> Thread \cup {NoThread}]
    BY <1>3, DeliverType DEF Transfer
  <2>2. /\ pc' \in [Thread -> Step]
        /\ phase' \in [Thread -> Phase]
        /\ count' \in [Thread -> Nat]
        /\ rc' \in [Thread -> {"ok", "err"}]
    BY <1>3, EndTransferType DEF Transfer, TypeOK
  <2>3. tries' \in [Thread -> 0 .. MaxRetry - 1]
    BY <1>3, CallAssumption DEF TypeOK, Transfer
  <2>4. sub' \in [Thread -> BOOLEAN]
    BY <1>3 DEF TypeOK, Transfer
  <2> QED BY <1>3, <2>1, <2>2, <2>3, <2>4 DEF TypeOK, Transfer, locks
<1>4. CASE TransferFails(t)
  <2>1. /\ sel' \in [Selector -> Chan \cup {NoChan}]
        /\ ptr' \in [Device -> Thread \cup {NoThread}]
    BY <1>4, DeliverType DEF TransferFails
  <2>2. /\ pc' \in [Thread -> Step]
        /\ phase' \in [Thread -> Phase]
        /\ count' \in [Thread -> Nat]
        /\ rc' \in [Thread -> {"ok", "err"}]
    BY <1>4, EndTransferType DEF TransferFails, TypeOK
  <2>3. tries' \in [Thread -> 0 .. MaxRetry - 1]
    <3>1. CASE tries[t] + 1 < MaxRetry /\ tries' = [tries EXCEPT ![t] = @ + 1]
      BY <3>1, CallAssumption DEF TypeOK
    <3>2. CASE tries' = [tries EXCEPT ![t] = 0]
      BY <3>2, CallAssumption DEF TypeOK
    <3> QED BY <1>4, <3>1, <3>2, Zenon DEF TransferFails
  <2>5. sub' \in [Thread -> BOOLEAN]
    <3>1. sub' = sub \/ sub' = [sub EXCEPT ![t] = FALSE]
      BY <1>4, Zenon DEF TransferFails
    <3> QED BY <3>1 DEF TypeOK
  <2>4. UNCHANGED <<locks, fdSlave, fdPec, call>>
    BY <1>4 DEF TransferFails
  <2> QED BY <2>1, <2>2, <2>3, <2>4, <2>5 DEF TypeOK, locks
<1>5. CASE DisablePec(t)
  <2>1. rc[t] \in {"ok", "err"}
    BY DEF TypeOK
  <2> QED BY <1>5, <2>1, EndExecuteType DEF TypeOK, DisablePec, locks
<1> QED BY <1>1, <1>2, <1>3, <1>4, <1>5 DEF Execute

LEMMA ReleaseType ==
  ASSUME TypeOK, NEW t \in Thread, Release(t)
  PROVE  TypeOK'
<1>1. CASE UnlockBus(t)
  BY <1>1 DEF TypeOK, UnlockBus, Goto, Enter, wire
<1>2. CASE UnlockGroup(t)
  BY <1>2 DEF TypeOK, UnlockGroup, Goto, wire
<1>3. CASE UnlockMux(t)
  BY <1>3 DEF TypeOK, UnlockMux, Goto, wire
<1> QED BY <1>1, <1>2, <1>3 DEF Release

-----------------------------------------------------------------------------
(* The shape of calls.                                                     *)

\* An execute that ends stays within the phases of its call.
LEMMA EndExecuteShape ==
  ASSUME TypeOK, CallShape, NEW t \in Thread, NEW r \in {"ok", "err"},
         pc[t] \in {"slave", "pecon", "xfer", "pecoff"},
         EndExecute(t, r), UNCHANGED call
  PROVE  CallShape'
<1> SUFFICES ASSUME NEW u \in Thread PROVE CallShape!(u)'
  BY DEF CallShape
<1>1. CASE u = t
  BY <1>1 DEF TypeOK, CallShape, EndExecute, Goto, Enter, OnRoot, OnPin, OnPca, MySel, Chan
<1>2. CASE u # t
  BY <1>2 DEF TypeOK, CallShape, EndExecute, Goto, Enter, OnRoot, OnPin, OnPca, MySel
<1> QED BY <1>1, <1>2

LEMMA EndTransferShape ==
  ASSUME TypeOK, CallShape, NEW t \in Thread, NEW r \in {"ok", "err"},
         pc[t] = "xfer", EndTransfer(t, r), UNCHANGED call
  PROVE  CallShape'
<1>1. CASE WantsPec(t)
  <2> SUFFICES ASSUME NEW u \in Thread PROVE CallShape!(u)'
    BY DEF CallShape
  <2> QED BY <1>1 DEF TypeOK, CallShape, EndTransfer, WantsPec, Goto,
                      OnRoot, OnPin, OnPca, MySel
<1>2. CASE ~WantsPec(t)
  BY <1>2, EndExecuteShape DEF EndTransfer
<1> QED BY <1>1, <1>2

LEMMA StartShape ==
  ASSUME TypeOK, CallShape, NEW t \in Thread, Start(t)
  PROVE  CallShape'
<1>1. PICK q \in Request : Start(t)!(q)
  BY DEF Start
<1>2. PinChan \cap PcaChan = {} /\ Root \notin PinChan /\ Root \notin PcaChan
  BY TopologyAssumption DEF Chan
<1> SUFFICES ASSUME NEW u \in Thread PROVE CallShape!(u)'
  BY DEF CallShape
<1>3. CASE u = t
  BY <1>1, <1>2, <1>3 DEF TypeOK, Goto, Enter, OnRoot, OnPin, OnPca, MySel
<1>4. CASE u # t
  BY <1>1, <1>4 DEF TypeOK, CallShape, Goto, Enter, OnRoot, OnPin, OnPca, MySel
<1> QED BY <1>3, <1>4

LEMMA AcquireShape ==
  ASSUME TypeOK, CallShape, NEW t \in Thread, Acquire(t)
  PROVE  CallShape'
<1> USE DEF TypeOK, CallShape, Goto, Enter, OnRoot, OnPin, OnPca, MySel
<1>0. PinChan \cap PcaChan = {} /\ Root \notin PinChan /\ Root \notin PcaChan
  BY TopologyAssumption DEF Chan
<1> SUFFICES ASSUME NEW u \in Thread PROVE CallShape!(u)'
  OBVIOUS
<1>1. CASE LockMux(t)
  <2>1. pc' \in {[pc EXCEPT ![t] = "buslock"], [pc EXCEPT ![t] = "grouplock"]}
        /\ UNCHANGED <<phase, call>>
    BY <1>1 DEF LockMux
  <2>2. CASE u = t
    <3>1. CASE OnPca(t)
      BY <1>0, <1>1, <2>1, <2>2, <3>1 DEF LockMux
    <3>2. CASE OnPin(t)
      BY <1>0, <1>1, <2>1, <2>2, <3>2 DEF LockMux
    <3> QED BY <1>1, <3>1, <3>2 DEF LockMux
  <2>3. CASE u # t
    BY <2>1, <2>3
  <2> QED BY <2>2, <2>3
<1>2. CASE LockGroup(t)
  BY <1>0, <1>2 DEF LockGroup
<1>3. CASE WriteLevel(t)
  BY <1>0, <1>3 DEF WriteLevel
<1>4. CASE LockBus(t)
  BY <1>0, <1>4 DEF LockBus
<1>5. CASE LockFails(t)
  BY <1>0, <1>5 DEF LockFails
<1> QED BY <1>1, <1>2, <1>3, <1>4, <1>5 DEF Acquire

LEMMA ExecuteShape ==
  ASSUME TypeOK, CallShape, NEW t \in Thread, Execute(t)
  PROVE  CallShape'
<1> USE DEF TypeOK, Goto, OnRoot, OnPin, OnPca, MySel
<1>0. rc[t] \in {"ok", "err"}
  OBVIOUS
<1>1. CASE SetSlave(t)
  <2>1. CASE EndExecute(t, "err")
    BY <1>1, <2>1, EndExecuteShape DEF SetSlave
  <2>2. CASE Goto(t, IF WantsPec(t) THEN "pecon" ELSE "xfer") /\ UNCHANGED phase
    BY <1>1, <2>2 DEF SetSlave, WantsPec, CallShape
  <2> QED BY <1>1, <2>1, <2>2 DEF SetSlave
<1>2. CASE EnablePec(t)
  <2>1. CASE EndExecute(t, "err")
    BY <1>2, <2>1, EndExecuteShape DEF EnablePec
  <2>2. CASE Goto(t, "xfer") /\ UNCHANGED phase
    BY <1>2, <2>2 DEF EnablePec, CallShape
  <2> QED BY <1>2, <2>1, <2>2 DEF EnablePec
<1>3. CASE Transfer(t)
  <2>1. CASE EndTransfer(t, "ok")
    BY <1>3, <2>1, EndTransferShape DEF Transfer
  <2>2. CASE UNCHANGED <<pc, phase>>
    BY <1>3, <2>2 DEF Transfer, CallShape
  <2> QED BY <1>3, <2>1, <2>2 DEF Transfer
<1>4. CASE TransferFails(t)
  <2>1. CASE EndTransfer(t, "err")
    BY <1>4, <2>1, EndTransferShape DEF TransferFails
  <2>2. CASE UNCHANGED <<pc, phase>>
    BY <1>4, <2>2 DEF TransferFails, CallShape
  <2> QED BY <1>4, <2>1, <2>2 DEF TransferFails
<1>5. CASE DisablePec(t)
  BY <1>0, <1>5, EndExecuteShape DEF DisablePec
<1> QED BY <1>1, <1>2, <1>3, <1>4, <1>5 DEF Execute

LEMMA ReleaseShape ==
  ASSUME TypeOK, CallShape, NEW t \in Thread, Release(t)
  PROVE  CallShape'
<1> USE DEF TypeOK, CallShape, Goto, Enter, OnRoot, OnPin, OnPca, MySel
<1>0. PinChan \cap PcaChan = {} /\ Root \notin PinChan /\ Root \notin PcaChan
  BY TopologyAssumption DEF Chan
<1> SUFFICES ASSUME NEW u \in Thread PROVE CallShape!(u)'
  OBVIOUS
<1>1. CASE UnlockBus(t)
  BY <1>0, <1>1 DEF UnlockBus
<1>2. CASE UnlockGroup(t)
  BY <1>0, <1>2 DEF UnlockGroup
<1>3. CASE UnlockMux(t)
  BY <1>0, <1>3 DEF UnlockMux
<1> QED BY <1>1, <1>2, <1>3 DEF Release

-----------------------------------------------------------------------------
(* The ownership of the locks.                                             *)

\* A step of t that takes and releases nothing and leaves t holding what it
\* held keeps every lock with its owner.
LEMMA SameLocks ==
  ASSUME TypeOK, LockOwnership, NEW t \in Thread,
         UNCHANGED <<locks, call>>,
         NEW p, NEW f, pc' = [pc EXCEPT ![t] = p], phase' = [phase EXCEPT ![t] = f],
         HoldsBus(t)' <=> HoldsBus(t),
         HoldsMux(t)' <=> HoldsMux(t),
         HoldsGroup(t)' <=> HoldsGroup(t)
  PROVE  LockOwnership'
<1>1. \A u \in Thread :
        /\ HoldsBus(u)' <=> HoldsBus(u)
        /\ HoldsMux(u)' <=> HoldsMux(u)
        /\ HoldsGroup(u)' <=> HoldsGroup(u)
        /\ MyMux(u)' = MyMux(u)
        /\ MySel(u)' = MySel(u)
  <2> SUFFICES ASSUME NEW u \in Thread, u # t
               PROVE  /\ HoldsBus(u)' <=> HoldsBus(u)
                      /\ HoldsMux(u)' <=> HoldsMux(u)
                      /\ HoldsGroup(u)' <=> HoldsGroup(u)
    BY DEF MyMux, MySel
  <2> QED BY DEF TypeOK, HoldsBus, HoldsMux, HoldsGroup, OnRoot, OnPin, OnPca
<1> QED BY <1>1 DEF LockOwnership, locks

LEMMA EndExecuteLocks ==
  ASSUME TypeOK, CallShape, LockOwnership, NEW t \in Thread, NEW r \in {"ok", "err"},
         pc[t] \in {"slave", "pecon", "xfer", "pecoff"},
         EndExecute(t, r), UNCHANGED <<locks, call>>
  PROVE  LockOwnership'
<1> USE DEF TypeOK
<1>0. PinChan \cap PcaChan = {}
  BY TopologyAssumption
<1>1. /\ pc' = [pc EXCEPT ![t] = pc'[t]]
      /\ phase' = [phase EXCEPT ![t] = phase'[t]]
  BY DEF EndExecute, Goto, Enter
<1>2. HoldsBus(t)' <=> HoldsBus(t)
  BY DEF EndExecute, Goto, Enter, HoldsBus, OnPca
<1>3. HoldsMux(t)' <=> HoldsMux(t)
  BY DEF EndExecute, Goto, Enter, HoldsMux, OnRoot
<1>4. HoldsGroup(t)' <=> HoldsGroup(t)
  BY <1>0 DEF EndExecute, Goto, Enter, HoldsGroup, OnPin, OnPca
<1> QED BY <1>1, <1>2, <1>3, <1>4, SameLocks

LEMMA EndTransferLocks ==
  ASSUME TypeOK, CallShape, LockOwnership, NEW t \in Thread, NEW r \in {"ok", "err"},
         pc[t] = "xfer", EndTransfer(t, r), UNCHANGED <<locks, call>>
  PROVE  LockOwnership'
<1>1. CASE WantsPec(t)
  <2>1. /\ pc' = [pc EXCEPT ![t] = "pecoff"]
        /\ phase' = [phase EXCEPT ![t] = phase[t]]
    BY <1>1 DEF EndTransfer, Goto, TypeOK
  <2>2. /\ HoldsBus(t)' <=> HoldsBus(t)
        /\ HoldsMux(t)' <=> HoldsMux(t)
        /\ HoldsGroup(t)' <=> HoldsGroup(t)
    BY <2>1 DEF TypeOK, HoldsBus, HoldsMux, HoldsGroup, OnRoot, OnPin, OnPca
  <2> QED BY <2>1, <2>2, SameLocks
<1>2. CASE ~WantsPec(t)
  BY <1>2, EndExecuteLocks DEF EndTransfer
<1> QED BY <1>1, <1>2

LEMMA ExecuteLocks ==
  ASSUME TypeOK, CallShape, LockOwnership, NEW t \in Thread, Execute(t)
  PROVE  LockOwnership'
<1>0. rc[t] \in {"ok", "err"}
  BY DEF TypeOK
<1>a. ASSUME UNCHANGED <<locks, call, phase>>, pc[t] \in {"slave", "pecon", "xfer"},
             NEW p \in {"pecon", "xfer"}, Goto(t, p)
      PROVE  LockOwnership'
  <2>1. /\ pc' = [pc EXCEPT ![t] = p]
        /\ phase' = [phase EXCEPT ![t] = phase[t]]
    BY <1>a DEF Goto, TypeOK
  <2>2. /\ HoldsBus(t)' <=> HoldsBus(t)
        /\ HoldsMux(t)' <=> HoldsMux(t)
        /\ HoldsGroup(t)' <=> HoldsGroup(t)
    BY <1>a, <2>1 DEF TypeOK, HoldsBus, HoldsMux, HoldsGroup, OnRoot, OnPin, OnPca
  <2> QED BY <1>a, <2>1, <2>2, SameLocks
<1>b. ASSUME UNCHANGED <<locks, call, phase, pc>> PROVE LockOwnership'
  BY <1>b DEF LockOwnership, locks, HoldsBus, HoldsMux, HoldsGroup, MyMux, MySel,
              OnRoot, OnPin, OnPca
<1>1. CASE SetSlave(t)
  <2>1. CASE EndExecute(t, "err")
    BY <1>1, <2>1, EndExecuteLocks DEF SetSlave
  <2>2. CASE Goto(t, IF WantsPec(t) THEN "pecon" ELSE "xfer") /\ UNCHANGED phase
    BY <1>1, <2>2, <1>a DEF SetSlave
  <2> QED BY <1>1, <2>1, <2>2 DEF SetSlave
<1>2. CASE EnablePec(t)
  <2>1. CASE EndExecute(t, "err")
    BY <1>2, <2>1, EndExecuteLocks DEF EnablePec
  <2>2. CASE Goto(t, "xfer") /\ UNCHANGED phase
    BY <1>2, <2>2, <1>a DEF EnablePec
  <2> QED BY <1>2, <2>1, <2>2 DEF EnablePec
<1>3. CASE Transfer(t)
  <2>1. CASE EndTransfer(t, "ok")
    BY <1>3, <2>1, EndTransferLocks DEF Transfer
  <2>2. CASE UNCHANGED <<pc, phase>>
    BY <1>3, <2>2, <1>b DEF Transfer
  <2> QED BY <1>3, <2>1, <2>2 DEF Transfer
<1>4. CASE TransferFails(t)
  <2>1. CASE EndTransfer(t, "err")
    BY <1>4, <2>1, EndTransferLocks DEF TransferFails
  <2>2. CASE UNCHANGED <<pc, phase>>
    BY <1>4, <2>2, <1>b DEF TransferFails
  <2> QED BY <1>4, <2>1, <2>2 DEF TransferFails
<1>5. CASE DisablePec(t)
  BY <1>0, <1>5, EndExecuteLocks DEF DisablePec
<1> QED BY <1>1, <1>2, <1>3, <1>4, <1>5 DEF Execute

LEMMA StartLocks ==
  ASSUME TypeOK, LockOwnership, NEW t \in Thread, Start(t)
  PROVE  LockOwnership'
<1>1. PICK q \in Request : Start(t)!(q)
  BY DEF Start
<1>2. \A u \in Thread :
        /\ HoldsBus(u)' <=> HoldsBus(u)
        /\ HoldsMux(u)' <=> HoldsMux(u)
        /\ HoldsGroup(u)' <=> HoldsGroup(u)
        /\ u # t => MyMux(u)' = MyMux(u) /\ MySel(u)' = MySel(u)
  <2> SUFFICES ASSUME NEW u \in Thread
               PROVE  /\ HoldsBus(u)' <=> HoldsBus(u)
                      /\ HoldsMux(u)' <=> HoldsMux(u)
                      /\ HoldsGroup(u)' <=> HoldsGroup(u)
                      /\ u # t => MyMux(u)' = MyMux(u) /\ MySel(u)' = MySel(u)
    OBVIOUS
  <2>1. CASE u = t
    <3>1. Root \notin PinChan
      BY TopologyAssumption DEF Chan
    <3> QED BY <1>1, <2>1, <3>1 DEF TypeOK, Goto, Enter, HoldsBus, HoldsMux, HoldsGroup,
                                    OnRoot, OnPin, OnPca
  <2>2. CASE u # t
    BY <1>1, <2>2 DEF TypeOK, Goto, Enter, HoldsBus, HoldsMux, HoldsGroup,
                      OnRoot, OnPin, OnPca, MyMux, MySel
  <2> QED BY <2>1, <2>2
<1>3. ~HoldsMux(t) /\ ~HoldsGroup(t)
  BY <1>1 DEF HoldsMux, HoldsGroup
<1>4. UNCHANGED locks
  BY <1>1
<1> QED BY <1>2, <1>3, <1>4 DEF LockOwnership, locks

\* Where a step of t moves t only, the others hold what they held.
LEMMA OthersKeep ==
  ASSUME TypeOK, NEW t \in Thread, UNCHANGED call,
         NEW p, NEW f, pc' = [pc EXCEPT ![t] = p], phase' = [phase EXCEPT ![t] = f],
         NEW u \in Thread, u # t
  PROVE  /\ HoldsBus(u)' <=> HoldsBus(u)
         /\ HoldsMux(u)' <=> HoldsMux(u)
         /\ HoldsGroup(u)' <=> HoldsGroup(u)
BY DEF TypeOK, HoldsBus, HoldsMux, HoldsGroup, OnRoot, OnPin, OnPca

\* A bus is of one kind only.
LEMMA Disjoint ==
  /\ \A c : ~(c \in PinChan /\ c \in PcaChan)
  /\ Root \notin PinChan /\ Root \notin PcaChan
BY TopologyAssumption DEF Chan

LEMMA AcquireLocks ==
  ASSUME TypeOK, CallShape, LockOwnership, NEW t \in Thread, Acquire(t)
  PROVE  LockOwnership'
<1> USE DEF TypeOK, Goto, Enter
<1>0. \A u \in Thread : u # NoThread
  BY CallAssumption
<1>c. \A u \in Thread : MyMux(u)' = MyMux(u) /\ MySel(u)' = MySel(u)
  BY DEF Acquire, LockMux, LockGroup, WriteLevel, LockBus, LockFails, MyMux, MySel
<1>p. PICK p, f : pc' = [pc EXCEPT ![t] = p] /\ phase' = [phase EXCEPT ![t] = f]
  <2>1. pc' = [pc EXCEPT ![t] = pc'[t]] /\ phase' = [phase EXCEPT ![t] = phase'[t]]
    BY DEF Acquire, LockMux, LockGroup, WriteLevel, LockBus, LockFails
  <2> QED BY <2>1
<1>k. UNCHANGED call
  BY DEF Acquire, LockMux, LockGroup, WriteLevel, LockBus, LockFails
<1>o. \A u \in Thread : u # t =>
        /\ HoldsBus(u)' <=> HoldsBus(u)
        /\ HoldsMux(u)' <=> HoldsMux(u)
        /\ HoldsGroup(u)' <=> HoldsGroup(u)
  BY <1>p, <1>k, OthersKeep
<1>1. CASE LockMux(t)
  <2>1. ~HoldsMux(t) /\ HoldsMux(t)'
    BY <1>1 DEF LockMux, HoldsMux, CallShape, OnRoot
  <2>2. (HoldsBus(t)' <=> HoldsBus(t)) /\ (HoldsGroup(t)' <=> HoldsGroup(t))
    BY <1>1, Disjoint DEF LockMux, HoldsBus, HoldsGroup, OnPin, OnPca
  <2>3. MyMux(t) \in Mux
    BY <1>1, ChanTypes DEF LockMux, MyMux, OnPin, OnPca, Chan
  <2> QED BY <1>0, <1>1, <1>c, <1>o, <2>1, <2>2, <2>3 DEF LockMux, LockOwnership
<1>2. CASE LockGroup(t)
  <2>1. ~HoldsGroup(t) /\ HoldsGroup(t)'
    BY <1>2 DEF LockGroup, HoldsGroup, CallShape, OnPin
  <2>2. (HoldsBus(t)' <=> HoldsBus(t)) /\ (HoldsMux(t)' <=> HoldsMux(t))
    BY <1>2 DEF LockGroup, HoldsBus, HoldsMux, OnRoot, OnPca
  <2>3. MySel(t) \in Selector
    BY <1>2, ChanTypes DEF LockGroup, CallShape, MySel, OnPin, Chan
  <2> QED BY <1>0, <1>2, <1>c, <1>o, <2>1, <2>2, <2>3 DEF LockGroup, LockOwnership
<1>3. CASE WriteLevel(t)
  <2>1. /\ HoldsBus(t)' <=> HoldsBus(t)
        /\ HoldsMux(t)' <=> HoldsMux(t)
        /\ HoldsGroup(t)' <=> HoldsGroup(t)
    BY <1>3 DEF WriteLevel, HoldsBus, HoldsMux, HoldsGroup, OnRoot, OnPin, OnPca
  <2>2. UNCHANGED locks
    BY <1>3 DEF WriteLevel
  <2> QED BY <1>c, <1>o, <2>1, <2>2 DEF LockOwnership, locks
<1>4. CASE LockBus(t)
  <2>1. ~HoldsBus(t) /\ HoldsBus(t)'
    BY <1>4 DEF LockBus, HoldsBus, CallShape, OnPca
  <2>2. (HoldsMux(t)' <=> HoldsMux(t)) /\ (HoldsGroup(t)' <=> HoldsGroup(t))
    BY <1>4 DEF LockBus, HoldsMux, HoldsGroup, OnRoot, OnPin
  <2> QED BY <1>0, <1>4, <1>c, <1>o, <2>1, <2>2 DEF LockBus, LockOwnership
<1>5. CASE LockFails(t)
  <2>1. HoldsBus(t)' <=> HoldsBus(t)
    BY <1>5 DEF LockFails, HoldsBus, OnPca
  <2>2. HoldsMux(t)' <=> HoldsMux(t)
    BY <1>5 DEF LockFails, HoldsMux, OnRoot, CallShape
  <2>3. HoldsGroup(t)' <=> HoldsGroup(t)
    BY <1>5, Disjoint DEF LockFails, HoldsGroup, OnRoot, OnPin, OnPca
  <2>4. UNCHANGED locks
    BY <1>5 DEF LockFails
  <2> QED BY <1>c, <1>o, <2>1, <2>2, <2>3, <2>4 DEF LockOwnership, locks
<1> QED BY <1>1, <1>2, <1>3, <1>4, <1>5 DEF Acquire

LEMMA ReleaseLocks ==
  ASSUME TypeOK, CallShape, LockOwnership, NEW t \in Thread, Release(t)
  PROVE  LockOwnership'
<1> USE DEF TypeOK, Goto, Enter
<1>0. \A u \in Thread : u # NoThread
  BY CallAssumption
<1>c. \A u \in Thread : MyMux(u)' = MyMux(u) /\ MySel(u)' = MySel(u)
  BY DEF Release, UnlockBus, UnlockGroup, UnlockMux, MyMux, MySel
<1>k. UNCHANGED call
  BY DEF Release, UnlockBus, UnlockGroup, UnlockMux
<1>p. PICK p, f : pc' = [pc EXCEPT ![t] = p] /\ phase' = [phase EXCEPT ![t] = f]
  <2>1. pc' = [pc EXCEPT ![t] = pc'[t]] /\ phase' = [phase EXCEPT ![t] = phase'[t]]
    BY DEF Release, UnlockBus, UnlockGroup, UnlockMux
  <2> QED BY <2>1
<1>o. \A u \in Thread : u # t =>
        /\ HoldsBus(u)' <=> HoldsBus(u)
        /\ HoldsMux(u)' <=> HoldsMux(u)
        /\ HoldsGroup(u)' <=> HoldsGroup(u)
  BY <1>p, <1>k, OthersKeep
<1>1. CASE UnlockBus(t)
  <2>1. HoldsBus(t) /\ ~HoldsBus(t)'
    BY <1>1 DEF UnlockBus, HoldsBus, CallShape, OnPca
  <2>2. HoldsMux(t)' <=> HoldsMux(t)
    BY <1>1, Disjoint DEF UnlockBus, HoldsMux, CallShape, OnRoot, OnPin, OnPca
  <2>3. HoldsGroup(t)' <=> HoldsGroup(t)
    BY <1>1, Disjoint DEF UnlockBus, HoldsGroup, CallShape, OnRoot, OnPin, OnPca
  <2> QED BY <1>0, <1>1, <1>c, <1>o, <2>1, <2>2, <2>3 DEF UnlockBus, LockOwnership
<1>2. CASE UnlockGroup(t)
  <2>1. HoldsGroup(t) /\ ~HoldsGroup(t)'
    BY <1>2 DEF UnlockGroup, HoldsGroup, CallShape
  <2>2. (HoldsBus(t)' <=> HoldsBus(t)) /\ (HoldsMux(t)' <=> HoldsMux(t))
    BY <1>2 DEF UnlockGroup, HoldsBus, HoldsMux, OnRoot
  <2>3. MySel(t) \in Selector
    BY <1>2, ChanTypes DEF UnlockGroup, CallShape, MySel, OnPin, Chan
  <2> QED BY <1>0, <1>2, <1>c, <1>o, <2>1, <2>2, <2>3 DEF UnlockGroup, LockOwnership
<1>3. CASE UnlockMux(t)
  <2>1. HoldsMux(t) /\ ~HoldsMux(t)'
    BY <1>3 DEF UnlockMux, HoldsMux, CallShape
  <2>2. (HoldsBus(t)' <=> HoldsBus(t)) /\ (HoldsGroup(t)' <=> HoldsGroup(t))
    BY <1>3 DEF UnlockMux, HoldsBus, HoldsGroup
  <2> QED BY <1>0, <1>3, <1>c, <1>o, <2>1, <2>2 DEF UnlockMux, LockOwnership
<1> QED BY <1>1, <1>2, <1>3 DEF Release

-----------------------------------------------------------------------------
(* The inductive invariant.                                                *)

IInv == TypeOK /\ CallShape /\ LockOwnership

LEMMA InitIInv == Init => IInv
<1> SUFFICES ASSUME Init PROVE IInv
  OBVIOUS
<1>1. TypeOK
  BY InitType
<1>2. CallShape
  BY DEF Init, CallShape
<1>3. LockOwnership
  BY CallAssumption DEF Init, LockOwnership, HoldsBus, HoldsMux, HoldsGroup
<1> QED BY <1>1, <1>2, <1>3 DEF IInv

LEMMA NextIInv == IInv /\ [Next]_vars => IInv'
<1> SUFFICES ASSUME IInv, [Next]_vars PROVE IInv'
  OBVIOUS
<1>i. TypeOK /\ CallShape /\ LockOwnership
  BY DEF IInv
<1>1. ASSUME NEW t \in Thread, Start(t) PROVE IInv'
  BY <1>1, <1>i, StartType, StartShape, StartLocks DEF IInv
<1>2. ASSUME NEW t \in Thread, Acquire(t) PROVE IInv'
  BY <1>2, <1>i, AcquireType, AcquireShape, AcquireLocks DEF IInv
<1>3. ASSUME NEW t \in Thread, Execute(t) PROVE IInv'
  BY <1>3, <1>i, ExecuteType, ExecuteShape, ExecuteLocks DEF IInv
<1>4. ASSUME NEW t \in Thread, Release(t) PROVE IInv'
  BY <1>4, <1>i, ReleaseType, ReleaseShape, ReleaseLocks DEF IInv
<1>5. CASE UNCHANGED vars
  BY <1>i, <1>5 DEF IInv, TypeOK, CallShape, LockOwnership, vars, locks, wire, locals,
                    HoldsBus, HoldsMux, HoldsGroup, OnRoot, OnPin, OnPca, MyMux, MySel
<1> QED BY <1>1, <1>2, <1>3, <1>4, <1>5 DEF Next, Advance

LEMMA IInvHolds == Spec => []IInv
BY InitIInv, NextIInv, PTL DEF Spec

(***************************************************************************)
(* Every variable keeps its type in every behaviour (I2cStack.TypeOK).     *)
(***************************************************************************)
THEOREM TypeInvariant == Spec => []TypeOK
<1>1. IInv => TypeOK
  BY DEF IInv
<1> QED BY <1>1, IInvHolds, PTL

(***************************************************************************)
(* No path of acquire, execute and release, with or without errors, leaks  *)
(* a lock or releases another thread's, for every layout of muxes          *)
(* (sdi_i2cmux_pin.c:80-146, sdi_i2cmux_pca.c:68-127).                     *)
(***************************************************************************)
THEOREM LockSafety == Spec => []LockOwnership
<1>1. IInv => LockOwnership
  BY DEF IInv
<1> QED BY <1>1, IInvHolds, PTL

-----------------------------------------------------------------------------
(* The shared descriptor, when no mux is selected over I2C: the lock of    *)
(* the adapter then covers every execute.                                  *)

LEMMA OneSession ==
  ASSUME PcaChan = {}, LockOwnership, NEW t \in Thread, NEW u \in Thread,
         InSession(t), InSession(u)
  PROVE  t = u
BY DEF LockOwnership, InSession, HoldsBus, OnPca

\* From ioctl(I2C_SLAVE) to the last attempt the descriptor has t's address.
SlaveSet ==
  \A t \in Thread : pc[t] \in {"pecon", "xfer"} => fdSlave = SlaveAddr(t)

\* A step that leaves the descriptor and t's execute alone.
LEMMA SlaveSetKept ==
  ASSUME TypeOK, SlaveSet, UNCHANGED fdSlave,
         \A u \in Thread : pc[u]' \in {"pecon", "xfer"} =>
           /\ pc[u] \in {"pecon", "xfer"}
           /\ phase'[u] = phase[u] /\ call'[u] = call[u]
  PROVE  SlaveSet'
BY DEF SlaveSet, SlaveAddr, Target, MySel

LEMMA EndExecuteSlave ==
  ASSUME TypeOK, SlaveSet, NEW t \in Thread, NEW r \in {"ok", "err"},
         EndExecute(t, r), UNCHANGED <<fdSlave, call>>
  PROVE  SlaveSet'
<1>1. \A u \in Thread : pc[u]' \in {"pecon", "xfer"} =>
        /\ pc[u] \in {"pecon", "xfer"}
        /\ phase'[u] = phase[u] /\ call'[u] = call[u]
  BY DEF TypeOK, EndExecute, Goto, Enter
<1> QED BY <1>1, SlaveSetKept

LEMMA NextSlave ==
  ASSUME PcaChan = {}, IInv, SlaveSet, [Next]_vars
  PROVE  SlaveSet'
<1> USE DEF Goto, Enter
<1>i. TypeOK /\ LockOwnership
  BY DEF IInv
<1>q. ASSUME UNCHANGED fdSlave,
             \A u \in Thread : pc[u]' \in {"pecon", "xfer"} =>
               /\ pc[u] \in {"pecon", "xfer"}
               /\ phase'[u] = phase[u] /\ call'[u] = call[u]
      PROVE  SlaveSet'
  BY <1>q, <1>i, SlaveSetKept
<1>1. ASSUME NEW t \in Thread, Start(t) PROVE SlaveSet'
  <2>1. PICK q \in Request : Start(t)!(q)
    BY <1>1 DEF Start
  <2> QED BY <1>i, <1>q, <2>1 DEF TypeOK, wire
<1>2. ASSUME NEW t \in Thread, Acquire(t) PROVE SlaveSet'
  <2>1. UNCHANGED <<fdSlave, call>>
    BY <1>2 DEF Acquire, LockMux, LockGroup, WriteLevel, LockBus, LockFails, wire
  <2>2. \A u \in Thread : pc[u]' \in {"pecon", "xfer"} =>
          pc[u] \in {"pecon", "xfer"} /\ phase'[u] = phase[u]
    BY <1>2, <1>i DEF TypeOK, Acquire, LockMux, LockGroup, WriteLevel, LockBus, LockFails
  <2> QED BY <1>q, <2>1, <2>2
<1>3. ASSUME NEW t \in Thread, SetSlave(t) PROVE SlaveSet'
  <2>1. CASE EndExecute(t, "err") /\ UNCHANGED fdSlave
    BY <1>3, <1>i, <2>1, EndExecuteSlave DEF SetSlave
  <2>2. CASE /\ fdSlave' = SlaveAddr(t)
             /\ Goto(t, IF WantsPec(t) THEN "pecon" ELSE "xfer")
             /\ UNCHANGED <<phase, count, rc>>
    <3> SUFFICES ASSUME NEW u \in Thread, pc'[u] \in {"pecon", "xfer"}
                 PROVE  (fdSlave = SlaveAddr(u))'
      BY DEF SlaveSet
    <3>1. u = t
      BY <1>3, <1>i, <2>2, OneSession DEF SetSlave, InSession, TypeOK
    <3> QED BY <1>3, <2>2, <3>1 DEF SetSlave, SlaveAddr, Target, MySel
  <2> QED BY <1>3, <2>1, <2>2 DEF SetSlave
<1>4. ASSUME NEW t \in Thread, EnablePec(t) PROVE SlaveSet'
  <2>1. CASE EndExecute(t, "err")
    BY <1>4, <1>i, <2>1, EndExecuteSlave DEF EnablePec
  <2>2. CASE Goto(t, "xfer") /\ UNCHANGED <<phase, count, rc>>
    BY <1>4, <1>i, <1>q, <2>2 DEF EnablePec, TypeOK
  <2> QED BY <1>4, <2>1, <2>2 DEF EnablePec
<1>t. ASSUME NEW t \in Thread, NEW r \in {"ok", "err"}, pc[t] = "xfer",
             EndTransfer(t, r), UNCHANGED <<fdSlave, call>>
      PROVE  SlaveSet'
  <2>1. CASE WantsPec(t)
    BY <1>t, <1>i, <1>q, <2>1 DEF EndTransfer, TypeOK
  <2>2. CASE ~WantsPec(t)
    BY <1>t, <1>i, <2>2, EndExecuteSlave DEF EndTransfer
  <2> QED BY <2>1, <2>2
<1>5. ASSUME NEW t \in Thread, Transfer(t) PROVE SlaveSet'
  <2>1. CASE EndTransfer(t, "ok")
    BY <1>5, <1>t, <2>1 DEF Transfer
  <2>2. CASE UNCHANGED <<pc, phase, count, rc>>
    BY <1>5, <1>q, <2>2 DEF Transfer
  <2> QED BY <1>5, <2>1, <2>2 DEF Transfer
<1>6. ASSUME NEW t \in Thread, TransferFails(t) PROVE SlaveSet'
  <2>1. CASE EndTransfer(t, "err")
    BY <1>6, <1>t, <2>1 DEF TransferFails
  <2>2. CASE UNCHANGED <<pc, phase, count, sub, rc>>
    BY <1>6, <1>q, <2>2 DEF TransferFails
  <2> QED BY <1>6, <2>1, <2>2 DEF TransferFails
<1>7. ASSUME NEW t \in Thread, DisablePec(t) PROVE SlaveSet'
  <2>1. rc[t] \in {"ok", "err"}
    BY <1>i DEF TypeOK
  <2> QED BY <1>7, <1>i, <2>1, EndExecuteSlave DEF DisablePec
<1>8. ASSUME NEW t \in Thread, Release(t) PROVE SlaveSet'
  <2>1. UNCHANGED <<fdSlave, call>>
    BY <1>8 DEF Release, UnlockBus, UnlockGroup, UnlockMux, wire
  <2>2. \A u \in Thread : pc[u]' \in {"pecon", "xfer"} =>
          pc[u] \in {"pecon", "xfer"} /\ phase'[u] = phase[u]
    BY <1>8, <1>i DEF TypeOK, Release, UnlockBus, UnlockGroup, UnlockMux
  <2> QED BY <1>q, <2>1, <2>2
<1>9. CASE UNCHANGED vars
  BY <1>q, <1>9 DEF vars, wire, locals
<1> QED BY <1>1, <1>2, <1>3, <1>4, <1>5, <1>6, <1>7, <1>8, <1>9 DEF Next, Advance, Execute

(***************************************************************************)
(* On a board whose muxes are all selected by pins, every attempt of every *)
(* transfer carries the slave address of the call that makes it            *)
(* (sdi_i2cdev.c:628-760).  The run of I2cPcaShared.cfg shows that the     *)
(* hypothesis is needed.                                                   *)
(***************************************************************************)
THEOREM SlaveSafety == PcaChan = {} => (Spec => []SlaveIsMine)
<1> SUFFICES ASSUME PcaChan = {} PROVE Spec => []SlaveIsMine
  OBVIOUS
<1>1. Init => SlaveSet
  BY DEF Init, SlaveSet
<1>2. IInv /\ SlaveSet /\ [Next]_vars => SlaveSet'
  BY NextSlave
<1>3. SlaveSet => SlaveIsMine
  BY DEF SlaveSet, SlaveIsMine
<1> QED BY <1>1, <1>2, <1>3, IInvHolds, PTL DEF Spec

-----------------------------------------------------------------------------
(* PEC, on the same boards and as long as the ioctl that ends it works.    *)

UsesPec(t) == pc[t] \in {"xfer", "pecoff"} /\ WantsPec(t)

\* PEC is on exactly for the execute under way that asked for it.
PecSet == /\ PecHonoured
          /\ fdPec => \E t \in Thread : UsesPec(t)

LEMMA WantsPecType ==
  ASSUME TypeOK, NEW t \in Thread
  PROVE  WantsPec(t) \in BOOLEAN
<1>1. call[t] \in RequestType
  BY CallAssumption DEF TypeOK
<1> QED BY <1>1 DEF WantsPec

\* A step that leaves PEC and the transfers alone.
LEMMA PecSetKept ==
  ASSUME PecSet, UNCHANGED fdPec,
         \A u \in Thread : (pc[u] \in {"xfer", "pecoff"} \/ pc'[u] \in {"xfer", "pecoff"}) =>
           pc'[u] = pc[u] /\ phase'[u] = phase[u] /\ call'[u] = call[u]
  PROVE  PecSet'
<1>1. PecHonoured'
  BY DEF PecSet, PecHonoured, WantsPec
<1>2. ASSUME fdPec' PROVE \E t \in Thread : UsesPec(t)'
  <2>1. PICK t \in Thread : UsesPec(t)
    BY <1>2 DEF PecSet
  <2>2. UsesPec(t)'
    BY <2>1 DEF UsesPec, WantsPec
  <2> QED BY <2>2
<1> QED BY <1>1, <1>2 DEF PecSet

\* With PEC off and no transfer under way there is nothing to show.
LEMMA PecSetOff ==
  ASSUME PcaChan = {}, TypeOK, LockOwnership, NEW t \in Thread, InSession(t),
         NEW p, Goto(t, p), fdPec' = FALSE, p = "xfer" => WantsPec(t)' = FALSE
  PROVE  PecSet'
<1> SUFFICES ASSUME NEW u \in Thread, pc'[u] = "xfer" PROVE WantsPec(u)' = FALSE
  BY DEF PecSet, PecHonoured
<1>1. u = t
  BY OneSession DEF Goto, TypeOK, InSession
<1> QED BY <1>1 DEF Goto, TypeOK

LEMMA EndExecutePec ==
  ASSUME PcaChan = {}, TypeOK, LockOwnership, NEW t \in Thread, NEW r, InSession(t),
         EndExecute(t, r), fdPec' = FALSE
  PROVE  PecSet'
<1>1. PICK p \in {"slave", "buslock", "busunlock"} : Goto(t, p)
  BY DEF EndExecute, Enter
<1> QED BY <1>1, PecSetOff

\* Nobody has left PEC on for the execute that begins.
LEMMA PecOffAtStart ==
  ASSUME PcaChan = {}, TypeOK, LockOwnership, PecSet, NEW t \in Thread, pc[t] = "slave"
  PROVE  fdPec = FALSE
BY OneSession DEF PecSet, UsesPec, InSession, TypeOK

LEMMA NextPec ==
  ASSUME PcaChan = {}, "pec" \notin Fault, IInv, PecSet, [Next]_vars
  PROVE  PecSet'
<1>i. TypeOK /\ CallShape /\ LockOwnership
  BY DEF IInv
<1>q. ASSUME UNCHANGED fdPec,
             \A u \in Thread : (pc[u] \in {"xfer", "pecoff"} \/ pc'[u] \in {"xfer", "pecoff"}) =>
               pc'[u] = pc[u] /\ phase'[u] = phase[u] /\ call'[u] = call[u]
      PROVE  PecSet'
  BY <1>q, PecSetKept
<1>1. ASSUME NEW t \in Thread, Start(t) PROVE PecSet'
  <2>1. PICK q \in Request : Start(t)!(q)
    BY <1>1 DEF Start
  <2> QED BY <1>i, <1>q, <2>1 DEF TypeOK, wire, Goto, Enter
<1>2. ASSUME NEW t \in Thread, Acquire(t) PROVE PecSet'
  <2>1. UNCHANGED <<fdPec, call>>
    BY <1>2 DEF Acquire, LockMux, LockGroup, WriteLevel, LockBus, LockFails, wire
  <2>2. \A u \in Thread : (pc[u] \in {"xfer", "pecoff"} \/ pc'[u] \in {"xfer", "pecoff"}) =>
          pc'[u] = pc[u] /\ phase'[u] = phase[u]
    BY <1>2, <1>i DEF TypeOK, Goto, Enter, Acquire, LockMux, LockGroup, WriteLevel, LockBus,
                      LockFails
  <2> QED BY <1>q, <2>1, <2>2
<1>3. ASSUME NEW t \in Thread, SetSlave(t) PROVE PecSet'
  <2>1. fdPec = FALSE /\ fdPec' = FALSE /\ InSession(t)
    BY <1>3, <1>i, PecOffAtStart DEF SetSlave, InSession
  <2>2. CASE EndExecute(t, "err")
    BY <1>i, <2>1, <2>2, EndExecutePec
  <2>3. CASE Goto(t, IF WantsPec(t) THEN "pecon" ELSE "xfer") /\ UNCHANGED phase
    <3>1. WantsPec(t)' = WantsPec(t) /\ WantsPec(t) \in BOOLEAN
      BY <1>3, <1>i, <2>3, WantsPecType DEF SetSlave, WantsPec
    <3>2. CASE WantsPec(t)
      BY <1>i, <2>1, <2>3, <3>2, PecSetOff
    <3>3. CASE ~WantsPec(t)
      BY <1>i, <2>1, <2>3, <3>1, <3>3, PecSetOff
    <3> QED BY <3>2, <3>3
  <2> QED BY <1>3, <2>2, <2>3 DEF SetSlave
<1>4. ASSUME NEW t \in Thread, EnablePec(t) PROVE PecSet'
  <2>1. fdPec' = TRUE /\ pc' = [pc EXCEPT ![t] = "xfer"] /\ UNCHANGED <<phase, call>>
    BY <1>4 DEF EnablePec, Goto
  <2>2. WantsPec(t) /\ WantsPec(t)'
    BY <1>4, <1>i, <2>1 DEF EnablePec, CallShape, WantsPec
  <2>3. ASSUME NEW u \in Thread, pc'[u] = "xfer" PROVE u = t
    BY <1>4, <1>i, <2>1, <2>3, OneSession DEF EnablePec, InSession, TypeOK
  <2>4. UsesPec(t)'
    BY <1>i, <2>1, <2>2 DEF UsesPec, TypeOK
  <2>5. WantsPec(t)' \in BOOLEAN
    BY <2>2, WantsPecType, <1>i, <2>1 DEF WantsPec
  <2> QED BY <2>1, <2>2, <2>3, <2>4, <2>5 DEF PecSet, PecHonoured
<1>t. ASSUME NEW t \in Thread, NEW r \in {"ok", "err"}, pc[t] = "xfer",
             EndTransfer(t, r), UNCHANGED <<fdPec, call>>
      PROVE  PecSet'
  <2>0. InSession(t) /\ fdPec = WantsPec(t)
    BY <1>t DEF InSession, PecSet, PecHonoured
  <2>1. CASE WantsPec(t)
    <3>1. pc' = [pc EXCEPT ![t] = "pecoff"] /\ UNCHANGED phase
      BY <1>t, <2>1 DEF EndTransfer, Goto
    <3>2. UsesPec(t)'
      BY <1>t, <1>i, <2>1, <3>1 DEF UsesPec, WantsPec, TypeOK
    <3>3. ASSUME NEW u \in Thread, pc'[u] = "xfer" PROVE FALSE
      BY <1>i, <2>0, <3>1, <3>3, OneSession DEF InSession, TypeOK
    <3> QED BY <3>2, <3>3 DEF PecSet, PecHonoured
  <2>2. CASE ~WantsPec(t)
    <3>1. fdPec' = FALSE
      BY <1>t, <1>i, <2>0, <2>2, WantsPecType
    <3> QED BY <1>t, <1>i, <2>0, <2>2, <3>1, EndExecutePec DEF EndTransfer
  <2> QED BY <2>1, <2>2
<1>5. ASSUME NEW t \in Thread, Transfer(t) PROVE PecSet'
  <2>1. CASE EndTransfer(t, "ok")
    BY <1>5, <1>t, <2>1 DEF Transfer
  <2>2. CASE UNCHANGED <<pc, phase, count, rc>>
    BY <1>5, <1>q, <2>2 DEF Transfer
  <2> QED BY <1>5, <2>1, <2>2 DEF Transfer
<1>6. ASSUME NEW t \in Thread, TransferFails(t) PROVE PecSet'
  <2>1. CASE EndTransfer(t, "err")
    BY <1>6, <1>t, <2>1 DEF TransferFails
  <2>2. CASE UNCHANGED <<pc, phase, count, sub, rc>>
    BY <1>6, <1>q, <2>2 DEF TransferFails
  <2> QED BY <1>6, <2>1, <2>2 DEF TransferFails
<1>7. ASSUME NEW t \in Thread, DisablePec(t) PROVE PecSet'
  <2>1. fdPec' = FALSE /\ EndExecute(t, rc[t]) /\ InSession(t)
    BY <1>7 DEF DisablePec, InSession
  <2> QED BY <1>i, <2>1, EndExecutePec
<1>8. ASSUME NEW t \in Thread, Release(t) PROVE PecSet'
  <2>1. UNCHANGED <<fdPec, call>>
    BY <1>8 DEF Release, UnlockBus, UnlockGroup, UnlockMux, wire
  <2>2. \A u \in Thread : (pc[u] \in {"xfer", "pecoff"} \/ pc'[u] \in {"xfer", "pecoff"}) =>
          pc'[u] = pc[u] /\ phase'[u] = phase[u]
    BY <1>8, <1>i DEF TypeOK, Goto, Enter, Release, UnlockBus, UnlockGroup, UnlockMux
  <2> QED BY <1>q, <2>1, <2>2
<1>9. CASE UNCHANGED vars
  BY <1>q, <1>9 DEF vars, wire, locals
<1> QED BY <1>1, <1>2, <1>3, <1>4, <1>5, <1>6, <1>7, <1>8, <1>9 DEF Next, Advance, Execute

(***************************************************************************)
(* On a board whose muxes are all selected by pins, and as long as no      *)
(* ioctl(I2C_PEC) fails, every attempt of every transfer uses PEC exactly  *)
(* if its own call asked for it, whatever else fails: no path of execute   *)
(* leaves the flag on for the next caller (sdi_i2cdev.c:648-657, 748-757). *)
(***************************************************************************)
THEOREM PecSafety == PcaChan = {} /\ "pec" \notin Fault => (Spec => []PecHonoured)
<1> SUFFICES ASSUME PcaChan = {}, "pec" \notin Fault PROVE Spec => []PecHonoured
  OBVIOUS
<1>1. Init => PecSet
  BY DEF Init, PecSet, PecHonoured
<1>2. IInv /\ PecSet /\ [Next]_vars => PecSet'
  BY NextPec
<1>3. PecSet => PecHonoured
  BY DEF PecSet
<1> QED BY <1>1, <1>2, <1>3, IInvHolds, PTL DEF Spec
-----------------------------------------------------------------------------
(***************************************************************************)
(* Boards whose muxes are all selected by pins, with an address plan that  *)
(* gives devices which may be on the wire together different addresses:    *)
(* every transfer reaches its own device only, and I2cStack implements the *)
(* abstract service, for every number of threads, channels and muxes and   *)
(* every combination of failures.                                          *)
(***************************************************************************)

(***************************************************************************)
(* The address plan: a device that has the address a call or a selector    *)
(* uses is on the bus that is named, or on another channel of the mux.     *)
(***************************************************************************)
AddressPlan ==
  /\ \A q \in Request, d \in Device : d[2] = q.addr =>
       \/ d[1] = q.bus
       \/ q.bus \in Chan /\ d[1] \in Chan /\ SelOf[d[1]] = SelOf[q.bus]
  /\ \A s \in Selector, d \in Device :
       SelAddr[s] \in Addr /\ d[2] = SelAddr[s] => d[1] = Root

Plan == PcaChan = {} /\ AddressPlan

-----------------------------------------------------------------------------
(* Routing.                                                                *)

\* The steps of a call on a pin-selected channel at which it is connected.
Reached(t) ==
  /\ OnPin(t)
  /\ \/ /\ phase[t] = "body"
        /\ pc[t] \in {"buslock", "slave", "pecon", "xfer", "pecoff", "busunlock"}
     \/ phase[t] = "setlevel" /\ pc[t] = "busunlock" /\ rc[t] = "ok"

Routing == \A t \in Thread : Reached(t) => sel[MySel(t)] = call[t].bus

\* The group's lock is held wherever the channel is relied upon.
LEMMA OneUser ==
  ASSUME LockOwnership, NEW t \in Thread, NEW u \in Thread,
         Reached(t), HoldsGroup(u), MySel(t) = MySel(u)
  PROVE  t = u
<1>1. HoldsGroup(t)
  BY DEF Reached, HoldsGroup
<1>2. MySel(t) \in Selector
  BY ChanTypes DEF Reached, OnPin, Chan, MySel
<1> QED BY <1>1, <1>2 DEF LockOwnership

\* With the address of its own device set and its channel connected, a
\* transfer is answered by that device or by none.
LEMMA ExactAnswer ==
  ASSUME Plan, IInv, SlaveSet, Routing, NEW t \in Thread, pc[t] = "xfer"
  PROVE  Answering = {Target(t)} \cap Device
<1>i. TypeOK /\ CallShape
  BY DEF IInv
<1>1. fdSlave = SlaveAddr(t)
  BY DEF SlaveSet
<1>2. call[t] \in Request /\ call[t] \in RequestType
  BY <1>i, CallAssumption DEF TypeOK
<1>3. call[t].bus = Root \/ OnPin(t)
  BY <1>2 DEF Plan, Bus, Chan, OnPin
<1>4. \A d \in Device : d = <<d[1], d[2]>> /\ d[1] \in Bus
  BY TopologyAssumption
<1>5. CASE phase[t] = "body"
  <2>1. Target(t) = <<call[t].bus, call[t].addr>> /\ fdSlave = call[t].addr
    BY <1>1, <1>5 DEF Target, SlaveAddr
  <2>2. Connected(call[t].bus)
    BY <1>3, <1>5 DEF Connected, Routing, Reached, MySel
  <2>3. ASSUME NEW d \in Device, d[2] = call[t].addr, Connected(d[1])
        PROVE  d[1] = call[t].bus
    <3>1. CASE call[t].bus = Root
      BY <1>2, <2>3, <3>1, Disjoint, TopologyAssumption DEF Plan, AddressPlan
    <3>2. CASE OnPin(t)
      <4>1. sel[SelOf[call[t].bus]] = call[t].bus
        BY <1>5, <3>2 DEF Routing, Reached, MySel
      <4>2. d[1] \in Chan => d[1] # Root
        BY TopologyAssumption
      <4> QED BY <1>2, <2>3, <4>1, <4>2 DEF Plan, AddressPlan, Connected
    <3> QED BY <1>3, <3>1, <3>2
  <2> QED BY <1>4, <2>1, <2>2, <2>3 DEF Answering
<1>6. CASE phase[t] # "body"
  <2>1. OnPin(t) /\ SelAddr[MySel(t)] # NoAddr
    BY <1>i, <1>6 DEF TypeOK, CallShape, OnPca, Plan
  <2>2. MySel(t) \in Selector /\ SelAddr[MySel(t)] \in Addr
    BY <2>1, ChanTypes, TopologyAssumption DEF OnPin, Chan, MySel
  <2>3. Target(t) = <<Root, SelAddr[MySel(t)]>> /\ fdSlave = SelAddr[MySel(t)]
    BY <1>1, <1>6 DEF Target, SlaveAddr
  <2>4. \A d \in Device : d[2] = SelAddr[MySel(t)] => d[1] = Root
    BY <2>2 DEF Plan, AddressPlan
  <2> QED BY <1>4, <2>3, <2>4 DEF Answering, Connected
<1> QED BY <1>5, <1>6

\* A delivery changes the selector of the pin group it writes and no other.
LEMMA DeliverKeeps ==
  ASSUME Plan, IInv, SlaveSet, Routing, NEW t \in Thread, pc[t] = "xfer",
         Deliver(t, Answering), NEW s \in Selector
  PROVE  \/ sel'[s] = sel[s]
         \/ phase[t] = "setlevel" /\ s = MySel(t) /\ sel'[s] = call[t].bus
<1>i. TypeOK /\ CallShape
  BY DEF IInv
<1>1. Answering = {Target(t)} \cap Device
  BY ExactAnswer
<1>2. phase[t] \notin {"select", "deselect"}
  BY <1>i DEF CallShape, OnPca, Plan
<1>3. CASE ControlDevice(s) \notin Answering
  BY <1>3 DEF Deliver
<1>4. CASE ControlDevice(s) \in Answering
  <2>1. Target(t) = ControlDevice(s)
    BY <1>1, <1>4
  <2>2. sel'[s] \in Selected(t, s)
    BY <1>4 DEF Deliver
  <2> QED BY <1>2, <2>1, <2>2 DEF Selected
<1> QED BY <1>3, <1>4

\* A step of t that touches no selector but one whose lock it holds leaves
\* the others' routes alone.
LEMMA OthersRouted ==
  ASSUME TypeOK, LockOwnership, Routing, NEW t \in Thread,
         NEW p, NEW f, NEW r, UNCHANGED call,
         pc' = [pc EXCEPT ![t] = p], phase' = [phase EXCEPT ![t] = f],
         rc' = [rc EXCEPT ![t] = r],
         \A s \in Selector : sel'[s] = sel[s] \/ (s = MySel(t) /\ HoldsGroup(t)),
         NEW u \in Thread, u # t, Reached(u)'
  PROVE  (sel[MySel(u)] = call[u].bus)'
<1>1. Reached(u) /\ MySel(u)' = MySel(u) /\ call'[u] = call[u]
  BY DEF TypeOK, Reached, OnPin, MySel
<1>2. MySel(u) \in Selector
  BY <1>1, ChanTypes DEF Reached, OnPin, Chan, MySel
<1>3. sel'[MySel(u)] = sel[MySel(u)]
  BY <1>1, <1>2, OneUser
<1> QED BY <1>1, <1>3 DEF Routing

\* The same for t itself, once it is known where it goes.
LEMMA StepRouted ==
  ASSUME TypeOK, LockOwnership, Routing, NEW t \in Thread,
         NEW p, NEW f, NEW r, UNCHANGED call,
         pc' = [pc EXCEPT ![t] = p], phase' = [phase EXCEPT ![t] = f],
         rc' = [rc EXCEPT ![t] = r],
         \A s \in Selector : sel'[s] = sel[s] \/ (s = MySel(t) /\ HoldsGroup(t)),
         Reached(t)' => sel'[MySel(t)] = call[t].bus
  PROVE  Routing'
<1> SUFFICES ASSUME NEW u \in Thread, Reached(u)' PROVE (sel[MySel(u)] = call[u].bus)'
  BY DEF Routing
<1>1. CASE u = t
  BY <1>1 DEF MySel
<1>2. CASE u # t
  BY <1>2, OthersRouted
<1> QED BY <1>1, <1>2

LEMMA EndExecuteRouted ==
  ASSUME Plan, IInv, Routing, NEW t \in Thread, NEW r \in {"ok", "err"},
         pc[t] \in {"slave", "pecon", "xfer", "pecoff"},
         EndExecute(t, r), UNCHANGED call,
         \A s \in Selector :
           \/ sel'[s] = sel[s]
           \/ phase[t] = "setlevel" /\ s = MySel(t),
         phase[t] = "setlevel" /\ r = "ok" => sel'[MySel(t)] = call[t].bus
  PROVE  Routing'
<1>i. TypeOK /\ CallShape /\ LockOwnership
  BY DEF IInv
<1>1. /\ pc' = [pc EXCEPT ![t] = pc'[t]]
      /\ phase' = [phase EXCEPT ![t] = phase'[t]]
      /\ rc' = [rc EXCEPT ![t] = rc'[t]]
  BY <1>i DEF TypeOK, EndExecute, Goto, Enter
<1>2. phase[t] = "setlevel" => HoldsGroup(t)
  BY <1>i DEF CallShape, HoldsGroup
<1>3. ASSUME Reached(t)' PROVE sel'[MySel(t)] = call[t].bus
  <2>1. CASE phase[t] = "body"
    <3>1. OnPin(t) /\ Reached(t)
      BY <1>3, <2>1 DEF Reached, OnPin
    <3>2. MySel(t) \in Selector
      BY <3>1, ChanTypes DEF OnPin, Chan, MySel
    <3> QED BY <2>1, <3>1, <3>2 DEF Routing
  <2>2. CASE phase[t] # "body"
    <3>1. UNCHANGED phase /\ phase[t] = "setlevel" /\ rc'[t] = "ok"
      BY <1>i, <1>3, <2>2 DEF EndExecute, Goto, Reached, TypeOK
    <3>2. rc'[t] = r
      BY <1>i, <2>2, <3>1 DEF EndExecute, TypeOK
    <3> QED BY <3>1, <3>2
  <2> QED BY <2>1, <2>2
<1> QED BY <1>i, <1>1, <1>2, <1>3, StepRouted

LEMMA EndTransferRouted ==
  ASSUME Plan, IInv, Routing, NEW t \in Thread, NEW r \in {"ok", "err"},
         pc[t] = "xfer", EndTransfer(t, r), UNCHANGED call,
         \A s \in Selector :
           \/ sel'[s] = sel[s]
           \/ phase[t] = "setlevel" /\ s = MySel(t),
         phase[t] = "setlevel" /\ r = "ok" => sel'[MySel(t)] = call[t].bus
  PROVE  Routing'
<1>i. TypeOK /\ CallShape /\ LockOwnership
  BY DEF IInv
<1>1. CASE WantsPec(t)
  <2>1. phase[t] = "body"
    BY <1>1 DEF WantsPec
  <2>2. /\ pc' = [pc EXCEPT ![t] = "pecoff"]
        /\ phase' = [phase EXCEPT ![t] = phase[t]]
        /\ rc' = [rc EXCEPT ![t] = r]
    BY <1>i, <1>1 DEF EndTransfer, Goto, TypeOK
  <2>3. ASSUME Reached(t)' PROVE sel'[MySel(t)] = call[t].bus
    <3>1. OnPin(t) /\ Reached(t)
      BY <2>1, <2>3 DEF Reached, OnPin
    <3>2. MySel(t) \in Selector
      BY <3>1, ChanTypes DEF OnPin, Chan, MySel
    <3> QED BY <2>1, <3>1, <3>2 DEF Routing
  <2> QED BY <1>i, <2>1, <2>2, <2>3, StepRouted
<1>2. CASE ~WantsPec(t)
  BY <1>2, EndExecuteRouted DEF EndTransfer
<1> QED BY <1>1, <1>2

LEMMA AcquireRouted ==
  ASSUME Plan, IInv, Routing, NEW t \in Thread, Acquire(t)
  PROVE  Routing'
<1> USE DEF Goto, Enter
<1>i. TypeOK /\ CallShape /\ LockOwnership
  BY DEF IInv
<1>1. /\ pc' = [pc EXCEPT ![t] = pc'[t]]
      /\ phase' = [phase EXCEPT ![t] = phase'[t]]
      /\ rc' = [rc EXCEPT ![t] = rc'[t]]
      /\ UNCHANGED call
  BY <1>i DEF TypeOK, Acquire, LockMux, LockGroup, WriteLevel, LockBus, LockFails
<1>2. CASE LockMux(t) \/ LockGroup(t) \/ LockFails(t)
  <2>1. UNCHANGED sel
    BY <1>2 DEF LockMux, LockGroup, LockFails, wire
  <2>2. ~Reached(t)'
    BY <1>2, <1>i DEF TypeOK, CallShape, LockMux, LockGroup, LockFails, Reached, OnPin, OnPca,
                      Plan
  <2> QED BY <1>i, <1>1, <2>1, <2>2, StepRouted
<1>3. CASE WriteLevel(t)
  <2>1. OnPin(t) /\ HoldsGroup(t)
    BY <1>i, <1>3 DEF WriteLevel, CallShape, HoldsGroup
  <2>2. MySel(t) \in Selector
    BY <2>1, ChanTypes DEF OnPin, Chan, MySel
  <2>3. \A s \in Selector : sel'[s] = sel[s] \/ s = MySel(t)
    BY <1>i, <1>3 DEF WriteLevel, TypeOK
  <2>4. ASSUME Reached(t)' PROVE sel'[MySel(t)] = call[t].bus
    BY <1>i, <1>3, <2>2, <2>4 DEF WriteLevel, TypeOK, Reached
  <2> QED BY <1>i, <1>1, <2>1, <2>3, <2>4, StepRouted
<1>4. CASE LockBus(t)
  <2>1. UNCHANGED <<sel, phase, call, rc>>
    BY <1>4 DEF LockBus, wire
  <2>2. Reached(t)' => Reached(t)
    BY <1>i, <1>4, <2>1 DEF LockBus, Reached, OnPin, TypeOK
  <2>3. Reached(t)' => sel'[MySel(t)] = call[t].bus
    BY <2>1, <2>2 DEF Routing
  <2> QED BY <1>i, <1>1, <2>1, <2>3, StepRouted
<1> QED BY <1>2, <1>3, <1>4 DEF Acquire

LEMMA ExecuteRouted ==
  ASSUME Plan, IInv, SlaveSet, Routing, NEW t \in Thread, Execute(t)
  PROVE  Routing'
<1>i. TypeOK /\ CallShape /\ LockOwnership
  BY DEF IInv
<1>0. rc[t] \in {"ok", "err"}
  BY <1>i DEF TypeOK
<1>g. ASSUME UNCHANGED <<sel, phase, call, rc>>, pc[t] \in {"slave", "pecon", "xfer"},
             NEW p \in {"pecon", "xfer"}, Goto(t, p)
      PROVE  Routing'
  <2>1. /\ pc' = [pc EXCEPT ![t] = p]
        /\ phase' = [phase EXCEPT ![t] = phase[t]]
        /\ rc' = [rc EXCEPT ![t] = rc[t]]
    BY <1>g, <1>i DEF Goto, TypeOK
  <2>2. Reached(t)' => Reached(t)
    BY <1>g, <1>i, <2>1 DEF Reached, OnPin, TypeOK
  <2>3. Reached(t)' => sel'[MySel(t)] = call[t].bus
    BY <1>g, <2>2 DEF Routing
  <2>4. ASSUME NEW u \in Thread, Reached(u)' PROVE (sel[MySel(u)] = call[u].bus)'
    <3>1. sel' = sel /\ call' = call
      BY <1>g
    <3>2. Reached(u)
      <4>1. CASE u = t
        BY <2>2, <2>4, <4>1
      <4>2. CASE u # t
        BY ONLY <1>i, <2>1, <2>4, <3>1, <4>2, t \in Thread, u \in Thread DEF Reached, OnPin, TypeOK
      <4> QED BY <4>1, <4>2
    <3>3. sel[MySel(u)] = call[u].bus
      BY ONLY <3>2, Routing, u \in Thread DEF Routing
    <3> QED BY ONLY <3>1, <3>3 DEF MySel
  <2> QED BY ONLY <2>4 DEF Routing
<1>1. CASE SetSlave(t)
  <2>1. pc[t] = "slave" /\ UNCHANGED <<sel, call>>
    BY <1>1 DEF SetSlave
  <2>2. CASE EndExecute(t, "err")
    BY <2>1, <2>2, EndExecuteRouted
  <2>3. CASE Goto(t, IF WantsPec(t) THEN "pecon" ELSE "xfer") /\ UNCHANGED <<phase, rc>>
    BY <2>1, <2>3, <1>g
  <2> QED BY <1>1, <2>2, <2>3 DEF SetSlave
<1>2. CASE EnablePec(t)
  <2>1. pc[t] = "pecon" /\ UNCHANGED <<sel, call>>
    BY <1>2 DEF EnablePec
  <2>2. CASE EndExecute(t, "err")
    BY <2>1, <2>2, EndExecuteRouted
  <2>3. CASE Goto(t, "xfer") /\ UNCHANGED <<phase, rc>>
    BY <2>1, <2>3, <1>g
  <2> QED BY <1>2, <2>2, <2>3 DEF EnablePec
<1>3. CASE Transfer(t)
  <2>1. pc[t] = "xfer" /\ Deliver(t, Answering) /\ Answering # {} /\ UNCHANGED call
    BY <1>3 DEF Transfer
  <2>2. \A s \in Selector : \/ sel'[s] = sel[s]
                            \/ phase[t] = "setlevel" /\ s = MySel(t)
    BY <2>1, DeliverKeeps
  <2>3. ASSUME phase[t] = "setlevel" PROVE sel'[MySel(t)] = call[t].bus
    <3>1. Target(t) \in Answering /\ Target(t) = ControlDevice(MySel(t))
      BY <2>1, <2>3, ExactAnswer DEF Target, ControlDevice
    <3>2. MySel(t) \in Selector
      BY <1>i, <2>1, <2>3, ChanTypes DEF CallShape, OnPin, Chan, MySel
    <3> QED BY <2>1, <2>3, <3>1, <3>2 DEF Deliver, Selected
  <2>4. CASE EndTransfer(t, "ok")
    BY <2>1, <2>2, <2>3, <2>4, EndTransferRouted
  <2>5. CASE phase[t] = "body" /\ UNCHANGED <<pc, phase, count, rc>>
    <3>1. /\ pc' = [pc EXCEPT ![t] = pc[t]]
          /\ phase' = [phase EXCEPT ![t] = phase[t]]
          /\ rc' = [rc EXCEPT ![t] = rc[t]]
      BY <1>i, <2>5 DEF TypeOK
    <3>2. ASSUME Reached(t)' PROVE sel'[MySel(t)] = call[t].bus
      <4>1. Reached(t) /\ OnPin(t)
        BY <2>1, <2>5, <3>2 DEF Reached, OnPin
      <4>2. MySel(t) \in Selector
        BY <4>1, ChanTypes DEF OnPin, Chan, MySel
      <4> QED BY <2>2, <2>5, <4>1, <4>2 DEF Routing
    <3>3. \A s \in Selector : sel'[s] = sel[s]
      BY <2>2, <2>5
    <3> QED BY <1>i, <2>1, <3>1, <3>2, <3>3, StepRouted
  <2> QED BY <1>3, <2>4, <2>5 DEF Transfer
<1>4. CASE TransferFails(t)
  <2>1. pc[t] = "xfer" /\ DeliverFailed(t, Answering) /\ UNCHANGED call
    BY <1>4 DEF TransferFails
  <2>2. \A s \in Selector : \/ sel'[s] = sel[s]
                            \/ phase[t] = "setlevel" /\ s = MySel(t)
    BY <2>1, DeliverKeeps DEF DeliverFailed
  <2>4. CASE EndTransfer(t, "err")
    BY <2>1, <2>2, <2>4, EndTransferRouted
  <2>5. CASE UNCHANGED <<pc, phase, count, sub, rc>>
    <3>1. /\ pc' = [pc EXCEPT ![t] = pc[t]]
          /\ phase' = [phase EXCEPT ![t] = phase[t]]
          /\ rc' = [rc EXCEPT ![t] = rc[t]]
      BY <1>i, <2>5 DEF TypeOK
    <3>2. ASSUME Reached(t)' PROVE sel'[MySel(t)] = call[t].bus
      <4>1. Reached(t) /\ OnPin(t) /\ phase[t] = "body"
        BY <2>1, <2>5, <3>2 DEF Reached, OnPin
      <4>2. MySel(t) \in Selector
        BY <4>1, ChanTypes DEF OnPin, Chan, MySel
      <4> QED BY <2>2, <4>1, <4>2 DEF Routing
    <3>3. phase[t] = "setlevel" => HoldsGroup(t)
      BY <1>i, <2>1 DEF CallShape, HoldsGroup
    <3> QED BY <1>i, <2>1, <2>2, <3>1, <3>2, <3>3, StepRouted
  <2> QED BY <1>4, <2>4, <2>5 DEF TransferFails
<1>5. CASE DisablePec(t)
  <2>1. pc[t] = "pecoff" /\ UNCHANGED <<sel, call>> /\ phase[t] = "body"
    BY <1>5, <1>i DEF DisablePec, CallShape
  <2>2. PICK r \in {"ok", "err"} : EndExecute(t, r)
    BY <1>5, <1>0 DEF DisablePec
  <2> QED BY <2>1, <2>2, EndExecuteRouted
<1> QED BY <1>1, <1>2, <1>3, <1>4, <1>5 DEF Execute

LEMMA ReleaseRouted ==
  ASSUME Plan, IInv, Routing, NEW t \in Thread, Release(t)
  PROVE  Routing'
<1> USE DEF Goto, Enter
<1>i. TypeOK /\ CallShape /\ LockOwnership
  BY DEF IInv
<1>1. /\ pc' = [pc EXCEPT ![t] = pc'[t]]
      /\ phase' = [phase EXCEPT ![t] = phase'[t]]
      /\ rc' = [rc EXCEPT ![t] = rc[t]]
      /\ UNCHANGED <<call, sel>>
  BY <1>i DEF TypeOK, Release, UnlockBus, UnlockGroup, UnlockMux, wire
<1>2. CASE UnlockBus(t)
  <2>1. Reached(t)' => Reached(t)
    BY <1>i, <1>2, Disjoint DEF UnlockBus, Reached, CallShape, OnPin, OnPca, Plan, TypeOK
  <2>2. Reached(t)' => sel'[MySel(t)] = call[t].bus
    BY <1>1, <2>1 DEF Routing
  <2> QED BY <1>i, <1>1, <2>2, StepRouted
<1>3. CASE UnlockGroup(t) \/ UnlockMux(t)
  <2>1. ~Reached(t)'
    BY <1>i, <1>3 DEF UnlockGroup, UnlockMux, Reached, TypeOK
  <2> QED BY <1>i, <1>1, <2>1, StepRouted
<1> QED BY <1>2, <1>3 DEF Release

LEMMA NextRouted ==
  ASSUME Plan, IInv, SlaveSet, Routing, [Next]_vars
  PROVE  Routing'
<1>i. TypeOK /\ CallShape /\ LockOwnership
  BY DEF IInv
<1>1. ASSUME NEW t \in Thread, Start(t) PROVE Routing'
  <2>1. PICK q \in Request : Start(t)!(q)
    BY <1>1 DEF Start
  <2>2. UNCHANGED sel /\ ~Reached(t)'
    BY <1>i, <2>1, Disjoint DEF Reached, OnPin, TypeOK, Goto, Enter, wire, Plan
  <2> SUFFICES ASSUME NEW u \in Thread, Reached(u)' PROVE (sel[MySel(u)] = call[u].bus)'
    BY DEF Routing
  <2>3. u # t
    BY <2>2
  <2>4. Reached(u) /\ MySel(u)' = MySel(u) /\ call'[u] = call[u]
    BY <1>i, <2>1, <2>3 DEF Reached, OnPin, MySel, TypeOK, Goto, Enter
  <2> QED BY <2>2, <2>4 DEF Routing
<1>2. CASE UNCHANGED vars
  BY <1>2 DEF vars, wire, locals, Routing, Reached, OnPin, MySel
<1> QED BY <1>1, <1>2, AcquireRouted, ExecuteRouted, ReleaseRouted DEF Next, Advance

-----------------------------------------------------------------------------
RInv == IInv /\ SlaveSet /\ Routing

LEMMA RInvHolds == Plan => (Spec => []RInv)
<1> SUFFICES ASSUME Plan PROVE Spec => []RInv
  OBVIOUS
<1>1. Init => RInv
  BY InitIInv DEF RInv, Init, SlaveSet, Routing, Reached
<1>2. RInv /\ [Next]_vars => RInv'
  BY NextIInv, NextSlave, NextRouted DEF RInv, Plan
<1> QED BY <1>1, <1>2, PTL DEF Spec

(***************************************************************************)
(* On a board whose muxes are all selected by pins and whose addresses     *)
(* follow the plan, every attempt of every transfer reaches the device its *)
(* caller named and no other one, whatever else runs or fails              *)
(* (sdi_i2cmux_pin.c:80-146, sdi_i2cdev.c:628-760).                        *)
(***************************************************************************)
THEOREM TargetSafety == Plan => (Spec => []ExactTarget)
<1> SUFFICES ASSUME Plan PROVE Spec => []ExactTarget
  OBVIOUS
<1>1. RInv => ExactTarget
  BY ExactAnswer DEF RInv, ExactTarget
<1> QED BY <1>1, RInvHolds, PTL

-----------------------------------------------------------------------------
(* The register pointer of a 16-bit read.                                  *)

\* The receive half is a state of the transfer step only.
Receiving == \A t \in Thread : sub[t] => pc[t] = "xfer"

PtrSet == Receiving /\ PointerStable

\* A step that leaves the pointers and every receive half under way alone.
LEMMA PtrSetKept ==
  ASSUME TypeOK, PtrSet, UNCHANGED ptr,
         \A u \in Thread : sub'[u] =>
           /\ sub[u] /\ pc'[u] = pc[u] /\ phase'[u] = phase[u] /\ call'[u] = call[u]
           /\ tries'[u] = 0 => tries[u] = 0
  PROVE  PtrSet'
BY DEF PtrSet, Receiving, PointerStable, Target, MySel

\* An attempt of t, which alone transfers, moves nobody else's pointer.
LEMMA AttemptPtr ==
  ASSUME Plan, RInv, PtrSet, NEW t \in Thread, pc[t] = "xfer", UNCHANGED call,
         \A u \in Thread : u # t => UNCHANGED <<pc[u], phase[u], sub[u], tries[u]>>,
         sub'[t] => /\ UNCHANGED <<pc[t], phase[t]>>
                    /\ tries'[t] = 0 => ptr'[Target(t)] = t
  PROVE  PtrSet'
<1>i. TypeOK /\ LockOwnership
  BY DEF RInv, IInv
<1>1. ASSUME NEW u \in Thread, u # t PROVE ~sub[u]
  <2>1. pc[u] # "xfer"
    BY <1>i, <1>1, OneSession DEF InSession, Plan
  <2> QED BY <2>1 DEF PtrSet, Receiving
<1>2. \A u \in Thread : sub'[u] => u = t
  BY <1>1
<1>3. Target(t)' = Target(t) \/ ~sub'[t]
  BY DEF Target, MySel
<1> QED BY <1>2, <1>3 DEF PtrSet, Receiving, PointerStable

LEMMA NextPtr ==
  ASSUME Plan, RInv, PtrSet, [Next]_vars
  PROVE  PtrSet'
<1> USE DEF Goto, Enter
<1>i. TypeOK /\ IInv /\ SlaveSet /\ Routing
  BY DEF RInv, IInv
<1>q. ASSUME UNCHANGED <<ptr, sub, tries>>, NEW t \in Thread, pc[t] # "xfer",
             \A u \in Thread : u # t =>
               pc'[u] = pc[u] /\ phase'[u] = phase[u] /\ call'[u] = call[u]
      PROVE  PtrSet'
  <2>1. ~sub[t]
    BY <1>q DEF PtrSet, Receiving
  <2> QED BY <1>i, <1>q, <2>1, PtrSetKept
<1>e. ASSUME NEW t \in Thread, NEW r, EndExecute(t, r) \/ EndTransfer(t, r)
      PROVE  \A u \in Thread : u # t => UNCHANGED <<pc[u], phase[u]>>
  BY <1>i, <1>e DEF TypeOK, EndExecute, EndTransfer
<1>1. ASSUME NEW t \in Thread, Start(t) PROVE PtrSet'
  <2>1. PICK q \in Request : Start(t)!(q)
    BY <1>1 DEF Start
  <2> QED BY <1>i, <1>q, <2>1 DEF TypeOK, wire
<1>2. ASSUME NEW t \in Thread, Acquire(t) PROVE PtrSet'
  BY <1>i, <1>q, <1>2 DEF TypeOK, Acquire, LockMux, LockGroup, WriteLevel, LockBus, LockFails, wire
<1>3. ASSUME NEW t \in Thread, SetSlave(t) \/ EnablePec(t) \/ DisablePec(t) PROVE PtrSet'
  BY <1>i, <1>q, <1>e, <1>3 DEF TypeOK, SetSlave, EnablePec, DisablePec
<1>4. ASSUME NEW t \in Thread, Release(t) PROVE PtrSet'
  BY <1>i, <1>q, <1>4 DEF TypeOK, Release, UnlockBus, UnlockGroup, UnlockMux, wire
<1>5. ASSUME NEW t \in Thread, Transfer(t) PROVE PtrSet'
  <2>1. /\ pc[t] = "xfer" /\ UNCHANGED call
        /\ \A u \in Thread : u # t => UNCHANGED <<pc[u], phase[u], sub[u], tries[u]>>
    BY <1>i, <1>e, <1>5 DEF TypeOK, Transfer
  <2>2. ASSUME sub'[t]
        PROVE  UNCHANGED <<pc[t], phase[t]>> /\ ptr'[Target(t)] = t
    <3>1. UNCHANGED <<pc, phase>>
      BY <1>i, <1>5, <2>2 DEF TypeOK, Transfer
    <3>2. Target(t) \in Device /\ Target(t) \in Answering
      BY <1>i, <1>5, ExactAnswer DEF Transfer
    <3>3. ptr' = [d \in Device |-> IF d \in Answering THEN t ELSE ptr[d]]
      BY <1>5 DEF Transfer, Deliver
    <3> QED BY <3>1, <3>2, <3>3
  <2> QED BY <2>1, <2>2, AttemptPtr
<1>6. ASSUME NEW t \in Thread, TransferFails(t) PROVE PtrSet'
  <2>1. /\ pc[t] = "xfer" /\ UNCHANGED call
        /\ \A u \in Thread : u # t => UNCHANGED <<pc[u], phase[u], sub[u], tries[u]>>
    BY <1>i, <1>e, <1>6 DEF TypeOK, TransferFails
  <2>2. ASSUME sub'[t]
        PROVE  UNCHANGED <<pc[t], phase[t]>> /\ tries'[t] # 0
    BY <1>i, <1>6, <2>2 DEF TypeOK, TransferFails
  <2> QED BY <2>1, <2>2, AttemptPtr
<1>7. CASE UNCHANGED vars
  BY <1>7 DEF vars, wire, locals, PtrSet, Receiving, PointerStable, Target, MySel
<1> QED
  BY <1>1, <1>2, <1>3, <1>4, <1>5, <1>6, <1>7 DEF Next, Advance, Execute

(***************************************************************************)
(* On such a board the receive half of a 16-bit read reads from the        *)
(* register its own address half set: no other call moves the device's     *)
(* pointer between the two (sdi_i2cdev.c:683-696).                         *)
(***************************************************************************)
THEOREM PointerSafety == Plan => (Spec => []PointerStable)
<1> SUFFICES ASSUME Plan PROVE Spec => []PointerStable
  OBVIOUS
<1>1. Init => PtrSet
  BY DEF Init, PtrSet, Receiving, PointerStable
<1>2. RInv /\ PtrSet /\ [Next]_vars => PtrSet'
  BY NextPtr
<1>3. PtrSet => PointerStable
  BY DEF PtrSet
<1> QED BY <1>1, <1>2, <1>3, RInvHolds, PTL DEF Spec

-----------------------------------------------------------------------------
(* The abstract service.                                                   *)

NoSession == <<Root, NoAddr>>
Sessions == [t \in Thread |-> IF InSession(t) THEN Target(t) ELSE NoSession]

\* A thread in a session has a target that is not the null target.
LEMMA TargetType ==
  ASSUME IInv, NEW t \in Thread, InSession(t)
  PROVE  Target(t) \in Bus \X Addr /\ Target(t) # NoSession
<1>i. TypeOK /\ CallShape
  BY DEF IInv
<1>1. SlaveAddr(t) \in Addr
  BY <1>i, SlaveAddrType DEF InSession
<1>2. call[t].bus \in Bus
  BY <1>i, CallAssumption DEF TypeOK
<1>3. Target(t) = <<call[t].bus, SlaveAddr(t)>> \/ Target(t) = <<Root, SlaveAddr(t)>>
  BY DEF Target, SlaveAddr
<1> QED BY <1>1, <1>2, <1>3, CallAssumption DEF Bus, NoSession

TargetsOK == \A t \in Thread : InSession(t) => Target(t) \in Bus \X Addr

LEMMA TargetsNext == (IInv => TargetsOK)'
<1>1. IInv => TargetsOK
  BY TargetType DEF TargetsOK
<1> QED BY <1>1, PTL

\* A step of t that leaves every session as it is.
LEMMA SameSessions ==
  ASSUME TypeOK, NEW t \in Thread, NEW p, NEW f,
         pc' = [pc EXCEPT ![t] = p], phase' = [phase EXCEPT ![t] = f],
         InSession(t)' <=> InSession(t),
         InSession(t) => UNCHANGED call /\ Target(t)' = Target(t),
         \A u \in Thread : u # t => call'[u] = call[u]
  PROVE  UNCHANGED Sessions
<1> SUFFICES ASSUME NEW u \in Thread
             PROVE  /\ InSession(u)' <=> InSession(u)
                    /\ InSession(u) => Target(u)' = Target(u)
  BY DEF Sessions, NoSession
<1>1. CASE u = t
  BY <1>1
<1>2. CASE u # t
  BY <1>2 DEF TypeOK, InSession, Target, MySel
<1> QED BY <1>1, <1>2

LEMMA EndExecuteSession ==
  ASSUME Plan, IInv, NEW t \in Thread, NEW r, InSession(t), EndExecute(t, r), UNCHANGED call
  PROVE  UNCHANGED Sessions
<1>i. TypeOK
  BY DEF IInv
<1>1. /\ pc' = [pc EXCEPT ![t] = pc'[t]] /\ pc'[t] \in {"slave", "busunlock"}
      /\ phase' = [phase EXCEPT ![t] = phase[t]]
  BY <1>i DEF TypeOK, EndExecute, Goto, Enter, OnPca, Plan
<1>2. InSession(t)' /\ Target(t)' = Target(t)
  BY <1>i, <1>1 DEF InSession, Target, MySel, TypeOK
<1> QED BY <1>i, <1>1, <1>2, SameSessions

\* Within an execute the session stays what it is.
LEMMA ExecuteSession ==
  ASSUME Plan, IInv, NEW t \in Thread, Execute(t)
  PROVE  UNCHANGED Sessions
<1>i. TypeOK
  BY DEF IInv
<1>0. InSession(t) /\ UNCHANGED call
  BY DEF Execute, SetSlave, EnablePec, Transfer, TransferFails, DisablePec, InSession
<1>g. ASSUME NEW p \in {"pecon", "xfer", "pecoff"}, Goto(t, p), UNCHANGED phase
      PROVE  UNCHANGED Sessions
  <2>1. pc' = [pc EXCEPT ![t] = p] /\ phase' = [phase EXCEPT ![t] = phase[t]]
    BY <1>g, <1>i DEF Goto, TypeOK
  <2>2. InSession(t)' /\ Target(t)' = Target(t)
    BY <1>g, <1>0, <1>i, <2>1 DEF InSession, Target, MySel, TypeOK
  <2> QED BY <1>0, <1>i, <2>1, <2>2, SameSessions
<1>t. ASSUME NEW r, EndTransfer(t, r) PROVE UNCHANGED Sessions
  BY <1>t, <1>g, <1>0, EndExecuteSession DEF EndTransfer
<1>u. ASSUME UNCHANGED <<pc, phase>> PROVE UNCHANGED Sessions
  BY <1>u, <1>0 DEF Sessions, InSession, Target, MySel
<1>1. CASE SetSlave(t)
  <2>1. CASE EndExecute(t, "err")
    BY <1>0, <2>1, EndExecuteSession
  <2>2. CASE Goto(t, IF WantsPec(t) THEN "pecon" ELSE "xfer") /\ UNCHANGED phase
    BY <1>g, <2>2
  <2> QED BY <1>1, <2>1, <2>2 DEF SetSlave
<1>2. CASE EnablePec(t)
  BY <1>2, <1>0, <1>g, EndExecuteSession DEF EnablePec
<1>3. CASE Transfer(t)
  <2>1. EndTransfer(t, "ok") \/ UNCHANGED <<pc, phase>>
    BY <1>3 DEF Transfer
  <2> QED BY <1>t, <1>u, <2>1
<1>4. CASE TransferFails(t)
  <2>1. EndTransfer(t, "err") \/ UNCHANGED <<pc, phase>>
    BY <1>4 DEF TransferFails
  <2> QED BY <1>t, <1>u, <2>1
<1>5. CASE DisablePec(t)
  <2>1. PICK r : EndExecute(t, r)
    BY <1>5 DEF DisablePec
  <2> QED BY <1>0, <2>1, EndExecuteSession
<1> QED BY <1>1, <1>2, <1>3, <1>4, <1>5 DEF Execute

\* What an attempt does to the register pointers.
LEMMA ExecutePtr ==
  ASSUME Plan, RInv, NEW t \in Thread, Execute(t)
  PROVE  \/ UNCHANGED ptr
         \/ /\ InSession(t) /\ Target(t) \in Device
            /\ \E v \in {t, NoThread} : ptr' = [ptr EXCEPT ![Target(t)] = v]
<1>i. TypeOK /\ IInv /\ SlaveSet /\ Routing
  BY DEF RInv, IInv
<1>d. ASSUME pc[t] = "xfer", NEW v \in {t, NoThread},
             ptr' = [d \in Device |-> IF d \in Answering THEN v ELSE ptr[d]]
      PROVE  \/ UNCHANGED ptr
             \/ Target(t) \in Device /\ ptr' = [ptr EXCEPT ![Target(t)] = v]
  <2>1. Answering = {Target(t)} \cap Device
    BY <1>d, <1>i, ExactAnswer
  <2>2. CASE Target(t) \in Device
    BY <1>d, <1>i, <2>1, <2>2 DEF TypeOK
  <2>3. CASE Target(t) \notin Device
    BY <1>d, <1>i, <2>1, <2>3 DEF TypeOK
  <2> QED BY <2>2, <2>3
<1>1. CASE SetSlave(t) \/ EnablePec(t) \/ DisablePec(t)
  BY <1>1 DEF SetSlave, EnablePec, DisablePec
<1>2. CASE Transfer(t) \/ TransferFails(t)
  <2>1. pc[t] = "xfer" /\ InSession(t)
    BY <1>2 DEF Transfer, TransferFails, InSession
  <2>2. \/ UNCHANGED ptr
        \/ \E v \in {t, NoThread} :
             ptr' = [d \in Device |-> IF d \in Answering THEN v ELSE ptr[d]]
    BY <1>2 DEF Transfer, TransferFails, Deliver, DeliverFailed
  <2> QED BY <1>d, <2>1, <2>2
<1> QED BY <1>1, <1>2 DEF Execute

LEMMA StepImplements ==
  ASSUME Plan, RInv, [Next]_vars
  PROVE  [Service!Next]_<<Sessions, ptr>>
<1> USE DEF Goto, Enter
<1>i. TypeOK /\ CallShape /\ LockOwnership /\ IInv
  BY DEF RInv, IInv
<1>1. ASSUME NEW t \in Thread, Start(t) PROVE UNCHANGED <<Sessions, ptr>>
  <2>1. PICK q \in Request : Start(t)!(q)
    BY <1>1 DEF Start
  <2>2. /\ pc' = [pc EXCEPT ![t] = pc'[t]] /\ phase' = [phase EXCEPT ![t] = phase'[t]]
        /\ ~InSession(t) /\ ~InSession(t)' /\ UNCHANGED ptr
        /\ \A u \in Thread : u # t => call'[u] = call[u]
    BY <1>i, <2>1 DEF TypeOK, InSession, wire
  <2> QED BY <1>i, <2>2, SameSessions
<1>2. ASSUME NEW t \in Thread,
             LockMux(t) \/ LockGroup(t) \/ WriteLevel(t) \/ LockFails(t)
                        \/ UnlockGroup(t) \/ UnlockMux(t)
      PROVE  UNCHANGED <<Sessions, ptr>>
  <2>1. /\ pc' = [pc EXCEPT ![t] = pc'[t]] /\ phase' = [phase EXCEPT ![t] = phase'[t]]
        /\ ~InSession(t) /\ ~InSession(t)' /\ UNCHANGED <<ptr, call>>
    BY <1>i, <1>2 DEF TypeOK, InSession, wire, LockMux, LockGroup, WriteLevel, LockFails,
                      UnlockGroup, UnlockMux
  <2> QED BY <1>i, <2>1, SameSessions
<1>3. ASSUME NEW t \in Thread, LockBus(t) PROVE Service!Open(t)
  <2>1. \A u \in Thread : ~InSession(u)
    BY <1>i, <1>3, CallAssumption DEF LockBus, LockOwnership, HoldsBus, InSession, OnPca, Plan
  <2>2. pc' = [pc EXCEPT ![t] = "slave"] /\ UNCHANGED <<phase, call, ptr>>
    BY <1>3 DEF LockBus, wire
  <2>3. InSession(t)' /\ \A u \in Thread : u # t => ~InSession(u)'
    BY <1>i, <2>1, <2>2 DEF InSession, TypeOK
  <2>4. IInv'
    BY <1>i, NextIInv
  <2>5. Target(t)' \in Bus \X Addr
    BY <2>3, <2>4, TargetsNext DEF TargetsOK
  <2>6. Sessions' = [Sessions EXCEPT ![t] = Target(t)']
    BY <2>1, <2>3 DEF Sessions, NoSession
  <2>7. \A u \in Thread : Sessions[u] = NoSession
    BY <2>1 DEF Sessions
  <2> QED BY <2>2, <2>5, <2>6, <2>7 DEF Service!Open, Sessions, NoSession
<1>4. ASSUME NEW t \in Thread, Execute(t)
      PROVE  UNCHANGED <<Sessions, ptr>> \/ Service!Touch(t)
  <2>1. UNCHANGED Sessions
    BY <1>i, <1>4, ExecuteSession
  <2>2. CASE UNCHANGED ptr
    BY <2>1, <2>2
  <2>3. CASE /\ InSession(t) /\ Target(t) \in Device
             /\ \E v \in {t, NoThread} : ptr' = [ptr EXCEPT ![Target(t)] = v]
    <3>1. Sessions[t] = Target(t)
      BY <2>3 DEF Sessions
    <3> QED BY <2>1, <2>3, <3>1 DEF Service!Touch, Sessions, NoSession
  <2> QED BY <1>4, <2>2, <2>3, ExecutePtr
<1>5. ASSUME NEW t \in Thread, UnlockBus(t) PROVE Service!Close(t)
  <2>1. InSession(t) /\ UNCHANGED <<ptr, call>>
    BY <1>5 DEF UnlockBus, InSession, wire
  <2>2. ~InSession(t)'
    BY <1>i, <1>5 DEF UnlockBus, InSession, CallShape, OnPca, Plan, TypeOK
  <2>3. \A u \in Thread : u # t =>
          (InSession(u)' <=> InSession(u)) /\ Target(u)' = Target(u)
    BY <1>i, <1>5 DEF UnlockBus, InSession, Target, MySel, TypeOK
  <2>4. Sessions' = [Sessions EXCEPT ![t] = NoSession]
    BY <2>2, <2>3 DEF Sessions, NoSession
  <2>5. Sessions[t] # NoSession
    BY <1>i, <2>1, TargetType DEF Sessions
  <2> QED BY <2>1, <2>4, <2>5 DEF Service!Close, Sessions, NoSession
<1>6. CASE UNCHANGED vars
  BY <1>6 DEF vars, wire, locals, Sessions, NoSession, InSession, Target, MySel
<1> QED
  BY <1>1, <1>2, <1>3, <1>4, <1>5, <1>6
     DEF Next, Advance, Acquire, Release, Service!Next

(***************************************************************************)
(* On such a board the stack of bus API, muxes and adapter driver is the   *)
(* service its interface promises: sessions with one device that do not    *)
(* overlap, and transfers that touch the session's device only             *)
(* ("Acquire operation should lock the bus for I2C transaction",           *)
(* sdi_i2c.h:241).                                                         *)
(***************************************************************************)
THEOREM Refinement == Plan => (Spec => ImplementsService)
<1> SUFFICES ASSUME Plan PROVE Spec => ImplementsService
  OBVIOUS
<1>1. Init => Service!Init
  BY DEF Init, Service!Init, InSession
<1>2. RInv /\ [Next]_vars => [Service!Next]_<<Sessions, ptr>>
  BY StepImplements
<1> QED
  BY <1>1, <1>2, RInvHolds, PTL
     DEF Spec, ImplementsService, Service!Spec, Sessions, NoSession
=============================================================================
