----------------------------- MODULE VmDbProofs -----------------------------
(***************************************************************************)
(* Theorems about VmDb for every set of processes, threads and values.     *)
(***************************************************************************)
EXTENDS VmDb, TLAPS

-----------------------------------------------------------------------------
(* Types.                                                                  *)

LEMMA InitType == Init => TypeOK
<1> SUFFICES ASSUME Init PROVE TypeOK
  OBVIOUS
<1>1. torn \in BOOLEAN /\ failed \in BOOLEAN
  BY DEF Init
<1>2. table \in {"absent", "empty", "created", "filled"}
  BY DbAssumption DEF Init
<1>3. count \in Nat /\ opens \in [Process -> 0 .. MaxOpens]
  BY DbAssumption DEF Init
<1>4. /\ column \in [Column -> Value]
      /\ stage \in [Process -> {"down", "look", "make", "create", "fill", "open", "up"}]
      /\ pc \in [Thread -> {"idle", "take", "inside", "give"}]
      /\ call \in [Thread -> Kind]
      /\ col \in [Thread -> Column]
      /\ val \in [Thread -> Value]
      /\ rc \in [Thread -> {"ok", "err"}]
  BY DbAssumption DEF Init, Kind, Column
<1> QED BY <1>1, <1>2, <1>3, <1>4 DEF TypeOK

LEMMA ScriptType ==
  ASSUME TypeOK, InitScript
  PROVE  /\ table' \in {"absent", "empty", "created", "filled"}
         /\ column' \in [Column -> Value]
         /\ torn' \in BOOLEAN
BY DbAssumption DEF TypeOK, InitScript

LEMMA ProcessType ==
  ASSUME TypeOK, NEW p \in Process,
         OpenSemaphore(p) \/ Opening(p) \/ Close(p) \/ Crash(p)
  PROVE  TypeOK'
<1>1. CASE OpenSemaphore(p)
  BY <1>1, DbAssumption DEF TypeOK, OpenSemaphore, Advance, calls, history
<1>2. CASE LookForFile(p)
  BY <1>2 DEF TypeOK, LookForFile, Advance, calls, history
<1>3. CASE MakeFile(p)
  BY <1>3 DEF TypeOK, MakeFile, Advance, calls, history
<1>4. CASE RunCreateScript(p)
  <2>1. table' \in {"absent", "empty", "created", "filled"} /\ torn' \in BOOLEAN
    BY <1>4 DEF TypeOK, RunCreateScript, CreateScript
  <2> QED BY <1>4, <2>1 DEF TypeOK, RunCreateScript, Advance, calls
<1>5. CASE RunInitScript(p)
  <2>1. InitScript
    BY <1>5 DEF RunInitScript
  <2> QED BY <1>5, <2>1, ScriptType DEF TypeOK, RunInitScript, Advance, calls
<1>6. CASE OpenFile(p)
  BY <1>6 DEF TypeOK, OpenFile, Advance, calls, history
<1>7. CASE Close(p)
  BY <1>7 DEF TypeOK, Close, Advance, calls, history
<1>8. CASE Crash(p)
  BY <1>8 DEF TypeOK, Crash
<1> QED BY <1>1, <1>2, <1>3, <1>4, <1>5, <1>6, <1>7, <1>8 DEF Opening

LEMMA StartType ==
  ASSUME TypeOK, NEW t \in Thread, NEW k \in Calls[t], NEW v \in Value, Start(t, k, v)
  PROVE  TypeOK'
<1>1. k \in Kind
  BY DbAssumption
<1> QED BY <1>1 DEF TypeOK, Start, Column

LEMMA CallType ==
  ASSUME TypeOK, NEW t \in Thread,
         Reinit(t) \/ Take(t) \/ TakeInterrupted(t) \/ Running(t)
  PROVE  TypeOK'
<1>1. CASE Reinit(t)
  <2>1. /\ table' \in {"absent", "empty", "created", "filled"}
        /\ column' \in [Column -> Value]
        /\ torn' \in BOOLEAN
    BY <1>1, ScriptType DEF TypeOK, Reinit
  <2> QED BY <1>1, <2>1 DEF TypeOK, Reinit, calls
<1>2. CASE Take(t)
  BY <1>2 DEF TypeOK, Take, history
<1>3. CASE TakeInterrupted(t)
  BY <1>3 DEF TypeOK, TakeInterrupted, history
<1>4. CASE Access(t)
  BY <1>4 DEF TypeOK, Access, Column, history
<1>5. CASE Give(t)
  <2>1. count' \in Nat
    BY <1>5 DEF TypeOK, Give
  <2>2. failed' \in BOOLEAN /\ torn' = torn
    BY <1>5 DEF TypeOK, Give
  <2>3. pc' \in [Thread -> {"idle", "take", "inside", "give"}] /\ col' \in [Thread -> Column]
    BY <1>5 DEF TypeOK, Give, Column
  <2> QED BY <1>5, <2>1, <2>2, <2>3 DEF TypeOK, Give
<1> QED BY <1>1, <1>2, <1>3, <1>4, <1>5 DEF Running

LEMMA NextType == TypeOK /\ [Next]_vars => TypeOK'
<1> SUFFICES ASSUME TypeOK, [Next]_vars PROVE TypeOK'
  OBVIOUS
<1>1. CASE UNCHANGED vars
  BY <1>1 DEF TypeOK, vars, calls, history
<1> QED BY <1>1, ProcessType, StartType, CallType DEF Next

(***************************************************************************)
(* Every variable keeps its type; the semaphore is never negative,         *)
(* whatever fails or dies (sdi_db_ops.c:61-79).                            *)
(***************************************************************************)
THEOREM DbTypeInvariant == Spec => []TypeOK
BY InitType, NextType, PTL DEF Spec

-----------------------------------------------------------------------------
(* Mutual exclusion.                                                       *)

\* t has taken the semaphore and not given it back.
Holds(t) == pc[t] \in {"inside", "give"}

(***************************************************************************)
(* The semaphore is a token: it is nowhere until the master has opened,    *)
(* and then either in the semaphore or with exactly one thread.            *)
(***************************************************************************)
TokenInv ==
  /\ count \in {0, 1}
  /\ (\A p \in Master : opens[p] = 0) => count = 0 /\ \A t \in Thread : ~Holds(t)
  /\ count = 1 => \A t \in Thread : ~Holds(t)
  /\ \A t, u \in Thread : Holds(t) /\ Holds(u) => t = u

OneMaster == \E m \in Process : Master \subseteq {m}

LEMMA TokenProcess ==
  ASSUME OneMaster, MaxOpens <= 1, "crash" \notin Fault, TypeOK, TokenInv,
         NEW p \in Process, OpenSemaphore(p) \/ Opening(p) \/ Close(p) \/ Crash(p)
  PROVE  TokenInv'
<1>1. CASE OpenSemaphore(p)
  <2>1. opens[p] = 0 /\ opens' = [opens EXCEPT ![p] = 1]
    <3>1. opens[p] \in 0 .. MaxOpens /\ opens[p] < MaxOpens /\ MaxOpens \in Nat
      BY <1>1, DbAssumption DEF TypeOK, OpenSemaphore
    <3>2. opens[p] = 0
      BY <3>1
    <3> QED BY <1>1, <3>2 DEF OpenSemaphore
  <2>2. CASE p \in Master
    <3>1. count = 0 /\ \A t \in Thread : ~Holds(t)
      BY <2>1, <2>2 DEF TokenInv, OneMaster
    <3>2. count' = 1 /\ pc' = pc /\ opens'[p] = 1
      BY <1>1, <2>1, <2>2, <3>1 DEF OpenSemaphore, calls, TypeOK
    <3> QED BY <2>2, <3>1, <3>2 DEF TokenInv, Holds
  <2>3. CASE p \notin Master
    <3>1. count' = count /\ pc' = pc /\ \A m \in Master : opens'[m] = opens[m]
      BY <1>1, <2>1, <2>3, DbAssumption DEF OpenSemaphore, calls, TypeOK
    <3> QED BY <3>1 DEF TokenInv, Holds
  <2> QED BY <2>2, <2>3
<1>2. CASE Opening(p) \/ Close(p)
  BY <1>2 DEF TokenInv, Holds, Opening, LookForFile, MakeFile, RunCreateScript,
              RunInitScript, OpenFile, Close, calls
<1>3. CASE Crash(p)
  BY <1>3 DEF Crash
<1> QED BY <1>1, <1>2, <1>3

LEMMA TokenCall ==
  ASSUME "signal" \notin Fault, TypeOK, TokenInv, NEW t \in Thread,
         \/ \E k \in Calls[t], v \in Value : Start(t, k, v)
         \/ Reinit(t) \/ Take(t) \/ TakeInterrupted(t) \/ Running(t)
  PROVE  TokenInv'
<1>1. ASSUME NEW k \in Calls[t], NEW v \in Value, Start(t, k, v)
      PROVE  TokenInv'
  BY <1>1 DEF TypeOK, TokenInv, Holds, Start
<1>2. CASE Reinit(t)
  BY <1>2 DEF TokenInv, Holds, Reinit, calls
<1>3. CASE Take(t)
  BY <1>3 DEF TypeOK, TokenInv, Holds, Take
<1>4. CASE TakeInterrupted(t)
  BY <1>4 DEF TakeInterrupted
<1>5. CASE Access(t)
  BY <1>5 DEF TypeOK, TokenInv, Holds, Access
<1>6. CASE Give(t)
  <2>1. Holds(t) /\ count = 0 /\ count' = 1 /\ opens' = opens
    BY <1>6 DEF TokenInv, Holds, Give
  <2>2. \A u \in Thread : ~Holds(u)'
    BY <1>6, <2>1 DEF TypeOK, TokenInv, Holds, Give
  <2>3. \E p \in Master : opens'[p] # 0
    BY <2>1 DEF TokenInv
  <2> QED BY <2>1, <2>2, <2>3 DEF TokenInv
<1> QED BY <1>1, <1>2, <1>3, <1>4, <1>5, <1>6 DEF Running

LEMMA TokenNext ==
  ASSUME OneMaster, MaxOpens <= 1, Fault \subseteq {"sql", "script"}
  PROVE  TypeOK /\ TokenInv /\ [Next]_vars => TokenInv'
<1> SUFFICES ASSUME TypeOK, TokenInv, [Next]_vars PROVE TokenInv'
  OBVIOUS
<1>1. CASE UNCHANGED vars
  BY <1>1 DEF TokenInv, Holds, vars, calls
<1>2. "crash" \notin Fault /\ "signal" \notin Fault
  OBVIOUS
<1> QED BY <1>1, <1>2, TokenProcess, TokenCall DEF Next

(***************************************************************************)
(* If one process at most opens with masterf, once, no process dies and no *)
(* signal interrupts a wait, accesses exclude each other, for any number   *)
(* of processes and threads and whatever accesses fail                     *)
(* (sdi_db_ops.c:61-118).                                                  *)
(***************************************************************************)
THEOREM ExclusionSafety ==
  ASSUME OneMaster, MaxOpens <= 1, Fault \subseteq {"sql", "script"}
  PROVE  Spec => []Exclusive
<1>1. Init => TypeOK /\ TokenInv
  BY InitType DEF Init, TokenInv, Holds
<1>2. (TypeOK /\ TokenInv) /\ [Next]_vars => (TypeOK /\ TokenInv)'
  BY NextType, TokenNext
<1>3. TypeOK /\ TokenInv => Exclusive
  BY DEF TokenInv, Exclusive, Holds
<1> QED BY <1>1, <1>2, <1>3, PTL DEF Spec

-----------------------------------------------------------------------------
(* One process, whatever dies, fails or is interrupted.                    *)

OneProcess == \E p \in Process : Process \subseteq {p}
Whole == Tables \subseteq {"absent", "filled"}

\* Unless filling the file was cut short or lost a script, it is not there or
\* is filled wherever its state is looked at.
ReadyInv ==
  ~torn => \A p \in Process :
             /\ stage[p] \in {"down", "look", "make"} => table \in {"absent", "filled"}
             /\ stage[p] = "fill" => table = "created"
             /\ stage[p] \in {"open", "up"} => table = "filled"

(***************************************************************************)
(* One process that opens a database whose file is absent or whole has     *)
(* its tables and rows, unless filling the file was cut short or lost a    *)
(* script or a command (sdi_db_open, sdi_db_ops.c:158-237, 313-320): also  *)
(* when it opens again, and whatever its threads do meanwhile.             *)
(***************************************************************************)
THEOREM OpenedSafety ==
  ASSUME OneProcess, Whole
  PROVE  Spec => []OpenedIsReady
<1>1. Init => TypeOK /\ ReadyInv
  BY InitType DEF Init, ReadyInv, Whole
<1>2. TypeOK /\ ReadyInv /\ [Next]_vars => (TypeOK /\ ReadyInv)'
  <2> SUFFICES ASSUME TypeOK, ReadyInv, [Next]_vars PROVE ReadyInv'
    BY NextType
  <2>0. PICK o \in Process : Process \subseteq {o}
    BY DEF OneProcess
  <2>1. ASSUME NEW p \in Process, OpenSemaphore(p) \/ Close(p) \/ Crash(p)
        PROVE  ReadyInv'
    <3>1. p = o
      BY <2>0
    <3>2. CASE OpenSemaphore(p)
      BY <2>0, <3>1, <3>2 DEF TypeOK, ReadyInv, OpenSemaphore, Advance, history
    <3>3. CASE Close(p)
      BY <2>0, <3>1, <3>3 DEF TypeOK, ReadyInv, Close, Advance, history
    <3>4. CASE Crash(p)
      <4>1. stage' = [stage EXCEPT ![p] = "down"] /\ UNCHANGED table
            /\ torn' = (torn \/ stage[p] \in {"create", "fill"})
        BY <3>4 DEF Crash
      <4> QED BY <2>0, <3>1, <4>1 DEF TypeOK, ReadyInv
    <3> QED BY <2>1, <3>2, <3>3, <3>4
  <2>2. ASSUME NEW p \in Process, Opening(p) PROVE ReadyInv'
    <3>1. p = o
      BY <2>0
    <3>2. CASE LookForFile(p)
      BY <2>0, <3>1, <3>2 DEF TypeOK, ReadyInv, LookForFile, Advance, history
    <3>3. CASE MakeFile(p)
      BY <2>0, <3>1, <3>3 DEF TypeOK, ReadyInv, MakeFile, Advance
    <3>4. CASE RunCreateScript(p)
      BY <2>0, <3>1, <3>4 DEF TypeOK, ReadyInv, RunCreateScript, CreateScript, Advance
    <3>6. CASE RunInitScript(p)
      <4>1. torn' \/ (~torn /\ table' = "filled")
        BY <2>0, <3>1, <3>6 DEF TypeOK, ReadyInv, RunInitScript, InitScript, Advance
      <4>2. Advance(p, "fill", "open")
        BY <3>6 DEF RunInitScript
      <4> QED BY <2>0, <3>1, <4>1, <4>2 DEF TypeOK, ReadyInv, Advance
    <3>5. CASE OpenFile(p)
      BY <2>0, <3>1, <3>5 DEF TypeOK, ReadyInv, OpenFile, Advance, history
    <3> QED BY <2>2, <3>2, <3>3, <3>4, <3>5, <3>6 DEF Opening
  <2>3. ASSUME NEW t \in Thread, Reinit(t) PROVE ReadyInv'
    <3>1. stage[o] = "up" /\ UNCHANGED stage
      BY <2>0, <2>3, DbAssumption DEF Reinit
    <3>2. torn' \/ (~torn /\ table = "filled")
      BY <2>3, <3>1 DEF TypeOK, ReadyInv, Reinit, InitScript
    <3>3. torn' \/ table' = "filled"
      BY <2>3, <3>2 DEF Reinit, InitScript
    <3> QED BY <2>0, <3>1, <3>3 DEF ReadyInv
  <2>4. CASE UNCHANGED <<table, stage, torn>>
    BY <2>4 DEF ReadyInv
  <2> QED
    BY <2>1, <2>2, <2>3, <2>4
       DEF Next, vars, history, Start, Take, TakeInterrupted, Running, Access, Give
<1>3. TypeOK /\ ReadyInv => OpenedIsReady
  BY DEF ReadyInv, OpenedIsReady
<1> QED BY <1>1, <1>2, <1>3, PTL DEF Spec

-----------------------------------------------------------------------------
(* One writer.                                                             *)

\* One thread sets targets or runs the initial script again; the others read.
OneWriter == \E w \in Thread : /\ Calls[w] \subseteq {"get", "target", "reinit"}
                               /\ \A t \in Thread \ {w} : Calls[t] \subseteq {"get"}

\* How far the set of the writer is, and what the columns are then.
WriterInv(w) ==
  /\ \A t \in Thread : pc[t] # "idle" => stage[Home[t]] = "up"
  /\ \A t \in Thread : pc[t] # "idle" /\ t # w => call[t] = "get"
  /\ pc[w] # "idle" => call[w] \in {"get", "target"}
  /\ InTargetSet(w) /\ col[w] = "regular" /\ rc[w] = "ok" => column["target"] = val[w]
  /\ InTargetSet(w) /\ pc[w] # "give" => rc[w] = "ok"
  /\ InTargetSet(w) /\ pc[w] = "give" /\ rc[w] = "ok" => column[col[w]] = val[w]
  /\ ~InTargetSet(w) /\ ~failed /\ Sync => column["target"] = column["regular"]

(***************************************************************************)
(* With one process and one writer the columns agree after every set that  *)
(* succeeded, whatever set failed before, whenever the process died and    *)
(* although a signal lets a thread in without the semaphore                *)
(* (sdi_db_ops.c:1185-1205).                                               *)
(***************************************************************************)
THEOREM AgreementSafety ==
  ASSUME OneProcess, OneWriter
  PROVE  Spec => []ColumnsAgree
<1>0. PICK w \in Thread : /\ Calls[w] \subseteq {"get", "target", "reinit"}
                          /\ \A t \in Thread \ {w} : Calls[t] \subseteq {"get"}
  BY DEF OneWriter
<1>1. Init => TypeOK /\ WriterInv(w)
  BY InitType DEF Init, WriterInv, InTargetSet, Column
<1>2. TypeOK /\ WriterInv(w) /\ [Next]_vars => (TypeOK /\ WriterInv(w))'
  <2> SUFFICES ASSUME TypeOK, WriterInv(w), [Next]_vars PROVE WriterInv(w)'
    BY NextType
  <2>0. PICK o \in Process : Process \subseteq {o} /\ \A t \in Thread : Home[t] = o
    BY DbAssumption DEF OneProcess
  <2>1. ASSUME NEW p \in Process, OpenSemaphore(p) \/ Opening(p) \/ Close(p)
        PROVE  WriterInv(w)'
    <3>0. p = o /\ UNCHANGED <<calls, failed>>
      BY <2>0, <2>1
         DEF OpenSemaphore, Opening, LookForFile, MakeFile, RunCreateScript, RunInitScript,
             OpenFile, Close, history
    <3>1. CASE Close(p)
      BY <2>0, <3>0, <3>1 DEF TypeOK, WriterInv, InTargetSet, Close, calls
    <3>2. CASE ~Close(p)
      <4>1. \A t \in Thread : pc[t] = "idle"
        BY <2>0, <2>1, <3>0, <3>2
           DEF WriterInv, OpenSemaphore, Opening, LookForFile, MakeFile, RunCreateScript,
               RunInitScript, OpenFile, Advance
      <4>2. UNCHANGED column \/ column' = [c \in Column |-> Default]
        BY <2>1, <3>2
           DEF OpenSemaphore, Opening, LookForFile, MakeFile, RunCreateScript, RunInitScript,
               InitScript, OpenFile
      <4> QED BY <3>0, <4>1, <4>2 DEF WriterInv, InTargetSet, calls, Column
    <3> QED BY <3>1, <3>2
  <2>2. ASSUME NEW p \in Process, Crash(p) PROVE WriterInv(w)'
    <3>1. p = o
      BY <2>0
    <3>2. \A t \in Thread : pc'[t] = "idle"
      BY <2>0, <2>2, <3>1 DEF Crash
    <3>3. failed' = (failed \/ \E t \in Thread : Home[t] = p /\ call[t] = "target" /\ pc[t] # "idle")
          /\ UNCHANGED <<column, call, col, val, rc>>
      BY <2>2 DEF Crash
    <3>4. ~failed' => ~failed /\ ~InTargetSet(w)
      BY <2>0, <3>1, <3>3 DEF InTargetSet
    <3> QED BY <3>2, <3>3, <3>4 DEF WriterInv, InTargetSet
  <2>3. ASSUME NEW t \in Thread, NEW k \in Calls[t], NEW v \in Value, Start(t, k, v)
        PROVE  WriterInv(w)'
    <3>1. CASE t = w
      BY <1>0, <2>3, <3>1 DEF TypeOK, WriterInv, InTargetSet, Start
    <3>2. CASE t # w
      BY <1>0, <2>3, <3>2 DEF TypeOK, WriterInv, InTargetSet, Start
    <3> QED BY <3>1, <3>2
  <2>4. ASSUME NEW t \in Thread, Reinit(t) PROVE WriterInv(w)'
    <3>1. t = w
      BY <1>0, <2>4 DEF Reinit
    <3>2. UNCHANGED column \/ column' = [c \in Column |-> Default]
      BY <2>4 DEF Reinit, InitScript
    <3> QED BY <2>4, <3>1, <3>2 DEF WriterInv, InTargetSet, Reinit, calls, Column
  <2>5. ASSUME NEW t \in Thread, Take(t) \/ TakeInterrupted(t) PROVE WriterInv(w)'
    BY <2>5 DEF TypeOK, WriterInv, InTargetSet, Take, TakeInterrupted, history
  <2>6. ASSUME NEW t \in Thread, Access(t) PROVE WriterInv(w)'
    <3>1. CASE t = w
      <4>1. CASE call[w] = "get"
        BY <2>6, <3>1, <4>1 DEF TypeOK, WriterInv, InTargetSet, Access, history
      <4>2. CASE call[w] # "get"
        BY <2>6, <3>1, <4>2 DEF TypeOK, WriterInv, InTargetSet, Access, history, Column
      <4> QED BY <4>1, <4>2
    <3>2. CASE t # w
      BY <2>6, <3>2 DEF TypeOK, WriterInv, InTargetSet, Access, history
    <3> QED BY <3>1, <3>2
  <2>7. ASSUME NEW t \in Thread, Give(t) PROVE WriterInv(w)'
    <3>1. CASE t = w
      <4> DEFINE more == call[w] = "target" /\ col[w] = "target" /\ rc[w] = "ok" /\ Sync
      <4>1. pc[w] = "give" /\ UNCHANGED <<column, stage, call, val, rc>> /\ col[w] \in Column
        BY <2>7, <3>1 DEF Give, TypeOK
      <4>2. CASE /\ more /\ UNCHANGED failed
                 /\ pc' = [pc EXCEPT ![w] = "take"] /\ col' = [col EXCEPT ![w] = "regular"]
        <5>1. column["target"] = val[w]
          BY <4>1, <4>2 DEF WriterInv, InTargetSet
        <5>2. pc'[w] = "take" /\ col'[w] = "regular" /\ \A u \in Thread \ {w} : pc'[u] = pc[u]
          BY <4>2 DEF TypeOK
        <5> QED BY <4>1, <4>2, <5>1, <5>2 DEF WriterInv, InTargetSet
      <4>3. CASE /\ ~more /\ UNCHANGED col /\ pc' = [pc EXCEPT ![w] = "idle"]
                 /\ failed' = (failed \/ (call[w] = "target" /\ rc[w] = "err"))
        <5>1. pc'[w] = "idle" /\ \A u \in Thread \ {w} : pc'[u] = pc[u]
          BY <4>3 DEF TypeOK
        <5>2. ~failed' /\ Sync => column["target"] = column["regular"]
          BY <4>1, <4>3 DEF WriterInv, InTargetSet, TypeOK, Column
        <5> QED BY <4>1, <5>1, <5>2 DEF WriterInv, InTargetSet
      <4> QED BY <2>7, <3>1, <4>2, <4>3 DEF Give
    <3>2. CASE t # w
      BY <2>7, <3>2 DEF TypeOK, WriterInv, InTargetSet, Give
    <3> QED BY <3>1, <3>2
  <2>8. CASE UNCHANGED vars
    BY <2>8 DEF WriterInv, InTargetSet, vars, calls, history
  <2> QED BY <2>1, <2>2, <2>3, <2>4, <2>5, <2>6, <2>7, <2>8 DEF Next, Running
<1>3. TypeOK /\ WriterInv(w) => ColumnsAgree
  BY DEF WriterInv, ColumnsAgree
<1> QED BY <1>1, <1>2, <1>3, PTL DEF Spec
=============================================================================
