-------------------------------- MODULE VmDb --------------------------------
(***************************************************************************)
(* The database of the VM flavour (sdi-sys-vm): processes open it with     *)
(* sdi_sys_init, which creates and fills the file if there is none, and    *)
(* their threads get and set fields.  Every access is made under a SysV    *)
(* semaphore of count `count', which outlives the processes.  A set of a   *)
(* target field is two accesses: the target column, then the regular one.  *)
(*                                                                         *)
(* One field of one row stands for the tables.                             *)
(***************************************************************************)
EXTENDS Integers

CONSTANTS
  Process, Thread,
  Home,      \* Home[t]: the process of thread t
  Master,    \* the processes that open with masterf
  Calls,     \* Calls[t]: the kinds of call that thread t makes
  Value,     \* the values that are set; Default among them
  Default,   \* what the initial script puts in both columns
  Sync,      \* sdi_db_write_regular_field
  Tables,    \* the state of the file at the beginning
  MaxOpens,  \* bound on how often a process opens the database
  MaxCount,  \* bound on the semaphore below which signals still come
  Fault      \* "crash": of a process, "signal": while waiting for the
             \* semaphore, "sql": of an access or of an open, "script": of
             \* a script or of a command in one

Kind == {"get", "set", "target", "reinit"}

ASSUME DbAssumption ==
  /\ Home \in [Thread -> Process]
  /\ Master \subseteq Process
  /\ Calls \in [Thread -> SUBSET Kind]
  /\ Default \in Value
  /\ Sync \in BOOLEAN
  /\ Tables \subseteq {"absent", "empty", "created", "filled"}
  /\ MaxOpens \in Nat /\ MaxCount \in Nat
  /\ Fault \subseteq {"crash", "signal", "sql", "script"}

VARIABLES
  count,   \* the semaphore
  table,   \* the file: absent, empty, with tables, with rows
  column,  \* the field: column["target"], column["regular"]
  stage,   \* stage[p]: how far p is in sdi_db_open
  pc, call, col, val, rc,  \* of the call a thread is in
  opens,   \* opens[p]: how often p has opened the database
  torn,    \* history: filling the file was cut short or lost commands, which
           \* no caller is told of
  failed   \* history: a set of the target since the last one that was alone
           \* and began afresh has failed

calls == <<pc, call, col, val, rc>>
history == <<torn, failed>>
vars  == <<count, table, column, stage, calls, opens, history>>

Column == {"target", "regular"}

TypeOK ==
  /\ count \in Nat
  /\ table \in {"absent", "empty", "created", "filled"}
  /\ column \in [Column -> Value]
  /\ stage \in [Process -> {"down", "look", "make", "create", "fill", "open", "up"}]
  /\ pc \in [Thread -> {"idle", "take", "inside", "give"}]
  /\ call \in [Thread -> Kind]
  /\ col \in [Thread -> Column]
  /\ val \in [Thread -> Value]
  /\ rc \in [Thread -> {"ok", "err"}]
  /\ opens \in [Process -> 0 .. MaxOpens]
  /\ torn \in BOOLEAN
  /\ failed \in BOOLEAN

Init ==
  /\ count = 0
  /\ table \in Tables
  /\ column = [c \in Column |-> Default]
  /\ stage = [p \in Process |-> "down"]
  /\ pc = [t \in Thread |-> "idle"]
  /\ call = [t \in Thread |-> "get"]
  /\ col = [t \in Thread |-> "regular"]
  /\ val = [t \in Thread |-> Default]
  /\ rc = [t \in Thread |-> "ok"]
  /\ opens = [p \in Process |-> 0]
  /\ torn = FALSE
  /\ failed = FALSE

-----------------------------------------------------------------------------
(* Opening: sdi_db_open and sdi_db_init_database.                          *)

\* Step of process p from stage a to stage b.
Advance(p, a, b) == stage[p] = a /\ stage' = [stage EXCEPT ![p] = b]

\* sdi_db_sem_get finds the semaphore or creates it with count 0; a master
\* gives it once.
OpenSemaphore(p) ==
  /\ opens[p] < MaxOpens
  /\ opens' = [opens EXCEPT ![p] = @ + 1]
  /\ Advance(p, "down", "look")
  /\ count' = count + (IF p \in Master THEN 1 ELSE 0)
  /\ UNCHANGED <<table, column, calls, history>>

\* access() of the file
LookForFile(p) ==
  /\ Advance(p, "look", IF table = "absent" THEN "make" ELSE "open")
  /\ UNCHANGED <<count, table, column, calls, opens, history>>

\* Slip: the file is found to be there, and the scripts are left out.
MakeFileOnly(p) ==
  /\ Advance(p, "make", "open")
  /\ table' = IF table = "absent" THEN "empty" ELSE table
  /\ UNCHANGED <<count, column, calls, opens, history>>

\* db_sql_open creates the file, or opens one made in the meantime.
MakeFile(p) ==
  /\ \/ /\ Advance(p, "make", "create")
        /\ table' = IF table = "absent" THEN "empty" ELSE table
        /\ UNCHANGED torn
     \/ /\ "sql" \in Fault
        /\ Advance(p, "make", "open")
        /\ torn' = TRUE
        /\ UNCHANGED table
  /\ UNCHANGED <<count, column, calls, opens, failed>>

(***************************************************************************)
(* sdi_db_run_sql_script has no result: of a script that cannot be opened, *)
(* of a command that fails and of the commands behind an over-long one     *)
(* nobody is told, and the caller goes on.                                 *)
(***************************************************************************)

\* Every table is dropped if it exists, and then created.
CreateScript ==
  \/ table' = "created" /\ UNCHANGED torn
  \/ /\ "script" \in Fault
     /\ table' \in {table, "empty", "created"}
     /\ torn' = TRUE

\* The rows of every table are deleted, and then inserted.
InitScript ==
  \/ /\ table \in {"created", "filled"}
     /\ table' = "filled" /\ column' = [c \in Column |-> Default]
     /\ UNCHANGED torn
  \/ /\ table \notin {"created", "filled"}
     /\ UNCHANGED <<table, column, torn>>
  \/ /\ "script" \in Fault
     /\ \/ UNCHANGED <<table, column>>
        \/ table \in {"created", "filled"} /\ table' = "created" /\ UNCHANGED column
     /\ torn' = TRUE

RunCreateScript(p) ==
  /\ Advance(p, "create", "fill")
  /\ CreateScript
  /\ UNCHANGED <<count, column, calls, opens, failed>>

RunInitScript(p) ==
  /\ Advance(p, "fill", "open")
  /\ InitScript
  /\ UNCHANGED <<count, calls, opens, failed>>

OpenFile(p) ==
  /\ \/ /\ Advance(p, "open", "up")
        /\ table' = IF table = "absent" THEN "empty" ELSE table
     \/ /\ "sql" \in Fault
        /\ Advance(p, "open", "down")
        /\ UNCHANGED table
  /\ UNCHANGED <<count, column, calls, opens, history>>

\* sdi_sys_close, when no call is under way: the semaphore stays as it is.
Close(p) ==
  /\ \A t \in Thread : Home[t] = p => pc[t] = "idle"
  /\ Advance(p, "up", "down")
  /\ UNCHANGED <<count, table, column, calls, opens, history>>

\* A process dies; its semaphore operations are not undone (sem_flg is 0).
Crash(p) ==
  /\ "crash" \in Fault
  /\ stage[p] # "down"
  /\ stage' = [stage EXCEPT ![p] = "down"]
  /\ pc' = [t \in Thread |-> IF Home[t] = p THEN "idle" ELSE pc[t]]
  /\ failed' = (failed \/ \E t \in Thread : Home[t] = p /\ call[t] = "target" /\ pc[t] # "idle")
  /\ torn' = (torn \/ stage[p] \in {"create", "fill"})
  /\ UNCHANGED <<count, table, column, call, col, val, rc, opens>>

-----------------------------------------------------------------------------
(* Calls of a thread whose process has opened the database.                *)

InTargetSet(t) == pc[t] # "idle" /\ call[t] = "target"

Start(t, k, v) ==
  /\ stage[Home[t]] = "up"
  /\ pc[t] = "idle"
  /\ k \in Calls[t] \ {"reinit"}
  /\ pc' = [pc EXCEPT ![t] = "take"]
  /\ call' = [call EXCEPT ![t] = k]
  /\ col' = [col EXCEPT ![t] = IF k = "target" THEN "target" ELSE "regular"]
  /\ val' = [val EXCEPT ![t] = v]
  /\ rc' = [rc EXCEPT ![t] = "ok"]
  /\ failed' = (failed /\ (k # "target" \/ \E u \in Thread : InTargetSet(u)))
  /\ UNCHANGED <<count, table, column, stage, opens, torn>>

\* sdi_db_reinit_database runs the second script, without the semaphore; if
\* the file cannot be opened it returns, and does not say so.
Reinit(t) ==
  /\ stage[Home[t]] = "up"
  /\ pc[t] = "idle"
  /\ "reinit" \in Calls[t]
  /\ \/ InitScript
     \/ "sql" \in Fault /\ UNCHANGED <<table, column, torn>>
  /\ UNCHANGED <<count, stage, calls, opens, failed>>

\* Slip: the semaphore is looked at and not taken.
TakeWeakly(t) ==
  /\ pc[t] = "take"
  /\ count > 0
  /\ pc' = [pc EXCEPT ![t] = "inside"]
  /\ UNCHANGED <<count, table, column, stage, call, col, val, rc, opens, history>>

\* Slip: a semaphore that is not free is not waited for.
TakeNoWait(t) ==
  /\ pc[t] = "take"
  /\ count' = count - 1
  /\ pc' = [pc EXCEPT ![t] = "inside"]
  /\ UNCHANGED <<table, column, stage, call, col, val, rc, opens, history>>

\* sdi_db_sem_take
Take(t) ==
  /\ pc[t] = "take"
  /\ count > 0
  /\ count' = count - 1
  /\ pc' = [pc EXCEPT ![t] = "inside"]
  /\ UNCHANGED <<table, column, stage, call, col, val, rc, opens, history>>

\* semop returns EINTR, and sdi_db_sem_take does not look at its result.
TakeInterrupted(t) ==
  /\ "signal" \in Fault
  /\ count < MaxCount
  /\ pc[t] = "take"
  /\ pc' = [pc EXCEPT ![t] = "inside"]
  /\ UNCHANGED <<count, table, column, stage, call, col, val, rc, opens, history>>

\* db_sql_get_attribute or db_sql_set_attribute
Access(t) ==
  /\ pc[t] = "inside"
  /\ pc' = [pc EXCEPT ![t] = "give"]
  /\ \/ /\ table = "filled"
        /\ \/ /\ call[t] = "get"
              /\ val' = [val EXCEPT ![t] = column["regular"]]
              /\ UNCHANGED column
           \/ /\ call[t] # "get"
              /\ column' = [column EXCEPT ![col[t]] = val[t]]
              /\ UNCHANGED val
        /\ UNCHANGED rc
     \/ /\ table # "filled" \/ "sql" \in Fault
        /\ rc' = [rc EXCEPT ![t] = "err"]
        /\ UNCHANGED <<column, val>>
  /\ UNCHANGED <<count, table, stage, call, col, opens, history>>

\* Slip: a failed access returns at once.
GiveIfDone(t) ==
  /\ pc[t] = "give"
  /\ count' = count + (IF rc[t] = "ok" THEN 1 ELSE 0)
  /\ pc' = [pc EXCEPT ![t] = "idle"]
  /\ failed' = (failed \/ (call[t] = "target" /\ rc[t] = "err"))
  /\ UNCHANGED <<table, column, stage, call, col, val, rc, opens, torn>>

\* Slip: the regular column is set whatever became of the target.
GiveUnchecked(t) ==
  /\ pc[t] = "give"
  /\ count' = count + 1
  /\ \/ /\ call[t] = "target" /\ col[t] = "target" /\ Sync
        /\ pc' = [pc EXCEPT ![t] = "take"]
        /\ col' = [col EXCEPT ![t] = "regular"]
        /\ rc' = [rc EXCEPT ![t] = "ok"]
        /\ UNCHANGED failed
     \/ /\ ~(call[t] = "target" /\ col[t] = "target" /\ Sync)
        /\ pc' = [pc EXCEPT ![t] = "idle"]
        /\ failed' = (failed \/ (call[t] = "target" /\ rc[t] = "err"))
        /\ UNCHANGED <<col, rc>>
  /\ UNCHANGED <<table, column, stage, call, val, opens, torn>>

\* sdi_db_sem_give; a target set goes on to the regular column.
Give(t) ==
  /\ pc[t] = "give"
  /\ count' = count + 1
  /\ LET more == call[t] = "target" /\ col[t] = "target" /\ rc[t] = "ok" /\ Sync
     IN  \/ /\ more
            /\ pc' = [pc EXCEPT ![t] = "take"]
            /\ col' = [col EXCEPT ![t] = "regular"]
            /\ UNCHANGED failed
         \/ /\ ~more
            /\ pc' = [pc EXCEPT ![t] = "idle"]
            /\ failed' = (failed \/ (call[t] = "target" /\ rc[t] = "err"))
            /\ UNCHANGED col
  /\ UNCHANGED <<table, column, stage, call, val, rc, opens, torn>>

-----------------------------------------------------------------------------
Opening(p) == \/ LookForFile(p) \/ MakeFile(p) \/ RunCreateScript(p)
              \/ RunInitScript(p) \/ OpenFile(p)

Running(t) == Access(t) \/ Give(t)

Next ==
  \/ \E p \in Process : OpenSemaphore(p) \/ Opening(p) \/ Close(p) \/ Crash(p)
  \/ \E t \in Thread :
       \/ \E k \in Calls[t], v \in Value : Start(t, k, v)
       \/ Reinit(t) \/ Take(t) \/ TakeInterrupted(t) \/ Running(t)

Spec == Init /\ [][Next]_vars

\* A master is started, threads run, and semop serves waiting threads in the
\* order they came.
FairSpec ==
  /\ Spec
  /\ \A p \in Master : WF_vars(OpenSemaphore(p))
  /\ \A t \in Thread : WF_vars(Running(t)) /\ SF_vars(Take(t))

-----------------------------------------------------------------------------
(* Correctness.                                                            *)

(***************************************************************************)
(* "serialize DB accesses": two threads, of any processes, are never both  *)
(* between sdi_db_sem_take and sdi_db_sem_give (sdi_db_ops.c:44-118).      *)
(***************************************************************************)
Exclusive == \A t, u \in Thread : pc[t] = "inside" /\ pc[u] = "inside" => t = u

(***************************************************************************)
(* While no set of a target field is under way and none has failed, the    *)
(* two columns agree: the regular column has what the last set wrote       *)
(* (sdi_db_int_field_target_set, sdi_db_ops.c:1185-1205).                  *)
(***************************************************************************)
ColumnsAgree ==
  (\A t \in Thread : ~InTargetSet(t)) /\ ~failed /\ Sync
    => column["target"] = column["regular"]

(***************************************************************************)
(* A process whose open was successful has its tables and rows, however    *)
(* often it or its threads come and go, unless filling the file was cut    *)
(* short or a script or a command of one was lost: neither is reported by  *)
(* sdi_db_open, which finds a file and takes it to be filled               *)
(* (sdi_db_ops.c:158-237, 313-320).                                        *)
(***************************************************************************)
OpenedIsReady == \A p \in Process : stage[p] = "up" /\ ~torn => table = "filled"

(***************************************************************************)
(* Every call returns, failed accesses included: the semaphore is always   *)
(* given back (sdi_db_ops.c:82-118).                                       *)
(***************************************************************************)
CallsReturn == \A t \in Thread : pc[t] = "take" ~> pc[t] = "idle"
=============================================================================
