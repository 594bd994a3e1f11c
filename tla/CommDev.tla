--------------------------------- MODULE CommDev ---------------------------------
(* The communication device between host and chassis controller: two mailboxes  *)
(* and some registers behind one I2C address. A read is the write of an offset  *)
(* and one transfer per byte, a write one transfer per block; the bus is given  *)
(* back between any two of them and the controller goes on meanwhile. Callers   *)
(* ask before they move a message, as the API lets them, and one call runs at a *)
(* time: the offset a read counts from belongs to the device, and the driver    *)
(* has no lock.                                                                 *)
EXTENDS DeviceBus, Sequences

CONSTANT CommConf  \* the hosts: calls, messages, versions, control values, block size

(* Messages and values are bytes; a message fits its mailbox, and one from the   *)
(* host is a string with its end; all versions have the length of the first one. *)
ASSUME CommConfAssumption ==
  \A c \in CommConf :
    /\ c.dev = "comm" /\ c.room \in Nat /\ c.block \in Nat \ {0} /\ c.width \in {1, 2}
    /\ c.sent \cup c.written \subseteq Seq(0..255)
    /\ \A m \in c.sent \cup c.written : Len(m) <= c.room
    /\ \A m \in c.written : \E i \in 1..Len(m) : m[i] = 0
    /\ {c.first} \cup c.versions \subseteq Seq(0..255) \ {<<>>}
    /\ \A v \in c.versions : Len(v) = Len(c.first)
    /\ c.values \subseteq Nat

Erased == 255
None == <<>>
AtRest == [call |-> "idle", plan |-> <<>>, k |-> 0, buf |-> <<>>, got |-> <<>>, ok |-> TRUE,
           spare |-> 0, arg |-> 0]

(* conf.calls is what the host uses, conf.sent and conf.written are messages to *)
(* and from the host, conf.room the bytes of a mailbox, conf.block those of a   *)
(* block; conf.spare is the number of transfers that may fail in a call and     *)
(* conf.hidden whether one may that is not the last of its read: such a failure *)
(* is forgotten with the next byte.                                             *)
CommInit ==
  /\ conf \in CommConf
  /\ chip = [reg |-> "none", at |-> 1, on |-> FALSE, alarm |-> TRUE,
             present |-> FALSE, full |-> FALSE, lost |-> FALSE,
             mem |-> [header |-> [i \in 1..4 |-> Erased], sb |-> [i \in 1..conf.room |-> Erased],
                      nb_header |-> [i \in 1..4 |-> Erased], nb |-> [i \in 1..conf.room |-> Erased],
                      version |-> conf.first, ext |-> <<0, 0>>,
                      tag |-> <<7>>, fw |-> <<8>>, slot |-> <<9>>]]
  /\ drv = AtRest
  /\ out = NoCall
  /\ seen = [asked |-> {}, taken |-> None, version |-> conf.first, ext |-> 0]

--------------------------------------------------------------------------------
(* The messages: checksum and size go first. *)

Sums(bytes) ==
  LET sum[k \in 0..Len(bytes)] == IF k = 0 THEN 0 ELSE sum[k - 1] + bytes[k] IN sum
SumSeq(bytes) == Sums(bytes)[Len(bytes)]
Size(m) == CHOOSE i \in 1..Len(m) : m[i] = 0 /\ \A j \in 1..(i - 1) : m[j] # 0
Word16 == 65536
Checksum(bytes) ==
  LET sum == SumSeq(bytes) + (Len(bytes) % 256) + (Len(bytes) \div 256)
  IN (Word16 - (sum % Word16)) % Word16
Header(bytes) == LET c == Checksum(bytes) n == Len(bytes)
                 IN <<c % 256, c \div 256, n % 256, n \div 256>>
HeaderSize(h) == h[3] + 256 * h[4]
BufferMaxSize == 4100

Checks(bytes, header) == Checksum(bytes) = header[1] + 256 * header[2]

--------------------------------------------------------------------------------
(* What a call has still to do. skip is the number of operations left out when *)
(* this one fails: All ends the call with the failure.                         *)

All == -1
ReadOp(reg, n, skip) == [do |-> "read", reg |-> reg, n |-> n, bytes |-> <<>>, skip |-> skip]
WriteOp(reg, from, bytes, skip) ==
  [do |-> "write", reg |-> reg, n |-> from, bytes |-> bytes, skip |-> skip]
Command(bit, skip) ==
  <<ReadOp("ctl", 2, IF skip = All THEN All ELSE skip + 1), WriteOp("ctl", 1, <<bit>>, skip)>>

Blocks(reg, bytes) ==
  [i \in 1..((Len(bytes) + conf.block - 1) \div conf.block) |->
     LET from == (i - 1) * conf.block + 1
     IN WriteOp(reg, from, SubSeq(bytes, from, Min2(Len(bytes), from + conf.block - 1)), All)]

FlushMsgBuffer(skip) == Command("flush", skip)
PackageReadAndVerified == Command("verified", All)
PackageDownloadComplete == Command("complete", All)
StatusCheckAndClear ==
  <<ReadOp("status", 2, 3), WriteOp("status", 1, <<0>>, 0)>> \o FlushMsgBuffer(0)
ResetRefresh ==
  <<ReadOp("status", 2, All), WriteOp("enable", 1, <<3>>, All),
    WriteOp("status", 1, <<0>>, All)>>
(* Mutant: the package is acknowledged before it is read. *)
ReadMailboxLast == PackageReadAndVerified \o <<ReadOp("header", 4, All)>>

ReadMailbox == <<ReadOp("header", 4, All)>> \o PackageReadAndVerified
WriteMailbox(m) ==
  StatusCheckAndClear \o <<WriteOp("nb_header", 1, Header(SubSeq(m, 1, Size(m))), All)>>
    \o Blocks("nb", m) \o PackageDownloadComplete
Tenfold(v) == <<(v * 10) % 256, ((v * 10) \div 256) % 256>>

WriteSensor06(v) == ResetRefresh \o Blocks("s06", Tenfold(v))
WriteSensor07(v) == Blocks("s07", Tenfold(v))
ReadPlatformInfo == <<ReadOp("tag", 1, All), ReadOp("fw", 1, All), ReadOp("slot", 1, All)>>
ExtCtrlSetPlan(v) == (IF conf.refresh THEN ResetRefresh ELSE <<>>)
                       \o Blocks("ext", SubSeq(Tenfold(v), 1, conf.width))

--------------------------------------------------------------------------------
(* The calls of the API. *)

OnComm == Is("comm") /\ drv.call = "idle" /\ out.call = "none"

StartCall(call, plan, arg) ==
  /\ OnComm /\ call \in conf.calls
  /\ drv' = [AtRest EXCEPT !.call = call, !.plan = plan, !.arg = arg, !.spare = conf.spare]
  /\ UNCHANGED <<conf, chip, out>>
Calls(call, plan, arg) == StartCall(call, plan, arg) /\ seen' = seen
Asked(about, call, plan, arg) ==
  /\ OnComm /\ about \in seen.asked /\ StartCall(call, plan, arg)
  /\ seen' = [seen EXCEPT !.asked = @ \ {about}]

MsgRead == Asked("present", "msg_read", ReadMailbox, 0)
MsgWrite ==
  Is("comm") /\ \E m \in conf.written : Asked("ready", "msg_write", WriteMailbox(m), m)
PlatformInfoGet == Calls("platform_info", ReadPlatformInfo, 0)
HostSwVersionGet == Calls("version_get", <<ReadOp("version", Len(conf.first), All)>>, 0)
HostSwVersionSet ==
  Is("comm") /\ \E v \in conf.versions : Calls("version_set", Blocks("version", v), v)
HostTemperatureSet ==
  Is("comm") /\ \E v \in conf.values : Calls("temperature_set", WriteSensor06(v), v)
HostAmbientTemperatureSet ==
  Is("comm") /\ \E v \in conf.values : Calls("ambient_set", WriteSensor07(v), v)
MessagingEnable == \E b \in {0, 3} : Calls("enable", <<WriteOp("enable", 1, <<b>>, All)>>, b)
FlushMsgBufferCall == Calls("flush", FlushMsgBuffer(All), 0)
IsWriteBufferReady == Calls("ready", <<ReadOp("nb_status", 2, All)>>, 0)
ExtCtrlGet == Calls("ext_get", <<ReadOp("ext", conf.width, All)>>, 0)
ExtCtrlSet ==
  Is("comm") /\ \E v \in conf.values : Calls("ext_set", ExtCtrlSetPlan(v), v)

(* The presence of a message is a pin of the host system. *)
IsMsgPresent ==
  /\ OnComm /\ "msg_read" \in conf.calls /\ Outcome("present", "ok", chip.present)
  /\ seen' = [seen EXCEPT !.asked =
              IF chip.present THEN @ \cup {"present"} ELSE @ \ {"present"}]
  /\ UNCHANGED <<conf, chip, drv>>

(* Any call on a resource of another kind. *)
CommApiRefuses == OnComm /\ Refuse("comm", "not_a_comm_dev")

--------------------------------------------------------------------------------
(* The end of an operation, and of a call. *)

Drop(plan, n) == SubSeq(plan, n + 1, Len(plan))

(* The result of a call that ends well, and what its caller knows from then on. *)
ExtWord(got) ==
  IF conf.width = 1 THEN {(got[1] + 256 * g) \div 10 : g \in {0, 255}}
  ELSE {(got[1] + 256 * got[2]) \div 10}
(* Mutant: a buffer is ready once it answers. *)
ResultsAlwaysReady(h) ==
  CASE h.call = "ready" -> {TRUE}
    [] h.call = "ext_get" -> ExtWord(h.got)
    [] h.call \in {"msg_read", "version_get"} -> {h.got}
    [] OTHER -> {0}

Results(h) ==
  CASE h.call = "ready" -> {h.got[1] = 0}
    [] h.call = "ext_get" -> ExtWord(h.got)
    [] h.call \in {"msg_read", "version_get"} -> {h.got}
    [] OTHER -> {0}
AfterCall(h, val) ==
  CASE h.call = "ready" -> [seen EXCEPT !.asked = IF val THEN @ \cup {"ready"} ELSE @ \ {"ready"}]
    [] h.call = "version_set" -> [seen EXCEPT !.version = h.arg]
    [] h.call = "ext_set" -> [seen EXCEPT !.ext = h.arg]
    [] OTHER -> seen
(* A set that fails leaves what it wrote, and its caller knows no value. *)
AfterFailed(h) ==
  CASE h.call = "version_set" -> [seen EXCEPT !.version = None]
    [] h.call = "ext_set" -> [seen EXCEPT !.ext = -1]
    [] OTHER -> seen

EndOk(h) == \E val \in Results(h) :
  Outcome(h.call, "ok", val) /\ drv' = AtRest /\ seen' = AfterCall(h, val)
EndFailed(h) == Outcome(h.call, "failed", 0) /\ drv' = AtRest /\ seen' = AfterFailed(h)

(* h after its operation; tail is what the plan goes on with. *)
Continue(h, tail) ==
  IF tail = <<>> THEN (IF h.ok THEN EndOk(h) ELSE EndFailed(h))
  ELSE drv' = [h EXCEPT !.plan = tail, !.k = 0, !.ok = TRUE] /\ out' = out /\ seen' = seen

Keeps(op) == op.do = "read" /\ op.reg \notin {"ctl", "status"}

AfterOp(h0) ==
  LET op == h0.plan[1]
      h == [h0 EXCEPT !.got = IF Keeps(op) THEN h0.buf ELSE @]
      tail == IF ~h.ok /\ op.skip = All THEN <<>>
              ELSE Drop(h.plan, IF h.ok THEN 1 ELSE 1 + op.skip)
  IN CASE op.reg = "header" /\ h.ok /\ HeaderSize(h.got) > BufferMaxSize -> EndFailed(h)
       [] op.reg = "header" /\ h.ok /\ HeaderSize(h.got) <= BufferMaxSize ->
            Continue([h EXCEPT !.arg = h.got],
                     <<ReadOp("sb", HeaderSize(h.got), All)>> \o tail)
       [] op.reg = "sb" /\ h.ok /\ ~Checks(h.got, h.arg) -> EndFailed(h)
       [] op.reg = "status" /\ op.do = "read" /\ h.ok /\ tail[1].reg = "enable"
            /\ h.buf[1] % 2 = 1 ->
            Continue(h, Drop(tail, 1))
       [] OTHER -> Continue(h, tail)

--------------------------------------------------------------------------------
(* The transfers. *)

Busy(do) == Is("comm") /\ drv.call # "idle" /\ drv.plan[1].do = do
MayFail(last) == drv.spare > 0 /\ (last \/ conf.hidden)

(* The offset of a read. *)
WriteOffset ==
  /\ Busy("read") /\ drv.k = 0
  /\ \/ /\ chip' = [chip EXCEPT !.reg = drv.plan[1].reg, !.at = 1]
        /\ LET h == [drv EXCEPT !.k = 1, !.buf = <<>>, !.ok = TRUE]
           IN IF drv.plan[1].n = 0 THEN AfterOp(h) ELSE drv' = h /\ UNCHANGED <<out, seen>>
     \/ /\ MayFail(TRUE) /\ chip' = chip
        /\ AfterOp([drv EXCEPT !.ok = FALSE, !.spare = @ - 1, !.buf = <<>>])
  /\ UNCHANGED conf

(* The byte the device answers with: command bits are carried out when they are *)
(* written.                                                                     *)
Answer ==
  CASE chip.reg = "ctl" -> 0
    [] chip.reg = "status" -> IF chip.at = 1 THEN (IF chip.alarm THEN 6 ELSE 7) ELSE 0
    [] chip.reg = "nb_status" -> IF chip.at = 1 /\ chip.full THEN 1 ELSE 0
    [] OTHER -> IF chip.at > Len(chip.mem[chip.reg]) THEN Erased ELSE chip.mem[chip.reg][chip.at]

(* One byte; the result of the read is that of its last byte, and a byte that *)
(* was not received keeps what the buffer held.                               *)
RecvByte ==
  /\ Busy("read") /\ drv.k > 0
  /\ LET last == drv.k = drv.plan[1].n
         Go(h) == IF last THEN AfterOp(h) ELSE drv' = h /\ UNCHANGED <<out, seen>>
     IN \/ /\ chip' = [chip EXCEPT !.at = @ + 1]
           /\ Go([drv EXCEPT !.k = @ + 1, !.buf = Append(@, Answer), !.ok = TRUE])
        \/ /\ MayFail(last) /\ chip' = chip
           /\ Go([drv EXCEPT !.k = @ + 1, !.buf = Append(@, 0), !.ok = FALSE, !.spare = @ - 1])
  /\ UNCHANGED conf

Overlay(old, from, bytes) ==
  [i \in 1..Len(old) |-> IF i \in from..(from + Len(bytes) - 1) THEN bytes[i - from + 1] ELSE old[i]]

(* The controller drops a message that is not the one that was read. *)
Loses == chip.present /\ drv.got # SubSeq(chip.mem.sb, 1, HeaderSize(chip.mem.header))

(* What a block does in the device. Commands count while messages are enabled; *)
(* nobody reads the telemetry of the sensors back.                             *)
AfterBlock(op) ==
  CASE op.reg = "enable" -> [chip EXCEPT !.on = op.bytes[1] = 3]
    [] op.reg = "status" -> [chip EXCEPT !.alarm = FALSE]
    [] op.reg = "ctl" ->
         IF ~chip.on THEN chip
         ELSE CASE op.bytes[1] = "flush" -> [chip EXCEPT !.full = FALSE]
                [] op.bytes[1] = "verified" -> [chip EXCEPT !.present = FALSE, !.lost = @ \/ Loses]
                [] OTHER -> [chip EXCEPT !.full = TRUE]
    [] op.reg \in {"s06", "s07"} -> chip
    [] OTHER -> [chip EXCEPT !.mem[op.reg] = Overlay(@, op.n, op.bytes)]

WriteBlock ==
  /\ Busy("write")
  /\ \/ /\ chip' = AfterBlock(drv.plan[1])
        /\ AfterOp([drv EXCEPT !.ok = TRUE])
     \/ /\ MayFail(TRUE) /\ chip' = chip
        /\ AfterOp([drv EXCEPT !.ok = FALSE, !.spare = @ - 1])
  /\ UNCHANGED conf

--------------------------------------------------------------------------------
(* The controller. *)

World == Is("comm") /\ UNCHANGED <<conf, drv, out>>

ControllerPuts ==
  /\ World /\ chip.on /\ ~chip.present
  /\ \E m \in conf.sent :
       /\ chip' = [chip EXCEPT !.present = TRUE, !.mem.header = Header(m),
                               !.mem.sb = Overlay(@, 1, m)]
  /\ seen' = seen

ControllerTakes ==
  /\ World /\ chip.full
  /\ chip' = [chip EXCEPT !.full = FALSE]
  /\ seen' = [seen EXCEPT !.taken = [header |-> chip.mem.nb_header, bytes |-> chip.mem.nb]]

(* A reset, as after an update of its firmware. *)
ControllerResets ==
  /\ World
  /\ chip' = [chip EXCEPT !.on = FALSE, !.alarm = TRUE, !.present = FALSE, !.full = FALSE,
                          !.mem.header = [i \in 1..4 |-> Erased],
                          !.mem.sb = [i \in 1..conf.room |-> Erased]]
  /\ seen' = seen

CommNext ==
  \/ MsgRead \/ MsgWrite \/ PlatformInfoGet \/ HostSwVersionGet \/ HostSwVersionSet
  \/ HostTemperatureSet \/ HostAmbientTemperatureSet \/ MessagingEnable \/ FlushMsgBufferCall
  \/ IsWriteBufferReady \/ IsMsgPresent \/ ExtCtrlGet \/ ExtCtrlSet \/ CommApiRefuses
  \/ WriteOffset \/ RecvByte \/ WriteBlock
  \/ ControllerPuts \/ ControllerTakes \/ ControllerResets

--------------------------------------------------------------------------------
(* Properties. *)

(* A message that sdi_comm_dev_msg_read delivers is one the controller sent, *)
(* though the controller may reset between any two bytes of it.              *)
DeliveredWhole == Is("comm") /\ out.call = "msg_read" /\ out.res = "ok" => out.val \in conf.sent

(* The controller drops a message of its mailbox only when that very message *)
(* was read.                                                                 *)
NoneLost == Is("comm") => ~chip.lost

(* What the controller takes as a message from the host is one message of the  *)
(* host, to its last byte and with its header, whichever transfers of this and *)
(* of earlier calls failed.                                                    *)
TakenWhole ==
  Is("comm") /\ seen.taken # None =>
    \E m \in conf.written :
      LET b == SubSeq(m, 1, Size(m))
      IN seen.taken.header = Header(b) /\ SubSeq(seen.taken.bytes, 1, Len(b)) = b

(* A message goes through the mailbox whole or not at all, in both directions, *)
(* past failing transfers, retries of the host and resets of the controller.   *)
MailboxWhole == DeliveredWhole /\ NoneLost /\ TakenWhole

(* A buffer reported ready holds no message that the controller has yet to *)
(* take, until the host writes the next one.                               *)
ReadyHonest ==
  Is("comm") /\ "ready" \in seen.asked => ~chip.full

(* Ten times a control value of up to this fits the two bytes of its register. *)
ExtMax == 6553

(* A version or a control value that a read delivers is the one of the last set *)
(* that succeeded, if none failed since.                                        *)
SetsStand ==
  Is("comm") /\ out.res = "ok" =>
    /\ out.call = "version_get" /\ seen.version # None => out.val = seen.version
    /\ out.call = "ext_get" /\ seen.ext \in 0..ExtMax /\ conf.width = 2 => out.val = seen.ext

(* What the host is told of the controller is so: that its buffer is free, and *)
(* that a version or a control was set.                                        *)
HostTold == ReadyHonest /\ SetsStand
================================================================================
