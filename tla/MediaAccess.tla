---------------------------- MODULE MediaAccess ----------------------------
(***************************************************************************)
(* Threads that call the operations of MediaApi on the front panel ports   *)
(* of one platform.  The ports share the bus to the modules: a multiplexer *)
(* pin group and a module select pin group decide which module answers.    *)
(* The sub-ports of a double density cage even share the module.  Modules  *)
(* are plugged and pulled; any access may fail.                            *)
(*                                                                         *)
(* th[t]    the call of a thread: its port (Idle when none), the steps it  *)
(*          has left, its return code rc, whether the code drops results   *)
(*          of this operation (lax) and, when not, whether some access of  *)
(*          it failed (lost), the register it read last (buf), whether it  *)
(*          has been through a section (late), whether it goes on without  *)
(*          pages although the module of its port has them (astray)        *)
(* lock, sel       holder of each pin group, cage its lines point to       *)
(* module, page, off, hp   the module in each cage, its page select byte,  *)
(*          its switched off transmitters, its high power class enable     *)
(* drv      what the driver of each port remembers                         *)
(* known    module_init has run for the module that is in the cage         *)
(* asked    the last completed request for each transmitter               *)
(* hurt     a failed step may have left another page than 0 selected       *)
(* scene    the modules at hand, the threads at work, the ports they call  *)
(*          and whether modules are pulled again: fixed from the start     *)
(***************************************************************************)
EXTENDS MediaApi

CONSTANTS Threads, Ports, Cages, Modules,
          NoModule, Idle, NoGroup, Free,
          Port,        \* [Ports -> the kind, first channel, cage, groups, power and wiring]
          Scenes,      \* a set of [fits : [Cages -> SUBSET Modules],
                       \*   crew : SUBSET Threads, ports : SUBSET Ports,
                       \*   pulls : BOOLEAN]
          FactsOf, PowerOf,      \* of the modules
          GenericPages,          \* the pages the generic access asks for
          LeakyReads             \* whether a read that returns out of a section may fail

(* What a port is wired to: the lines of the transceiver pins are none of   *)
(* its selection groups, and those two, if it has both, differ.            *)
ASSUME PlatformAssumption ==
  /\ \A p \in Ports : /\ Port[p].first \in Nat /\ Port[p].cage \in Cages
                      /\ "pins" \notin {Port[p].mux, Port[p].mod}
                      /\ Port[p].mux = Port[p].mod => Port[p].mux = NoGroup
  /\ NoGroup # "pins" /\ Idle \notin Ports /\ NoModule \notin Modules
  /\ Free \notin Threads /\ Free \notin Cages
  /\ \A s \in Scenes : /\ s.fits \in [Cages -> SUBSET Modules]
                       /\ s.crew \subseteq Threads /\ s.ports \subseteq Ports
  /\ Channels \subseteq Nat /\ GenericPages \subseteq {Ignore, Invalid} \cup Nat

Groups == {Port[p].mux : p \in Ports} \cup {Port[p].mod : p \in Ports} \cup {"pins"}

VARIABLES th, lock, sel, module, page, off, hp, drv, known, asked, hurt, scene

vars == << th, lock, sel, module, page, off, hp, drv, known, asked, hurt, scene >>

Blank == [qsa |-> FALSE, dd |-> FALSE, ver |-> 0, mw |-> -1, soft |-> FALSE]
Rest  == [p |-> Idle, seq |-> << >>, rc |-> "ok", lost |-> FALSE, lax |-> FALSE, init |-> FALSE, buf |-> {}, late |-> FALSE,
          astray |-> FALSE]
Facts(k, mod) == IF mod[k] = NoModule THEN {} ELSE FactsOf[mod[k]]
Lanes == (1 .. 8) \cup {Serdes}

(***************************************************************************)
(* The calls a port accepts, by what it is and what is known of it.        *)
(***************************************************************************)
Drivers == [qsa : BOOLEAN, dd : BOOLEAN, ver : {0, 2, 3},
            mw : {-1} \cup {PowerOf[m] : m \in Modules}, soft : BOOLEAN]
Context(p, d, m) ==
  [kind |-> Port[p].kind, first |-> Port[p].first, d |-> d, mw |-> Port[p].mw,
   f |-> Port[p].wires \cup (IF m = NoModule THEN {} ELSE FactsOf[m])]
Contexts == {Context(p, d, m) : p \in Ports, d \in Drivers, m \in Modules \cup {NoModule}}

Strict(scripts) == {[lax |-> FALSE, steps |-> s] : s \in scripts}
(* The operations of which the code drops the result of some access.       *)
Lax(scripts)    == {[lax |-> TRUE, steps |-> s] : s \in scripts}

StrictCalls(c) ==
  UNION {MediaPresenceGet(c), MediaModuleMonitorStatusGet(c), MediaChannelMonitorStatusGet(c),
         MediaChannelStatusGet(c), MediaTxControlStatusGet(c), MediaSpeedGet(c), MediaParameterGet(c),
         MediaVendorInfoGet(c), MediaTransceiverCodeGet(c), MediaMonitorThresholdGet(c),
         MediaModuleControlStatusGet(c), MediaModuleMonitorGet(c), MediaChannelMonitorGet(c),
         MediaLedSet(c), FixedPortCalls,
         IF IsQsfp(c) /\ ~c.d.qsa THEN MediaTxControl(c) ELSE {}}
LaxCalls(c) ==
  UNION {MediaTxControl(c), MediaCdrStatusSet(c), MediaCdrStatusGet(c), MediaThresholdGet(c),
         MediaModuleControl(c), MediaPhyAutonegSet(c), MediaPhyModeSet(c), MediaPhySpeedSet(c),
         MediaPhyLinkStatusGet(c), MediaPhyPowerDownEnable(c), MediaPhySerdesControl(c),
         MediaReadGeneric(c, GenericPages), MediaWriteGeneric(c, GenericPages), MediaRead(c), MediaWrite(c),
         MediaFeatureSupportStatusGet(c), MediaExtRateSelect(c), MediaWavelengthSet(c),
         MediaQsaAdapterTypeGet(c)}
AllCalls(c) == Strict(StrictCalls(c)) \cup Lax(LaxCalls(c) \ StrictCalls(c))
(* Two threads are given only the calls that mean a page or leave something *)
(* changed in the module: to the others the rest are reads of a register    *)
(* that no page covers.                                                     *)
Meets(step) == step.do \in {"page", "writetx", "txpin", "power", "stray"}
               \/ (step.do \in {"read", "write", "learnpower"} /\ step.n # Lower)
CallsOf == [c \in Contexts |->
              LET all == AllCalls(c)
              IN [alone \in BOOLEAN |->
                    IF alone THEN all ELSE {call \in all : \E i \in DOMAIN call.steps : Meets(call.steps[i])}]]
InitsOf == [c \in Contexts |-> [pres \in BOOLEAN |-> Lax(MediaModuleInit(c, pres))]]

-----------------------------------------------------------------------------
Init ==
  /\ th = [t \in Threads |-> Rest]
  /\ lock = [g \in Groups |-> Free]
  /\ sel = [g \in Groups |-> Free]
  /\ module = [k \in Cages |-> NoModule]
  /\ page = [k \in Cages |-> 0]
  /\ off = [k \in Cages |-> {}]
  /\ hp = [k \in Cages |-> FALSE]
  /\ drv = [p \in Ports |-> Blank]
  /\ known = [p \in Ports |-> FALSE]
  /\ asked = [k \in Cages |-> {}]
  /\ hurt = [k \in Cages |-> FALSE]
  /\ scene \in Scenes

CageOf(p) == Port[p].cage
Calling(p) == \E t \in Threads : th[t].p = p
Running(t) == th[t].p # Idle /\ th[t].seq # << >>
Step(t)    == Head(th[t].seq)
Module(t)  == CageOf(th[t].p)

EepromSteps == {"read", "write", "pgread", "page", "readtx", "writetx", "readserdes", "power",
                "learnpower", "learnversion", "identify"}
PinSteps    == {"pinread", "pinwrite", "txpin"}
AcquireSteps == {"acqmux", "acqmod", "acqpin"}
SelectSteps  == {"setmux", "setmod"}
DropSteps    == {"dropmux", "dropmod", "droppin"}

GroupOf(t) == CASE Step(t).do \in {"acqmux", "setmux", "dropmux"} -> Port[th[t].p].mux
                [] Step(t).do \in {"acqmod", "setmod", "dropmod"} -> Port[th[t].p].mod
                [] OTHER -> "pins"

(* The steps that are left when the next n are skipped; an open step skips none. *)
Drop(seq, n) ==
  IF n = Everything \/ n >= Len(seq) THEN << >> ELSE IF n <= 0 THEN seq ELSE SubSeq(seq, n + 1, Len(seq))
Succeeded(t) == [th[t] EXCEPT !.seq = Tail(@), !.rc = IF Step(t).quiet THEN @ ELSE "ok"]
Failed(t) == [th[t] EXCEPT !.seq = Drop(Tail(@), Step(t).skip), !.lost = ~th[t].lax,
                           !.rc = IF Step(t).quiet THEN @ ELSE "err"]
Proceed(t, r) == th' = [th EXCEPT ![t] = r]
Release(t) == lock' = [g \in Groups |-> IF lock[g] = t THEN Free ELSE lock[g]]

(***************************************************************************)
(* Leaving the section with the groups taken is the code's own leak; the   *)
(* reads that can do that are kept from failing unless LeakyReads.         *)
(***************************************************************************)
Leaks(step) == step.do \in EepromSteps /\ step.skip = Everything
MayLeak(seq) == \E i \in DOMAIN seq : Leaks(seq[i])

(***************************************************************************)
(* The control plane: module_init(TRUE) is the first call after a module   *)
(* was plugged, module_init(FALSE) the last one after it was pulled, and   *)
(* neither overlaps another call on the port.                              *)
(***************************************************************************)
Begin(t, p, call, init) ==
  th' = [th EXCEPT ![t] = [Rest EXCEPT !.p = p, !.seq = call.steps, !.lax = call.lax, !.init = init]]
ThisContext(p) == Context(p, drv[p], module[CageOf(p)])

(***************************************************************************)
(* A thread that waits for its first group is as good as idle, and what it *)
(* does before that -- its own decisions, the section of the port's other  *)
(* pins -- no other thread notices: a call begins while the others are     *)
(* idle, have given the multiplexer group back, or wait for it between two *)
(* sections of one call.                                                   *)
(***************************************************************************)
Outside(u) == \/ th[u].p = Idle
              \/ Running(u) /\ Step(u).do = "dropmod"
              \/ Running(u) /\ Step(u).do = "acqmux" /\ th[u].late
Enters(t)  == \A u \in scene.crew \ {t} : Outside(u)

(* ... and once it does something of that kind it is not interleaved. *)
Noticed == EepromSteps \cup SelectSteps \cup {"acqmux", "acqmod", "dropmux", "dropmod", "stray"}
Private(t) == th[t].p # Idle /\ (th[t].seq = << >> \/ Step(t).do \notin Noticed)
Turn(t) == \A u \in scene.crew \ {t} : ~Private(u)

Call(t, p) ==
  /\ t \in scene.crew /\ p \in scene.ports /\ th[t].p = Idle /\ known[p] /\ Enters(t)
  /\ \E call \in CallsOf[ThisContext(p)][Cardinality(scene.crew) = 1] :
       /\ LeakyReads \/ module[CageOf(p)] # NoModule \/ ~MayLeak(call.steps)
       /\ Begin(t, p, call, FALSE)
  /\ UNCHANGED << lock, sel, module, page, off, hp, drv, known, asked, hurt, scene >>

InitModule(t, p, pres) ==
  /\ t \in scene.crew /\ p \in scene.ports /\ th[t].p = Idle /\ ~Calling(p) /\ Enters(t)
  /\ pres = (module[CageOf(p)] # NoModule) /\ known[p] # pres
  /\ \E call \in InitsOf[ThisContext(p)][pres] : Begin(t, p, call, TRUE)
  /\ known' = [known EXCEPT ![p] = FALSE]
  /\ UNCHANGED << lock, sel, module, page, off, hp, drv, asked, hurt, scene >>

(***************************************************************************)
(* sdi_qsfp_module_select, sdi_sfp_module_select and the pin accesses: a   *)
(* group that the port does not have costs nothing.                        *)
(***************************************************************************)
Acquire(t) ==
  /\ Running(t) /\ Turn(t) /\ Step(t).do \in AcquireSteps
  /\ IF GroupOf(t) = NoGroup THEN UNCHANGED lock
     ELSE lock[GroupOf(t)] = Free /\ lock' = [lock EXCEPT ![GroupOf(t)] = t]
  /\ Proceed(t, Succeeded(t))
  /\ UNCHANGED << sel, module, page, off, hp, drv, known, asked, hurt, scene >>

Select(t) ==
  /\ Running(t) /\ Turn(t) /\ Step(t).do \in SelectSteps
  /\ sel' = IF GroupOf(t) = NoGroup THEN sel ELSE [sel EXCEPT ![GroupOf(t)] = Module(t)]
  /\ Proceed(t, Succeeded(t))
  /\ UNCHANGED << lock, module, page, off, hp, drv, known, asked, hurt, scene >>

(* Nothing stays taken when a group cannot be acquired or written. *)
SelectFails(t) ==
  /\ Running(t) /\ Turn(t) /\ Step(t).do \in AcquireSteps \cup SelectSteps /\ GroupOf(t) # NoGroup
  /\ Release(t)
  /\ Proceed(t, Failed(t))
  /\ UNCHANGED << sel, module, page, off, hp, drv, known, asked, hurt, scene >>

Deselect(t) ==
  /\ Running(t) /\ Turn(t) /\ Step(t).do \in DropSteps
  /\ lock' = IF GroupOf(t) = NoGroup THEN lock ELSE [lock EXCEPT ![GroupOf(t)] = Free]
  /\ Proceed(t, [th[t] EXCEPT !.seq = Tail(@), !.late = TRUE])
  /\ UNCHANGED << sel, module, page, off, hp, drv, known, asked, hurt, scene >>

(***************************************************************************)
(* An access that succeeds, and what it does to the module.  A transmitter *)
(* register is written back as it was read; the serdes is a register of    *)
(* its own.                                                                *)
(***************************************************************************)
Switched(set, n) == IF n > 0 THEN set \ {n} ELSE set \cup {-n}
OffAfter(t, k) ==
  LET n == Step(t).n
  IN CASE Step(t).do = "writetx" /\ n \in {Serdes, -Serdes} -> Switched(off[k], n)
       [] Step(t).do = "writetx" -> Switched(th[t].buf \ {Serdes}, n) \cup (off[k] \cap {Serdes})
       [] Step(t).do = "txpin" -> Switched(off[k], n)
       [] OTHER -> off[k]
DrvAfter(t, d, f, m) ==
  CASE Step(t).do = "identify" -> [d EXCEPT !.qsa = @ \/ "sfp" \in f, !.dd = GetCategory(f)]
    [] Step(t).do = "learnversion" -> [d EXCEPT !.ver = IF "ver3" \in f THEN 3 ELSE IF "ver2" \in f THEN 2 ELSE 0]
    [] Step(t).do = "learnpower" -> [d EXCEPT !.mw = PowerOf[m], !.soft = "soft" \in f]
    [] OTHER -> d

Access(t) ==
  /\ Running(t) /\ Turn(t)
  /\ LET k == Module(t)  p == th[t].p  s == Step(t)
     IN /\ s.do \in PinSteps \/ (s.do \in EepromSteps /\ module[k] # NoModule)
        /\ page' = IF s.do = "page" THEN [page EXCEPT ![k] = s.n] ELSE page
        /\ hurt' = IF s.do = "page" /\ s.n = 0 THEN [hurt EXCEPT ![k] = FALSE] ELSE hurt
        /\ off' = IF module[k] = NoModule THEN off ELSE [off EXCEPT ![k] = OffAfter(t, k)]
        /\ hp' = IF s.do = "power" THEN [hp EXCEPT ![k] = (s.n = 1)] ELSE hp
        /\ drv' = IF s.do \in {"identify", "learnversion", "learnpower"}
                  THEN [drv EXCEPT ![p] = DrvAfter(t, @, Facts(k, module), module[k])] ELSE drv
        /\ Proceed(t, [Succeeded(t) EXCEPT !.buf = IF s.do \in {"readtx", "readserdes"} THEN off[k] ELSE @])
  /\ UNCHANGED << lock, sel, module, known, asked, scene >>

(* The serdes of an external controller may then stand either way. *)
AccessFails(t) ==
  /\ Running(t) /\ Turn(t) /\ Step(t).do \in EepromSteps \cup PinSteps
  /\ LeakyReads \/ ~Leaks(Step(t))
  /\ hurt' = IF Step(t).do \in {"page", "pgread"} THEN [hurt EXCEPT ![Module(t)] = TRUE] ELSE hurt
  /\ asked' = [asked EXCEPT ![Module(t)] = @ \ {Serdes, -Serdes}]
  /\ Proceed(t, Failed(t))
  /\ UNCHANGED << lock, sel, module, page, off, hp, drv, known, scene >>

(***************************************************************************)
(* Whether the module has pages, asked without selecting it: the answer is *)
(* the one of whatever module the lines select at that moment, and no when *)
(* the question fails.                                                     *)
(***************************************************************************)
Selected(k) == \E p \in Ports : /\ CageOf(p) = k
                                /\ \A g \in {Port[p].mux, Port[p].mod} \ {NoGroup} : sel[g] = k
Stray(t) ==
  /\ Running(t) /\ Turn(t) /\ Step(t).do = "stray"
  /\ \E paged \in BOOLEAN :
       /\ paged => \E k \in Cages : Selected(k) /\ module[k] # NoModule /\ "flat" \notin Facts(k, module)
       /\ Proceed(t, [th[t] EXCEPT !.seq = IF paged THEN Tail(@) ELSE Drop(Tail(@), Step(t).skip),
                                   !.astray = ~paged /\ "flat" \notin Facts(Module(t), module)])
  /\ UNCHANGED << lock, sel, module, page, off, hp, drv, known, asked, hurt, scene >>

(***************************************************************************)
(* Steps without access.                                                   *)
(***************************************************************************)
Decide(t) ==
  /\ Running(t) /\ Turn(t) /\ Step(t).do \in {"check", "refused", "jump", "wason", "done"}
  /\ LET s == Step(t)
         leave == \/ s.do \in {"refused", "jump", "done"}
                  \/ s.do = "check" /\ th[t].rc = "err"
                  \/ s.do = "wason" /\ Serdes \in th[t].buf
         far == CASE s.do = "jump" -> s.n [] s.do = "done" -> Everything [] OTHER -> s.skip
     IN Proceed(t, [th[t] EXCEPT !.seq = IF leave THEN Drop(Tail(@), far) ELSE Tail(@),
                                 !.rc = IF s.do = "refused" THEN "err" ELSE @])
  /\ UNCHANGED << lock, sel, module, page, off, hp, drv, known, asked, hurt, scene >>

Note(t) ==
  /\ Running(t) /\ Turn(t) /\ Step(t).do \in {"asked", "forgetpower", "forgetversion", "absent"}
  /\ LET s == Step(t)  k == Module(t)
     IN /\ asked' = IF s.do = "asked" /\ module[k] # NoModule THEN [asked EXCEPT ![k] = (@ \ {-s.n}) \cup {s.n}] ELSE asked
        /\ drv' = [drv EXCEPT ![th[t].p] =
             CASE s.do = "forgetpower" -> [@ EXCEPT !.mw = -1, !.soft = FALSE]
               [] s.do = "forgetversion" -> [@ EXCEPT !.ver = 0]
               [] s.do = "absent" -> [@ EXCEPT !.qsa = FALSE]
               [] OTHER -> @]
  /\ Proceed(t, [th[t] EXCEPT !.seq = Tail(@)])
  /\ UNCHANGED << lock, sel, module, page, off, hp, known, hurt, scene >>

(***************************************************************************)
(* The call returns.  After an error a tunable SFP may be left on its      *)
(* tuning page.                                                            *)
(***************************************************************************)
Finish(t) ==
  /\ th[t].p # Idle /\ th[t].seq = << >>
  /\ LET k == Module(t)  bad == th[t].rc = "err"
     IN /\ hurt' = [hurt EXCEPT ![k] = @ \/ (bad /\ page[k] # 0 /\ "tunable" \in Facts(k, module))]
        /\ known' = IF th[t].init THEN [known EXCEPT ![th[t].p] = (module[k] # NoModule)] ELSE known
  /\ th' = [th EXCEPT ![t] = Rest]
  /\ UNCHANGED << lock, sel, module, page, off, hp, drv, asked, scene >>

Insert(k, m) ==
  /\ module[k] = NoModule
  /\ \A p \in Ports : CageOf(p) = k => ~known[p] /\ ~Calling(p)
  /\ module' = [module EXCEPT ![k] = m]
  /\ UNCHANGED << th, lock, sel, page, off, hp, drv, known, asked, hurt, scene >>

Remove(k) ==
  /\ scene.pulls /\ module[k] # NoModule
  /\ LeakyReads \/ \A t \in Threads : th[t].p # Idle /\ Module(t) = k => ~MayLeak(th[t].seq)
  /\ module' = [module EXCEPT ![k] = NoModule]
  /\ page' = [page EXCEPT ![k] = 0]
  /\ off' = [off EXCEPT ![k] = {}]
  /\ hp' = [hp EXCEPT ![k] = FALSE]
  /\ asked' = [asked EXCEPT ![k] = {}]
  /\ hurt' = [hurt EXCEPT ![k] = FALSE]
  /\ UNCHANGED << th, lock, sel, drv, known, scene >>

Next ==
  \/ \E t \in Threads :
       \/ Acquire(t) \/ Select(t) \/ SelectFails(t) \/ Deselect(t) \/ Access(t) \/ AccessFails(t)
       \/ Stray(t) \/ Decide(t) \/ Note(t) \/ Finish(t)
       \/ \E p \in Ports : Call(t, p) \/ \E pres \in BOOLEAN : InitModule(t, p, pres)
  \/ \E k \in Cages : Remove(k) \/ \E m \in scene.fits[k] : Insert(k, m)

Spec == Init /\ [][Next]_vars

-----------------------------------------------------------------------------
TypeOK ==
  /\ \A t \in Threads : /\ th[t].p \in Ports \cup {Idle}
                        /\ th[t].rc \in {"ok", "err"}
                        /\ th[t].buf \subseteq Lanes
  /\ lock \in [Groups -> Threads \cup {Free}]
  /\ sel \in [Groups -> Cages \cup {Free}]
  /\ module \in [Cages -> Modules \cup {NoModule}]
  /\ page \in [Cages -> {0, 2, 3, 16} \cup (GenericPages \ {Ignore, Invalid})]
  /\ off \in [Cages -> SUBSET Lanes]
  /\ drv \in [Ports -> Drivers]

(***************************************************************************)
(* Every access to a module reaches the module in the cage of the port     *)
(* that was called: the groups still point there, whatever other threads   *)
(* and sub-ports have done since they were written                         *)
(* (sdi_qsfp_module_select, sdi_sfp_module_select).                        *)
(***************************************************************************)
OwnModule ==
  \A t \in Threads : Running(t) /\ Step(t).do \in EepromSteps =>
    \A g \in {Port[th[t].p].mux, Port[th[t].p].mod} \ {NoGroup} : lock[g] = t /\ sel[g] = Module(t)

(***************************************************************************)
(* A register above 127 is accessed while its page is selected, although   *)
(* other operations, of other threads and of the other sub-port, select    *)
(* pages of the same module (sdi_qsfp_page_select, sdi_sfp_page_select).   *)
(* Left out is the generic access to a page above 0 whose question for     *)
(* pages failed or was answered by another module: it means that page and  *)
(* reaches page 0 (sdi_qsfp_read_generic, sdi_qsfp_write_generic).         *)
(***************************************************************************)
RightPage ==
  \A t \in Threads : Running(t) /\ Step(t).do \in {"read", "write", "learnpower"} /\ Step(t).n >= 0 =>
    LET k == Module(t)
        means == IF th[t].astray THEN 0 ELSE Step(t).n
    IN page[k] = means \/ hurt[k] \/ module[k] = NoModule \/ "flat" \in Facts(k, module)

(***************************************************************************)
(* Between calls page 0 is selected, unless the step that selects it       *)
(* failed: the next caller reads it without asking                         *)
(* (sdi_qsfp_threshold_get, sdi_qsfp_write_generic, datapath power up).    *)
(***************************************************************************)
PageRestored ==
  \A k \in Cages : (\A t \in Threads : th[t].p # Idle => Module(t) # k) => page[k] = 0 \/ hurt[k]

(***************************************************************************)
(* A call that returned holds no pin group, whichever of its steps failed  *)
(* and wherever the code left its blocks (sdi_qsfp_module_deselect).       *)
(***************************************************************************)
LocksReturned == \A t \in Threads : th[t].p = Idle => \A g \in Groups : lock[g] # t

(***************************************************************************)
(* The section from select to deselect belongs to one port: inside it the  *)
(* accesses reach the port's own module, and when the call is over nothing *)
(* of it is left locked (sdi_qsfp_module_select, sdi_qsfp_module_deselect).*)
(***************************************************************************)
SlotOwned == TypeOK /\ OwnModule /\ LocksReturned

(***************************************************************************)
(* Every register is accessed on its page, by operations that select one   *)
(* and by those that rely on page 0 having been selected by the last one.  *)
(***************************************************************************)
PagesRight == RightPage /\ PageRestored

(***************************************************************************)
(* A call that returns success lost none of its accesses: no later         *)
(* assignment hides an earlier error, except in the operations listed in   *)
(* LaxCalls.                                                               *)
(***************************************************************************)
HonestResult ==
  \A t \in Threads : th[t].p # Idle /\ th[t].seq = << >> /\ th[t].rc = "ok" => ~th[t].lost

(***************************************************************************)
(* A transmitter is as the last successful request for it left it: no      *)
(* request for another channel, other sub-port or other thread writes it   *)
(* back, and a rate set gives the serdes back                              *)
(* (sdi_qsfp_tx_control, sdi_sfp_tx_control, sdi_media_aq_set_rate).       *)
(***************************************************************************)
TxAsDone ==
  \A k \in Cages : (\A t \in Threads : th[t].p # Idle => Module(t) # k) =>
    \A n \in asked[k] : IF n > 0 THEN n \notin off[k] ELSE -n \in off[k]

(***************************************************************************)
(* The high power class is enabled only in a module the cage can supply,   *)
(* also when the module was exchanged for another one, provided that the   *)
(* drivers that control its class have learned it: module_init drops what  *)
(* was learned of the last module only once it has selected and identified *)
(* the new one (sdi_qsfp_module_control, sdi_qsfp_module_init).            *)
(***************************************************************************)
Learned(k) == \A p \in Ports : CageOf(p) = k /\ drv[p].soft => drv[p].mw = PowerOf[module[k]]
PowerWithinBudget ==
  \A p \in Ports :
    LET k == CageOf(p)
    IN hp[k] /\ module[k] # NoModule /\ Learned(k) => PowerOf[module[k]] <= Port[p].mw
=============================================================================
