------------------------------ MODULE CpldPins ------------------------------
(***************************************************************************)
(* Pins and pin groups of one CPLD: read_level and write_level of          *)
(* sdi_cpld_pin.c and sdi_cpld_pin_group.c, called by threads that hold    *)
(* the lock of the pin or of the group.  The driver reads and writes whole *)
(* registers, one bus access after the other, and has no lock for the CPLD *)
(* or for a register.                                                      *)
(*                                                                         *)
(* A register, a level and every intermediate of the C code is the set of  *)
(* the bits that are 1.  A pin is a line of one bit.                       *)
(***************************************************************************)
EXTENDS Integers

CONSTANTS
  Thread,
  Line,       \* the pins and pin groups
  Uses,       \* Uses[t]: the lines that thread t reads and writes
  StartAddr, EndAddr, StartOffset, EndOffset, Inverted,  \* of a line
  InputPin,   \* the pins of direction input; a group has no such guard
  Width,      \* BITS_PER_BYTE
  Address,    \* the registers of the CPLD
  PowerOn,    \* what the registers may hold when the calls begin
  Level,      \* Level[l]: the levels that callers write to line l
  Fault,      \* what may fail: "lock", "bus"
  NoThread, NoLevel

Bit == 0 .. Width - 1

\* length: registers of a line; the address of its k-th register.
Length(l) == IF StartAddr[l] > EndAddr[l] THEN StartAddr[l] - EndAddr[l] + 1
                                          ELSE EndAddr[l] - StartAddr[l] + 1
Offset(l, k) == IF StartAddr[l] >= EndAddr[l] THEN StartAddr[l] - k ELSE StartAddr[l] + k

\* How many bits a line has.
Size(l) == (Length(l) - 1) * Width + EndOffset[l] - StartOffset[l] + 1

ASSUME LineAssumption ==
  /\ Width \in Nat \ {0}
  /\ \A l \in Line : /\ StartAddr[l] \in Nat /\ EndAddr[l] \in Nat
                     /\ \A k \in 0 .. Length(l) - 1 : Offset(l, k) \in Address
                     /\ StartOffset[l] \in Bit /\ EndOffset[l] \in Bit
                     /\ Length(l) = 1 => StartOffset[l] <= EndOffset[l]
                     /\ Inverted[l] \in BOOLEAN
                     /\ Level[l] \subseteq SUBSET Nat /\ NoLevel \notin Level[l]
  /\ InputPin \subseteq Line
  /\ Uses \in [Thread -> SUBSET Line]
  /\ PowerOn \subseteq [Address -> SUBSET Bit]
  /\ NoThread \notin Thread
  /\ Fault \subseteq {"lock", "bus"}

VARIABLES
  regs,   \* regs[a]: the bits of register a
  lock,   \* lock[l]: the owner of the lock of line l
  pc, line, op, rc,
  k,      \* k[t]: the register of the line under way
  data,   \* data[t]: the level to be written
  buffer, \* buffer[t]: the register as read
  level,  \* level[t]: the level read so far
  stands  \* history: stands[l]: the level last written to l, or NoLevel when
          \* none was or a write is not, or not fully, done

locals == <<pc, line, op, rc, k, data, buffer, level>>
vars   == <<regs, lock, locals, stands>>

TypeOK ==
  /\ regs \in [Address -> SUBSET Bit]
  /\ lock \in [Line -> Thread \cup {NoThread}]
  /\ pc \in [Thread -> {"idle", "lock", "read", "write", "unlock"}]
  /\ line \in [Thread -> Line]
  /\ op \in [Thread -> {"read", "write"}]
  /\ rc \in [Thread -> {"ok", "err"}]
  /\ k \in [Thread -> Nat]
  /\ \A t \in Thread : k[t] < Length(line[t])
  /\ \A t \in Thread : /\ data[t] \subseteq Nat /\ buffer[t] \subseteq Bit
                       /\ level[t] \subseteq Nat
  /\ \A l \in Line : stands[l] \in Level[l] \cup {NoLevel}

-----------------------------------------------------------------------------
(* Arithmetic on bits.                                                     *)

ShiftLeft(s, n)  == {i + n : i \in s}
ShiftRight(s, n) == {i - n : i \in {j \in s : j >= n}}

\* SDI_CPLD_BIT_MASK and SDI_CPLD_TOGGLE_AND_MASK keep the low bits, as many
\* as there are from start to end.
BitMask(s, start, end)       == s \cap 0 .. (end - start)
ToggleAndMask(s, start, end) == (0 .. (end - start)) \ s

\* Slip: end_bit_offset taken for the last bit of the stream.
SubBitstreamShort(dst, src, start, end) ==
  (dst \ (start .. end)) \cup ShiftLeft(src, start)

\* Slip: the bits are not cleared first.
SubBitstreamOr(dst, src, start, end) == dst \cup ShiftLeft(src, start)

\* sdi_cpld_bit_set_sub_bitstream
SubBitstream(dst, src, start, end) ==
  (dst \ (start .. end - 1)) \cup ShiftLeft(src, start)

\* What register number n of line l adds to the level.
LevelOf(l, n, buf) ==
  LET start == StartOffset[l]
      end   == EndOffset[l]
      Polarised(d, from, to) == IF Inverted[l] THEN ToggleAndMask(d, from, to) ELSE d
  IN  CASE Length(l) = 1 ->
             Polarised(BitMask(ShiftRight(buf, start), start, end), start, end)
        [] Length(l) > 1 /\ n = Length(l) - 1 ->
             Polarised(buf \cap 0 .. end, 0, end)
        [] Length(l) > 1 /\ n = 0 ->
             Polarised(buf, start, Width - 1)
        [] OTHER ->
             Polarised(buf, 0, Width - 1)

\* The register of line l, number n, with the low byte of d in its bits.
RegisterOf(l, n, buf, d) ==
  LET start == StartOffset[l]
      end   == EndOffset[l]
      byte  == d \cap Bit
      Polarised(from, to) == IF Inverted[l] THEN ToggleAndMask(byte, from, to) ELSE byte
  IN  Bit \cap
      CASE Length(l) = 1 ->
             SubBitstream(buf, Polarised(start, end), start, end + 1)
        [] Length(l) > 1 /\ n = 0 ->
             SubBitstream(buf, Polarised(start, Width - 1), start, Width)
        [] Length(l) > 1 /\ n = Length(l) - 1 ->
             SubBitstream(buf, Polarised(0, end), 0, end + 1)
        [] OTHER ->
             SubBitstream(buf, Polarised(0, Width - 1), 0, Width)

-----------------------------------------------------------------------------
Init ==
  /\ regs \in PowerOn
  /\ lock = [l \in Line |-> NoThread]
  /\ pc = [t \in Thread |-> "idle"]
  /\ line \in [Thread -> Line]
  /\ \A t, u \in Thread : line[t] = line[u]
  /\ op = [t \in Thread |-> "read"]
  /\ rc = [t \in Thread |-> "ok"]
  /\ k = [t \in Thread |-> 0]
  /\ data = [t \in Thread |-> {}]
  /\ buffer = [t \in Thread |-> {}]
  /\ level = [t \in Thread |-> {}]
  /\ stands = [l \in Line |-> NoLevel]

Goto(t, p) == pc' = [pc EXCEPT ![t] = p]

\* Slip: the line is not locked.
LockAnyway(t) ==
  /\ pc[t] = "lock"
  /\ lock' = [lock EXCEPT ![line[t]] = t]
  /\ Goto(t, "read")
  /\ stands' = [stands EXCEPT ![line[t]] = IF op[t] = "write" THEN NoLevel ELSE @]
  /\ UNCHANGED <<regs, line, op, rc, k, data, buffer, level>>

\* The locals of a call are gone when it returns.
Return(t) ==
  /\ Goto(t, "idle")
  /\ k' = [k EXCEPT ![t] = 0]
  /\ data' = [data EXCEPT ![t] = {}]
  /\ buffer' = [buffer EXCEPT ![t] = {}]
  /\ level' = [level EXCEPT ![t] = {}]

Start(t, l, o, v) ==
  /\ pc[t] = "idle"
  /\ Goto(t, "lock")
  /\ line' = [line EXCEPT ![t] = l]
  /\ op' = [op EXCEPT ![t] = o]
  /\ data' = [data EXCEPT ![t] = v]
  /\ rc' = [rc EXCEPT ![t] = "ok"]
  /\ UNCHANGED <<regs, lock, k, buffer, level, stands>>

\* sdi_pin_read_level and sdi_pin_write_level lock the pin; callers of a pin
\* group lock it with sdi_pin_group_acquire_bus.
Lock(t) ==
  LET l       == line[t]
      refused == op[t] = "write" /\ l \in InputPin
  IN  /\ pc[t] = "lock"
      /\ lock[l] = NoThread
      /\ lock' = [lock EXCEPT ![l] = t]
      /\ Goto(t, IF refused THEN "unlock" ELSE "read")
      /\ rc' = [rc EXCEPT ![t] = IF refused THEN "err" ELSE "ok"]
      /\ stands' = [stands EXCEPT ![l] = IF op[t] = "write" /\ ~refused THEN NoLevel ELSE @]
      /\ UNCHANGED <<regs, line, op, k, data, buffer, level>>

LockFails(t) ==
  /\ "lock" \in Fault
  /\ pc[t] = "lock"
  /\ Return(t)
  /\ rc' = [rc EXCEPT ![t] = "err"]
  /\ UNCHANGED <<regs, lock, line, op, stands>>

\* Slip: one register too many.
LastRegisterLate(t) == k[t] = Length(line[t])

LastRegister(t) == k[t] + 1 = Length(line[t])

\* A register is read, to be modified.
ReadToModify(t) ==
  /\ pc[t] = "read" /\ op[t] = "write"
  /\ buffer' = [buffer EXCEPT ![t] = regs[Offset(line[t], k[t])]]
  /\ Goto(t, "write")
  /\ UNCHANGED <<regs, lock, line, op, rc, k, data, level, stands>>

\* A register is read, as a part of the level.
ReadToReport(t) ==
  LET l     == line[t]
      reg   == regs[Offset(l, k[t])]
      soFar == level[t] \cup ShiftLeft(LevelOf(l, k[t], reg), k[t] * Width)
  IN  /\ pc[t] = "read" /\ op[t] = "read"
      /\ \/ /\ ~LastRegister(t)
            /\ level' = [level EXCEPT ![t] = soFar]
            /\ k' = [k EXCEPT ![t] = @ + 1]
            /\ UNCHANGED pc
         \/ /\ LastRegister(t)
            /\ level' = [level EXCEPT ![t] = IF Length(l) = 1 THEN soFar
                                             ELSE ShiftRight(soFar, StartOffset[l])]
            /\ Goto(t, "unlock")
            /\ UNCHANGED k
      /\ UNCHANGED <<regs, lock, line, op, rc, data, buffer, stands>>

Modified(t) == RegisterOf(line[t], k[t], buffer[t], ShiftRight(data[t], k[t] * Width))

\* The modified register is written back.
Write(t) ==
  /\ pc[t] = "write"
  /\ regs' = [regs EXCEPT ![Offset(line[t], k[t])] = Modified(t)]
  /\ \/ /\ ~LastRegister(t)
        /\ k' = [k EXCEPT ![t] = @ + 1] /\ Goto(t, "read")
     \/ /\ LastRegister(t)
        /\ Goto(t, "unlock") /\ UNCHANGED k
  /\ UNCHANGED <<lock, line, op, rc, data, buffer, level, stands>>

\* A bus access fails; a failed write may have reached the register.
AccessFails(t) ==
  /\ "bus" \in Fault
  /\ pc[t] \in {"read", "write"}
  /\ \/ UNCHANGED regs
     \/ /\ pc[t] = "write"
        /\ regs' = [regs EXCEPT ![Offset(line[t], k[t])] = Modified(t)]
  /\ rc' = [rc EXCEPT ![t] = "err"]
  /\ Goto(t, "unlock")
  /\ UNCHANGED <<lock, line, op, k, data, buffer, level, stands>>

\* The caller unlocks; a level that was written stands from here on.
Unlock(t) ==
  /\ pc[t] = "unlock"
  /\ lock' = [lock EXCEPT ![line[t]] = NoThread]
  /\ Return(t)
  /\ stands' = [stands EXCEPT ![line[t]] =
                  IF op[t] = "write" /\ rc[t] = "ok" THEN data[t] ELSE @]
  /\ UNCHANGED <<regs, line, op, rc>>

Next == \E t \in Thread :
  \/ \E l \in Uses[t] : Start(t, l, "read", {})
  \/ \E l \in Uses[t] : \E v \in Level[l] : Start(t, l, "write", v)
  \/ Lock(t) \/ LockFails(t)
  \/ ReadToModify(t) \/ ReadToReport(t) \/ Write(t) \/ AccessFails(t)
  \/ Unlock(t)

Spec == Init /\ [][Next]_vars

-----------------------------------------------------------------------------
(* The reference: the bits of a line, in the order of the level's bits,    *)
(* are those from StartOffset of the first register to EndOffset of the    *)
(* last one.                                                               *)

BitOf(l, i)     == <<Offset(l, (StartOffset[l] + i) \div Width), (StartOffset[l] + i) % Width>>
BitsOf(l)       == {BitOf(l, i) : i \in 0 .. Size(l) - 1}
IsOne(bit)      == bit[2] \in regs[bit[1]]
LevelOnLine(l)  == {i \in 0 .. Size(l) - 1 : IsOne(BitOf(l, i)) # Inverted[l]}

\* A step changes no bit of a register but the bits of the line whose write is
\* under way (the read-modify-write of sdi_cpld_pin_write_level and of
\* sdi_cpld_pin_group_write_level).
OwnBitsOnly ==
  [][\A a \in Address, b \in Bit :
       (b \in regs[a]) # (b \in regs'[a]) =>
         \E t \in Thread : /\ pc[t] = "write" /\ pc'[t] # "write"
                           /\ <<a, b>> \in BitsOf(line[t])]_vars

\* A level whose write was reported done is the level of the line until the
\* next write to that line, whatever else is written to the CPLD.
LastWriteStands ==
  \A l \in Line : stands[l] # NoLevel => LevelOnLine(l) = stands[l]

\* A read that ends without an error has the level the line has at that time,
\* all its registers together.
ReadsWhatIs ==
  \A t \in Thread : pc[t] = "unlock" /\ op[t] = "read" /\ rc[t] = "ok"
                      => level[t] = LevelOnLine(line[t])
=============================================================================
