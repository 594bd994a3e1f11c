---------------------------- MODULE MC_CpldPins ----------------------------
(***************************************************************************)
(* CPLD layouts for the runs of CpldPins: bytes of six bits, and a list    *)
(* of lines that each run takes some of.                                   *)
(***************************************************************************)
EXTENDS CpldPins, TLC

CONSTANTS t1, t2

OneThread  == {t1}
TwoThreads == {t1, t2}

Regs    == 0 .. 4
AllZero == [a \in Regs |-> {}]
Mixed   == {[a \in Regs |-> {0, 3}]}
Dark    == {AllZero}

\* line: start_addr, end_addr, start_offset, end_offset, inverted
Plan == [
  word  |-> <<0, 1, 0, 1, TRUE>>,    \* two registers, upwards; shares register 1
  pair  |-> <<1, 1, 2, 3, TRUE>>,    \*   with these three
  pin   |-> <<1, 1, 4, 4, FALSE>>,
  sense |-> <<1, 1, 5, 5, FALSE>>,   \* an input pin
  tail  |-> <<1, 1, 3, 3, FALSE>>,   \* a group of one bit of register 1
  bus   |-> <<4, 2, 0, 2, FALSE>>,   \* three registers, downwards
  shift |-> <<2, 3, 1, 1, FALSE>>]   \* two registers, from bit 1 of the first

Field(n)  == [l \in DOMAIN Plan |-> Plan[l][n]]
PlanStart == Field(1)
PlanEnd   == Field(2)
PlanFrom  == Field(3)
PlanTo    == Field(4)
PlanInv   == Field(5)
Inputs    == {"sense"}
NoLine    == {}

\* One thread has the lines of register 1; both have the bus, which shares no
\* register.
Apart   == [t \in {t1, t2} |-> IF t = t1 THEN {"word", "pair", "pin", "sense", "bus"}
                                         ELSE {"bus"}]
AnyLine == [t \in {t1, t2} |-> {"pin", "tail"}]
Shifted == [t \in {t1} |-> {"shift"}]

\* Levels as wide as the line.
Fits == [word |-> {{1, 6}}, pair |-> {{1}}, pin |-> {{0}}, sense |-> {{0}},
         tail |-> {{0}}, bus |-> {{0, 7, 13}, {2, 11, 14}}, shift |-> {{5}, {6}}]
=============================================================================
