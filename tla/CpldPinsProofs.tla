--------------------------- MODULE CpldPinsProofs ---------------------------
(***************************************************************************)
(* Theorems about CpldPins for every layout of lines, width of registers   *)
(* and number of threads.                                                  *)
(***************************************************************************)
EXTENDS CpldPins, TLAPS

-----------------------------------------------------------------------------
(* Bits and registers.                                                     *)

LEMMA DivMod ==
  ASSUME NEW W \in Nat \ {0}, NEW n \in Nat, NEW b \in 0 .. W - 1
  PROVE  (n * W + b) \div W = n /\ (n * W + b) % W = b
OBVIOUS

LEMMA Product ==
  ASSUME NEW W \in Nat, NEW m \in Nat, NEW n \in Nat, m <= n
  PROVE  m * W \in Nat /\ n * W \in Nat /\ m * W <= n * W
OBVIOUS

LEMMA ProductNext ==
  ASSUME NEW W \in Nat, NEW m \in Nat
  PROVE  (m + 1) * W = m * W + W
OBVIOUS

LEMMA LineType ==
  ASSUME NEW l \in Line
  PROVE  /\ Length(l) \in Nat \ {0} /\ StartOffset[l] \in Bit /\ EndOffset[l] \in Bit
         /\ Width \in Nat \ {0} /\ Inverted[l] \in BOOLEAN
         /\ Length(l) = 1 => StartOffset[l] <= EndOffset[l]
         /\ \A n \in 0 .. Length(l) - 1 : Offset(l, n) \in Address
BY LineAssumption DEF Length

\* Which bit of the line a bit of its registers is.
LEMMA LinePosition ==
  ASSUME NEW l \in Line, NEW n \in 0 .. Length(l) - 1, NEW b \in Bit,
         n = 0 => b >= StartOffset[l], n = Length(l) - 1 => b <= EndOffset[l]
  PROVE  /\ n * Width + b - StartOffset[l] \in 0 .. Size(l) - 1
         /\ BitOf(l, n * Width + b - StartOffset[l]) = <<Offset(l, n), b>>
<1> DEFINE L == Length(l)
           s == StartOffset[l]
           e == EndOffset[l]
           W == Width
           i == n * W + b - s
<1>0. /\ L \in Nat \ {0} /\ W \in Nat \ {0} /\ s \in 0 .. W - 1 /\ e \in 0 .. W - 1
      /\ b \in 0 .. W - 1 /\ n \in Nat /\ n <= L - 1 /\ L - 1 \in Nat
  BY LineType DEF Bit
<1> HIDE DEF L, s, e, W
<1>1. n * W \in Nat /\ (L - 1) * W \in Nat
  BY <1>0, Product
<1>2. n # 0 => W <= n * W
  <2>1. n # 0 => 1 <= n /\ 1 * W = W
    BY <1>0
  <2> QED BY <1>0, <2>1, Product
<1>3. i \in Nat
  <2>1. CASE n = 0
    BY <1>0, <1>1, <2>1 DEF s
  <2>2. CASE n # 0
    BY <1>0, <1>1, <1>2, <2>2
  <2> QED BY <2>1, <2>2
<1>4. i <= (L - 1) * W + e - s
  <2>1. CASE n = L - 1
    BY <1>0, <1>1, <2>1 DEF e, L
  <2>2. CASE n # L - 1
    <3>1. n + 1 <= L - 1 /\ n + 1 \in Nat
      BY <1>0, <2>2
    <3>2. n * W + W <= (L - 1) * W
      BY <1>0, <3>1, Product, ProductNext
    <3> QED BY <1>0, <1>1, <3>2
  <2> QED BY <2>1, <2>2
<1>5. Size(l) - 1 = (L - 1) * W + e - s
  <2>1. Size(l) = (L - 1) * W + e - s + 1
    BY DEF Size, L, W, s, e
  <2> QED BY <1>0, <1>1, <2>1
<1>6. i \in 0 .. Size(l) - 1
  BY <1>0, <1>1, <1>3, <1>4, <1>5
<1>7. s + i = n * W + b
  BY <1>0, <1>1
<1>8. (s + i) \div W = n /\ (s + i) % W = b
  BY <1>0, <1>7, DivMod
<1>9. BitOf(l, i) = <<Offset(l, n), b>>
  BY <1>8 DEF BitOf, s, W
<1> QED BY <1>6, <1>9 DEF s, W

\* The bits from the first of the first register to the last of the last one
\* are bits of the line.
LEMMA InLine ==
  ASSUME NEW l \in Line, NEW n \in 0 .. Length(l) - 1, NEW b \in Bit,
         n = 0 => b >= StartOffset[l], n = Length(l) - 1 => b <= EndOffset[l]
  PROVE  <<Offset(l, n), b>> \in BitsOf(l)
BY LinePosition DEF BitsOf

\* A modified register differs in bits of the line only, if the level is not
\* wider than the line.
LEMMA RegisterBits ==
  ASSUME NEW l \in Line, NEW n \in 0 .. Length(l) - 1, NEW buf \in SUBSET Bit,
         NEW v \in SUBSET (0 .. Size(l) - 1), NEW b \in Bit,
         (b \in buf) # (b \in RegisterOf(l, n, buf, ShiftRight(v, n * Width)))
  PROVE  <<Offset(l, n), b>> \in BitsOf(l)
<1> DEFINE L == Length(l)
           s == StartOffset[l]
           e == EndOffset[l]
           W == Width
           d == ShiftRight(v, n * W)
           byte == d \cap Bit
<1>0. /\ L \in Nat \ {0} /\ W \in Nat \ {0} /\ s \in 0 .. W - 1 /\ e \in 0 .. W - 1
      /\ b \in 0 .. W - 1 /\ n \in Nat /\ n <= L - 1 /\ Bit = 0 .. W - 1
      /\ (L = 1 => s <= e) /\ Inverted[l] \in BOOLEAN
  BY LineType DEF Bit
<1>d. \A x \in byte : x \in Nat /\ x <= W - 1 /\ (n = L - 1 => x <= e - s)
  <2> SUFFICES ASSUME NEW x \in byte
               PROVE  x \in Nat /\ x <= W - 1 /\ (n = L - 1 => x <= e - s)
    OBVIOUS
  <2>1. x \in 0 .. W - 1
    BY <1>0
  <2>2. PICK y \in v : y >= n * W /\ x = y - n * W
    BY DEF ShiftRight
  <2>3. Size(l) - 1 = (L - 1) * W + e - s /\ (L - 1) * W \in Nat
    <3>1. Size(l) = (L - 1) * W + e - s + 1
      BY DEF Size
    <3>2. (L - 1) * W \in Nat
      BY <1>0, Product
    <3> HIDE DEF L, W, e, s
    <3> QED BY <1>0, <3>1, <3>2
  <2>4. y \in Nat /\ y <= Size(l) - 1
    <3>1. Size(l) - 1 \in Int
      BY <1>0, <2>3
    <3> QED BY <3>1
  <2>5. n = L - 1 => x <= e - s
    <3> HIDE DEF L, W, e, s
    <3> QED BY <1>0, <2>2, <2>3, <2>4
  <2> QED BY <1>0, <2>1, <2>5
<1> DEFINE P(from, to) == IF Inverted[l] THEN ToggleAndMask(byte, from, to) ELSE byte
<1>p. ASSUME NEW from \in 0 .. W - 1, NEW to \in 0 .. W - 1, NEW x \in P(from, to)
      PROVE  x \in Nat /\ (x <= to - from \/ x \in byte)
  BY <1>0, <1>d, <1>p DEF ToggleAndMask
<1> HIDE DEF byte, d
<1>1. CASE L = 1
  <2>1. RegisterOf(l, n, buf, d) = Bit \cap SubBitstream(buf, P(s, e), s, e + 1)
    BY <1>1 DEF RegisterOf, byte
  <2>2. n = 0 /\ n = L - 1
    BY <1>0, <1>1
  <2>3. \A x \in P(s, e) : x \in Nat /\ x <= e - s
    BY <1>0, <1>d, <1>p, <2>2
  <2>4. b >= s /\ b <= e
    <3> HIDE DEF P
    <3>1. (b \in buf) # (b \in SubBitstream(buf, P(s, e), s, e + 1))
      BY <2>1 DEF d
    <3>2. CASE b \in s .. (e + 1) - 1
      BY <1>0, <3>2
    <3>3. CASE b \in ShiftLeft(P(s, e), s)
      BY <1>0, <2>3, <3>3 DEF ShiftLeft
    <3> DEFINE cleared == s .. (e + 1) - 1
               put == ShiftLeft(P(s, e), s)
    <3>c. SubBitstream(buf, P(s, e), s, e + 1) = (buf \ cleared) \cup put
      BY DEF SubBitstream
    <3>b. b \in cleared \/ b \in put
      <4> HIDE DEF cleared, put
      <4> QED BY <3>1, <3>c
    <3> QED BY <3>2, <3>3, <3>b
  <2> QED BY <2>4, InLine
<1>2. CASE L > 1 /\ n = 0
  <2>1. RegisterOf(l, n, buf, d) = Bit \cap SubBitstream(buf, P(s, W - 1), s, W)
    BY <1>0, <1>2 DEF RegisterOf, byte
  <2>2. b >= s
    <3>0. W - 1 \in 0 .. W - 1
      BY <1>0
    <3>1. \A x \in P(s, W - 1) : x \in Nat
      BY <1>0, <1>p, <3>0
    <3> HIDE DEF P
    <3>2. (b \in buf) # (b \in SubBitstream(buf, P(s, W - 1), s, W))
      BY <2>1 DEF d
    <3>3. CASE b \in s .. W - 1
      BY <1>0, <3>3
    <3>4. CASE b \in ShiftLeft(P(s, W - 1), s)
      BY <1>0, <3>1, <3>4 DEF ShiftLeft
    <3> QED BY <3>2, <3>3, <3>4 DEF SubBitstream
  <2>3. n # L - 1
    BY <1>0, <1>2
  <2> QED BY <2>2, <2>3, InLine
<1>3. CASE L > 1 /\ n # 0 /\ n = L - 1
  <2>1. RegisterOf(l, n, buf, d) = Bit \cap SubBitstream(buf, P(0, e), 0, e + 1)
    BY <1>0, <1>3 DEF RegisterOf, byte
  <2>2. b <= e
    <3>1. \A x \in P(0, e) : x \in Nat /\ x <= e
      BY <1>0, <1>d, <1>p, <1>3
    <3> HIDE DEF P
    <3>2. (b \in buf) # (b \in SubBitstream(buf, P(0, e), 0, e + 1))
      BY <2>1 DEF d
    <3>3. CASE b \in 0 .. (e + 1) - 1
      BY <1>0, <3>3
    <3>4. CASE b \in ShiftLeft(P(0, e), 0)
      BY <1>0, <3>1, <3>4 DEF ShiftLeft
    <3> DEFINE cleared == 0 .. (e + 1) - 1
               put == ShiftLeft(P(0, e), 0)
    <3>c. SubBitstream(buf, P(0, e), 0, e + 1) = (buf \ cleared) \cup put
      BY DEF SubBitstream
    <3>b. b \in cleared \/ b \in put
      <4> HIDE DEF cleared, put
      <4> QED BY <3>2, <3>c
    <3> QED BY <3>3, <3>4, <3>b
  <2> QED BY <1>3, <2>2, InLine
<1>4. CASE n # 0 /\ n # L - 1
  BY <1>4, InLine
<1> QED BY <1>0, <1>1, <1>2, <1>3, <1>4

-----------------------------------------------------------------------------
(* The levels of a line.                                                   *)

\* The other way round: where bit number i of a line is.
LEMMA LineBit ==
  ASSUME NEW l \in Line, NEW i \in 0 .. Size(l) - 1
  PROVE  \E n \in 0 .. Length(l) - 1, b \in Bit :
           /\ BitOf(l, i) = <<Offset(l, n), b>>
           /\ i = n * Width + b - StartOffset[l]
           /\ n = 0 => b >= StartOffset[l]
           /\ n = Length(l) - 1 => b <= EndOffset[l]
<1> DEFINE L == Length(l)
           s == StartOffset[l]
           e == EndOffset[l]
           W == Width
           n == (s + i) \div W
           b == (s + i) % W
<1>0. /\ L \in Nat \ {0} /\ W \in Nat \ {0} /\ s \in 0 .. W - 1 /\ e \in 0 .. W - 1
      /\ L - 1 \in Nat
  BY LineType DEF Bit
<1>1. Size(l) = (L - 1) * W + e - s + 1
  BY DEF Size
<1>b. BitOf(l, i) = <<Offset(l, n), b>>
  BY DEF BitOf
<1>c. Bit = 0 .. W - 1
  BY DEF Bit
<1> HIDE DEF L, s, e, W
<1>2. (L - 1) * W \in Nat
  BY <1>0, Product
<1>3. i \in Nat /\ s + i \in Nat /\ s + i <= (L - 1) * W + e
  BY <1>0, <1>1, <1>2
<1>4. n \in Nat /\ b \in 0 .. W - 1 /\ s + i = n * W + b
  BY <1>0, <1>3
<1> HIDE DEF n, b
<1>5. n * W \in Nat
  BY <1>0, <1>4, Product
<1>6. n <= L - 1
  <2> SUFFICES ASSUME L <= n PROVE FALSE
    BY <1>0, <1>4
  <2>1. L * W <= n * W
    BY <1>0, <1>4, Product
  <2>2. ((L - 1) + 1) * W = (L - 1) * W + W
    BY <1>0, ProductNext
  <2>3. L * W = (L - 1) * W + W
    <3>1. (L - 1) + 1 = L
      BY <1>0
    <3> QED BY <2>2, <3>1
  <2> QED BY <1>0, <1>2, <1>3, <1>4, <1>5, <2>1, <2>3
<1>7. n = 0 => b >= s
  <2>1. n = 0 => n * W = 0
    BY <1>0
  <2> QED BY <1>0, <1>3, <1>4, <2>1
<1>8. n = L - 1 => b <= e
  <2>1. n = L - 1 => n * W = (L - 1) * W
    OBVIOUS
  <2> QED BY <1>0, <1>2, <1>3, <1>4, <2>1
<1>9. i = n * W + b - s /\ n \in 0 .. L - 1
  BY <1>0, <1>3, <1>4, <1>5, <1>6
<1> QED BY <1>4, <1>7, <1>8, <1>9, <1>b, <1>c DEF L, s, e, W

\* A bit read through the polarity of its line.
LEMMA Polarity ==
  ASSUME NEW A \in BOOLEAN, NEW inverted \in BOOLEAN
  PROVE  (A # inverted) <=> IF inverted THEN ~A ELSE A
OBVIOUS

\* The driver reads a level right unless the line has several registers, is
\* inverted and does not start at bit 0.
ReadsStraight(l) == Length(l) = 1 \/ StartOffset[l] = 0 \/ ~Inverted[l]

\* It writes a level right if the line has one register or starts at bit 0.
WritesStraight(l) == Length(l) = 1 \/ StartOffset[l] = 0

\* What a register adds to the level, bit by bit.
LEMMA LevelOfBits ==
  ASSUME NEW l \in Line, NEW n \in 0 .. Length(l) - 1, NEW buf \in SUBSET Bit,
         ReadsStraight(l), Length(l) > 1, NEW x
  PROVE  x \in LevelOf(l, n, buf) <=>
           /\ x \in Bit
           /\ n = Length(l) - 1 => x <= EndOffset[l]
           /\ IF Inverted[l] THEN x \notin buf ELSE x \in buf
<1> DEFINE e == EndOffset[l]
           s == StartOffset[l]
           Pol(d, from, to) == IF Inverted[l] THEN ToggleAndMask(d, from, to) ELSE d
<1>0. /\ Length(l) \in Nat /\ s \in Bit /\ e \in Bit /\ Width \in Nat \ {0}
      /\ Bit = 0 .. Width - 1
  BY LineType DEF Bit
<1>1. CASE n = Length(l) - 1
  <2>1. LevelOf(l, n, buf) = Pol(buf \cap 0 .. e, 0, e)
    BY <1>1 DEF LevelOf
  <2> QED BY <1>0, <1>1, <2>1 DEF ToggleAndMask
<1>2. CASE n # Length(l) - 1
  <2>1. LevelOf(l, n, buf) = Pol(buf, IF n = 0 THEN s ELSE 0, Width - 1)
    BY <1>2 DEF LevelOf
  <2>2. Inverted[l] => s = 0
    BY DEF ReadsStraight
  <2>3. CASE Inverted[l]
    <3>1. LevelOf(l, n, buf) = (0 .. Width - 1) \ buf
      BY <1>0, <2>1, <2>2, <2>3 DEF ToggleAndMask
    <3> QED BY <1>0, <1>2, <2>3, <3>1
  <2>4. CASE ~Inverted[l]
    BY <1>0, <1>2, <2>1, <2>4
  <2> QED BY <2>3, <2>4
<1> QED BY <1>1, <1>2

\* The level a read has gathered from the first m registers, as they are now.
Part(l, n)  == ShiftLeft(LevelOf(l, n, regs[Offset(l, n)]), n * Width)
SoFar(l, m) == UNION {Part(l, n) : n \in 0 .. m - 1}
Result(l)   == IF Length(l) = 1 THEN SoFar(l, 1)
                                ELSE ShiftRight(SoFar(l, Length(l)), StartOffset[l])

LEMMA SoFarNext ==
  ASSUME NEW l, NEW m \in Nat
  PROVE  SoFar(l, 0) = {} /\ SoFar(l, m + 1) = SoFar(l, m) \cup Part(l, m)
<1>1. 0 .. (m + 1) - 1 = (0 .. m - 1) \cup {m} /\ 0 .. 0 - 1 = {}
  OBVIOUS
<1> HIDE DEF Part
<1> QED BY <1>1, Zenon DEF SoFar

\* All parts together are the level of the line.
LEMMA ResultRight ==
  ASSUME NEW l \in Line, ReadsStraight(l), regs \in [Address -> SUBSET Bit]
  PROVE  Result(l) = LevelOnLine(l)
<1> DEFINE L == Length(l)
           s == StartOffset[l]
           e == EndOffset[l]
           W == Width
<1>0. /\ L \in Nat \ {0} /\ W \in Nat \ {0} /\ s \in 0 .. W - 1 /\ e \in 0 .. W - 1
      /\ Bit = 0 .. W - 1 /\ Inverted[l] \in BOOLEAN /\ (L = 1 => s <= e)
      /\ \A n \in 0 .. L - 1 : Offset(l, n) \in Address
  BY LineType DEF Bit
<1>r. \A n \in 0 .. L - 1 : regs[Offset(l, n)] \in SUBSET Bit
  BY <1>0
<1>a. ASSUME NEW n \in 0 .. L - 1, NEW b \in Bit
      PROVE  (b \in regs[Offset(l, n)]) # Inverted[l] <=>
               IF Inverted[l] THEN b \notin regs[Offset(l, n)] ELSE b \in regs[Offset(l, n)]
  BY <1>0, Polarity
<1>1. CASE L = 1
  <2> DEFINE buf == regs[Offset(l, 0)]
             low == {x \in 0 .. e - s : IF Inverted[l] THEN s + x \notin buf ELSE s + x \in buf}
  <2>0. buf \in SUBSET Bit /\ 0 \in 0 .. L - 1
    BY <1>0, <1>1, <1>r
  <2>1. LevelOf(l, 0, buf) = low
    <3>1. LevelOf(l, 0, buf) = IF Inverted[l]
             THEN ToggleAndMask(BitMask(ShiftRight(buf, s), s, e), s, e)
             ELSE BitMask(ShiftRight(buf, s), s, e)
      BY <1>1 DEF LevelOf
    <3>2. \A x \in 0 .. e - s : x \in ShiftRight(buf, s) <=> s + x \in buf
      <4> HIDE DEF buf, s, e, W
      <4> QED BY <1>0, <2>0 DEF ShiftRight
    <3> HIDE DEF buf
    <3> QED BY <3>1, <3>2 DEF ToggleAndMask, BitMask
  <2>2. Result(l) = low
    <3>1. 0 .. 1 - 1 = {0} /\ 0 * W = 0
      BY <1>0
    <3>2. Result(l) = ShiftLeft(low, 0)
      BY <1>1, <2>1, <3>1 DEF Result, SoFar, Part
    <3>3. ShiftLeft(low, 0) = low
      <4>1. low \subseteq Int
        OBVIOUS
      <4> HIDE DEF low
      <4> QED BY <4>1 DEF ShiftLeft
    <3> QED BY <3>2, <3>3
  <2>3. Size(l) - 1 = e - s
    BY <1>0, <1>1 DEF Size
  <2>4. ASSUME NEW i \in 0 .. e - s
        PROVE  BitOf(l, i) = <<Offset(l, 0), s + i>> /\ s + i \in Bit
    <3>1. s + i \in 0 .. W - 1
      BY <1>0, <1>1
    <3>2. (s + i) \div W = 0 /\ (s + i) % W = s + i
      <4> DEFINE x == s + i
      <4>0. x \in 0 .. W - 1
        BY <3>1
      <4> HIDE DEF x, s, W
      <4>1. x \div W = 0 /\ x % W = x
        BY <1>0, <4>0
      <4> QED BY <4>1 DEF x
    <3> QED BY <1>0, <3>1, <3>2 DEF BitOf
  <2>5. ASSUME NEW i \in 0 .. e - s
        PROVE  IsOne(BitOf(l, i)) # Inverted[l] <=> i \in low
    BY <2>0, <2>4, <2>5, <1>a DEF IsOne
  <2> HIDE DEF low
  <2>6. low \subseteq 0 .. e - s
    BY DEF low
  <2> QED BY <2>2, <2>3, <2>5, <2>6 DEF LevelOnLine
<1>2. CASE L # 1
  <2> DEFINE one(n, b) == (b \in regs[Offset(l, n)]) # Inverted[l]
  <2>0. L > 1
    BY <1>0, <1>2
  <2>1. ASSUME NEW n \in 0 .. L - 1, NEW x
        PROVE  x \in LevelOf(l, n, regs[Offset(l, n)]) <=>
                 x \in Bit /\ (n = L - 1 => x <= e) /\ one(n, x)
    BY <1>a, <1>r, <2>0, <2>1, LevelOfBits
  <2>2. ASSUME NEW i \in Result(l) PROVE i \in LevelOnLine(l)
    <3>1. PICK j \in SoFar(l, L) : j >= s /\ i = j - s
      BY <1>2 DEF Result, ShiftRight
    <3>2. PICK n \in 0 .. L - 1 : j \in Part(l, n)
      BY <3>1 DEF SoFar
    <3>3. PICK b \in LevelOf(l, n, regs[Offset(l, n)]) : j = b + n * W
      BY <3>2 DEF Part, ShiftLeft
    <3>4. b \in Bit /\ (n = L - 1 => b <= e) /\ one(n, b)
      BY <2>1
    <3>5. i = n * W + b - s /\ (n = 0 => b >= s)
      <4>1. n * W \in Nat /\ (n = 0 => n * W = 0)
        BY <1>0, Product
      <4> HIDE DEF W, s
      <4> QED BY <1>0, <3>1, <3>3, <3>4, <4>1
    <3>6. i \in 0 .. Size(l) - 1 /\ BitOf(l, i) = <<Offset(l, n), b>>
      BY <3>4, <3>5, LinePosition
    <3> QED BY <3>4, <3>6 DEF LevelOnLine, IsOne
  <2>3. ASSUME NEW i \in LevelOnLine(l) PROVE i \in Result(l)
    <3>1. i \in 0 .. Size(l) - 1 /\ IsOne(BitOf(l, i)) # Inverted[l]
      BY DEF LevelOnLine
    <3>2. PICK n \in 0 .. L - 1, b \in Bit :
            /\ BitOf(l, i) = <<Offset(l, n), b>> /\ i = n * W + b - s
            /\ n = L - 1 => b <= e
      BY <3>1, LineBit
    <3>3. b \in LevelOf(l, n, regs[Offset(l, n)])
      BY <2>1, <3>1, <3>2 DEF IsOne
    <3>4. b + n * W \in SoFar(l, L)
      BY <3>3 DEF SoFar, Part, ShiftLeft
    <3>5. b + n * W >= s /\ i = (b + n * W) - s
      <4>1. n * W \in Nat
        BY <1>0, Product
      <4>2. i \in Nat
        BY <3>1
      <4> HIDE DEF W, s
      <4> QED BY <1>0, <3>2, <4>1, <4>2
    <3> QED BY <1>2, <3>4, <3>5 DEF Result, ShiftRight
  <2> QED BY <2>2, <2>3
<1> QED BY <1>1, <1>2

-----------------------------------------------------------------------------
(* The calls.                                                              *)

Registers(l) == {Offset(l, i) : i \in 0 .. Length(l) - 1}

\* Two threads use one line, under its lock, or lines without a common register.
Apart == \A t, u \in Thread : \A l \in Uses[t], m \in Uses[u] :
           t # u => l = m \/ Registers(l) \cap Registers(m) = {}

\* Callers write levels that are not wider than the line.
Fitting == \A l \in Line : Level[l] \subseteq SUBSET (0 .. Size(l) - 1)

CallType ==
  /\ lock \in [Line -> Thread \cup {NoThread}]
  /\ pc \in [Thread -> {"idle", "lock", "read", "write", "unlock"}]
  /\ line \in [Thread -> Line]
  /\ op \in [Thread -> {"read", "write"}]
  /\ rc \in [Thread -> {"ok", "err"}]
  /\ k \in [Thread -> Nat]
  /\ \A t \in Thread : k[t] < Length(line[t])
  /\ \A t \in Thread : pc[t] \in {"idle", "lock"} => k[t] = 0
  /\ \A t \in Thread : pc[t] # "idle" => line[t] \in Uses[t]
  /\ data \in [Thread -> SUBSET Nat]
  /\ \A t \in Thread : pc[t] # "idle" /\ op[t] = "write" => data[t] \in Level[line[t]]

\* The registers and what the threads have read of them.
DataType ==
  /\ regs \in [Address -> SUBSET Bit]
  /\ buffer \in [Thread -> SUBSET Bit]
  /\ level \in [Thread -> SUBSET Nat]
  /\ stands \in [Line -> (SUBSET Nat) \cup {NoLevel}]
  /\ \A l \in Line : stands[l] \in Level[l] \cup {NoLevel}

\* Who is between lock and unlock has the lock of the line.
Inside(t) == pc[t] \in {"read", "write", "unlock"}
Locked == \A t \in Thread : Inside(t) => lock[line[t]] = t

\* What is about to be modified is still in the register.
Fresh == \A t \in Thread : pc[t] = "write" =>
           op[t] = "write" /\ buffer[t] = regs[Offset(line[t], k[t])]

LEMMA CallOffset ==
  ASSUME CallType, NEW t \in Thread
  PROVE  /\ k[t] \in 0 .. Length(line[t]) - 1 /\ line[t] \in Line
         /\ Offset(line[t], k[t]) \in Address
         /\ Offset(line[t], k[t]) \in Registers(line[t])
<1>1. line[t] \in Line /\ k[t] \in Nat /\ k[t] < Length(line[t])
  BY DEF CallType
<1>2. Length(line[t]) \in Nat
  BY <1>1, LineType
<1>3. k[t] \in 0 .. Length(line[t]) - 1
  BY <1>1, <1>2
<1> QED BY <1>1, <1>3, LineType DEF Registers

LEMMA InitCalls == Init => CallType /\ DataType /\ Locked /\ Fresh
<1> SUFFICES ASSUME Init PROVE CallType /\ DataType /\ Locked /\ Fresh
  OBVIOUS
<1>1. ASSUME NEW t \in Thread PROVE line[t] \in Line /\ 0 < Length(line[t])
  <2>1. line[t] \in Line
    BY DEF Init
  <2> QED BY <2>1, LineType
<1>2. CallType
  BY <1>1 DEF Init, CallType
<1>3. DataType
  <2>1. regs \in [Address -> SUBSET Bit]
    BY LineAssumption DEF Init
  <2>2. stands \in [Line -> (SUBSET Nat) \cup {NoLevel}] /\ \A l \in Line : stands[l] = NoLevel
    BY DEF Init
  <2>3. buffer \in [Thread -> SUBSET Bit] /\ level \in [Thread -> SUBSET Nat]
    BY DEF Init
  <2> QED BY <2>1, <2>2, <2>3 DEF DataType
<1> QED BY <1>2, <1>3 DEF Init, Locked, Inside, Fresh

CallStep(t) ==
  \/ \E l \in Uses[t] : Start(t, l, "read", {})
  \/ \E l \in Uses[t] : \E v \in Level[l] : Start(t, l, "write", v)
  \/ Lock(t) \/ LockFails(t) \/ ReadToModify(t) \/ ReadToReport(t)
  \/ Write(t) \/ AccessFails(t) \/ Unlock(t)

LEMMA NextRegister ==
  ASSUME CallType, NEW t \in Thread, ~LastRegister(t)
  PROVE  k[t] + 1 \in Nat /\ k[t] + 1 < Length(line[t])
<1>1. line[t] \in Line /\ k[t] \in Nat /\ k[t] < Length(line[t])
  BY DEF CallType
<1>2. Length(line[t]) \in Nat
  BY <1>1, LineType
<1> QED BY <1>1, <1>2 DEF LastRegister

LEMMA CallTypes ==
  ASSUME CallType, NEW t \in Thread, CallStep(t)
  PROVE  CallType'
<1>1. ASSUME NEW l \in Uses[t], NEW v,
             \/ Start(t, l, "read", v) /\ v = {}
             \/ Start(t, l, "write", v) /\ v \in Level[l]
      PROVE  CallType'
  <2>1. l \in Line /\ 0 < Length(l) /\ v \in SUBSET Nat
    BY <1>1, LineAssumption, LineType
  <2>2. /\ pc[t] = "idle" /\ pc' = [pc EXCEPT ![t] = "lock"] /\ line' = [line EXCEPT ![t] = l]
        /\ data' = [data EXCEPT ![t] = v] /\ rc' = [rc EXCEPT ![t] = "ok"]
        /\ UNCHANGED <<lock, k>>
    BY <1>1 DEF Start, Goto
  <2>3. PICK o \in {"read", "write"} :
          op' = [op EXCEPT ![t] = o] /\ (o = "write" => v \in Level[l])
    BY <1>1 DEF Start
  <2>4. k[t] = 0
    BY <2>2 DEF CallType
  <2>5. /\ pc' \in [Thread -> {"idle", "lock", "read", "write", "unlock"}]
        /\ line' \in [Thread -> Line] /\ op' \in [Thread -> {"read", "write"}]
        /\ rc' \in [Thread -> {"ok", "err"}] /\ data' \in [Thread -> SUBSET Nat]
    BY <2>1, <2>2, <2>3 DEF CallType
  <2>6. \A u \in Thread : /\ pc'[u] = (IF u = t THEN "lock" ELSE pc[u])
                          /\ line'[u] = (IF u = t THEN l ELSE line[u])
                          /\ op'[u] = (IF u = t THEN o ELSE op[u])
                          /\ data'[u] = (IF u = t THEN v ELSE data[u])
    BY <2>2, <2>3 DEF CallType
  <2> QED BY <2>1, <2>2, <2>3, <2>4, <2>5, <2>6 DEF CallType
<1>2. CASE Lock(t)
  BY <1>2 DEF CallType, Lock, Goto
<1>3. CASE LockFails(t)
  BY <1>3, LineType DEF CallType, LockFails, Return, Goto
<1>4. CASE ReadToModify(t)
  BY <1>4 DEF CallType, ReadToModify, Goto
<1>5. CASE ReadToReport(t) \/ Write(t)
  <2>1. CASE ~LastRegister(t) /\ k' = [k EXCEPT ![t] = @ + 1]
    <3>1. k[t] + 1 \in Nat /\ k[t] + 1 < Length(line[t])
      BY <2>1, NextRegister
    <3> QED BY <1>5, <2>1, <3>1 DEF CallType, ReadToReport, Write, Goto
  <2>2. CASE LastRegister(t) /\ UNCHANGED k
    BY <1>5, <2>2 DEF CallType, ReadToReport, Write, Goto
  <2> QED BY <1>5, <2>1, <2>2 DEF ReadToReport, Write
<1>6. CASE AccessFails(t)
  BY <1>6 DEF CallType, AccessFails, Goto
<1>7. CASE Unlock(t)
  <2>1. line[t] \in Line
    BY DEF CallType
  <2>2. 0 < Length(line[t])
    BY <2>1, LineType
  <2> QED BY <1>7, <2>2 DEF CallType, Unlock, Return, Goto
<1> QED BY <1>1, <1>2, <1>3, <1>4, <1>5, <1>6, <1>7 DEF CallStep

LEMMA LevelBits ==
  ASSUME NEW l \in Line, NEW n, NEW buf \in SUBSET Bit
  PROVE  LevelOf(l, n, buf) \subseteq Nat
<1>0. /\ Bit \subseteq Nat /\ StartOffset[l] \in Nat /\ EndOffset[l] \in Nat
      /\ Length(l) \in Nat \ {0} /\ Width \in Nat \ {0}
  BY LineType DEF Bit
<1>1. \A s, from, to : BitMask(s, from, to) \subseteq 0 .. (to - from)
  BY DEF BitMask
<1>2. \A s, from, to : ToggleAndMask(s, from, to) \subseteq 0 .. (to - from)
  BY DEF ToggleAndMask
<1>4. \A from \in Nat, to \in Nat : 0 .. (to - from) \subseteq Nat
  OBVIOUS
<1>5. Width - 1 \in Nat
  BY <1>0
<1> DEFINE Pol(d, from, to) == IF Inverted[l] THEN ToggleAndMask(d, from, to) ELSE d
<1>6. \A d \in SUBSET Nat, from \in Nat, to \in Nat : Pol(d, from, to) \subseteq Nat
  BY <1>2, <1>4
<1>7. CASE Length(l) = 1
  <2>1. LevelOf(l, n, buf) =
          Pol(BitMask(ShiftRight(buf, StartOffset[l]), StartOffset[l], EndOffset[l]),
              StartOffset[l], EndOffset[l])
    BY <1>7 DEF LevelOf
  <2>2. BitMask(ShiftRight(buf, StartOffset[l]), StartOffset[l], EndOffset[l]) \in SUBSET Nat
    BY <1>0, <1>1, <1>4
  <2> HIDE DEF Pol
  <2> QED BY <1>0, <1>6, <2>1, <2>2
<1>8. CASE Length(l) > 1
  <2>1. \/ LevelOf(l, n, buf) = Pol(buf \cap 0 .. EndOffset[l], 0, EndOffset[l])
        \/ LevelOf(l, n, buf) = Pol(buf, StartOffset[l], Width - 1)
        \/ LevelOf(l, n, buf) = Pol(buf, 0, Width - 1)
    BY <1>0, <1>8 DEF LevelOf
  <2>2. buf \in SUBSET Nat /\ buf \cap 0 .. EndOffset[l] \in SUBSET Nat /\ 0 \in Nat
    BY <1>0
  <2> HIDE DEF Pol
  <2> QED BY <1>0, <1>5, <1>6, <2>1, <2>2
<1> QED BY <1>0, <1>7, <1>8

LEMMA Shifts ==
  ASSUME NEW s \in SUBSET Nat, NEW n \in Nat
  PROVE  ShiftLeft(s, n) \in SUBSET Nat /\ ShiftRight(s, n) \in SUBSET Nat
BY DEF ShiftLeft, ShiftRight

LEMMA ModifiedType ==
  ASSUME NEW t \in Thread PROVE Modified(t) \in SUBSET Bit
BY DEF Modified, RegisterOf

LEMMA DataTypes ==
  ASSUME CallType, DataType, NEW t \in Thread, CallStep(t)
  PROVE  DataType'
<1>0. Offset(line[t], k[t]) \in Address /\ line[t] \in Line /\ k[t] \in Nat
  BY CallOffset DEF CallType
<1>n. {} \in SUBSET Nat /\ {} \in SUBSET Bit
  OBVIOUS
<1>1. CASE \E l \in Uses[t], o \in {"read", "write"} : \E v : Start(t, l, o, v)
  BY <1>1 DEF DataType, Start
<1>2. CASE Lock(t)
  BY <1>0, <1>2 DEF DataType, Lock
<1>3. CASE LockFails(t)
  BY <1>3, <1>n DEF DataType, LockFails, Return
<1>4. CASE ReadToModify(t)
  <2>1. regs[Offset(line[t], k[t])] \in SUBSET Bit
    BY <1>0 DEF DataType
  <2> QED BY <1>4, <2>1 DEF DataType, ReadToModify
<1>5. CASE ReadToReport(t)
  <2> DEFINE l == line[t]
             reg == regs[Offset(l, k[t])]
             part == ShiftLeft(LevelOf(l, k[t], reg), k[t] * Width)
             soFar == level[t] \cup part
             cut == ShiftRight(soFar, StartOffset[l])
  <2>1. reg \in SUBSET Bit /\ level[t] \in SUBSET Nat
    BY <1>0 DEF DataType
  <2>2. LevelOf(l, k[t], reg) \in SUBSET Nat
    BY <1>0, <2>1, LevelBits
  <2>3. k[t] * Width \in Nat /\ StartOffset[l] \in Nat
    BY <1>0, LineType, Product DEF Bit
  <2>4. part \in SUBSET Nat
    <3> HIDE DEF reg
    <3> QED BY <2>2, <2>3, Shifts
  <2>5. soFar \in SUBSET Nat
    <3> HIDE DEF part
    <3> QED BY <2>1, <2>4
  <2>6. cut \in SUBSET Nat
    <3> HIDE DEF soFar
    <3> QED BY <2>3, <2>5, Shifts
  <2>7. /\ level' = [level EXCEPT ![t] = soFar] \/ level' = [level EXCEPT ![t] = cut]
        /\ UNCHANGED <<regs, buffer, stands>>
    BY <1>5 DEF ReadToReport
  <2> HIDE DEF soFar, cut
  <2> QED BY <2>5, <2>6, <2>7 DEF DataType
<1>6. CASE Write(t) \/ AccessFails(t)
  <2>1. Modified(t) \in SUBSET Bit
    BY ModifiedType
  <2>2. \/ UNCHANGED regs
        \/ regs' = [regs EXCEPT ![Offset(line[t], k[t])] = Modified(t)]
    BY <1>6 DEF Write, AccessFails
  <2>3. UNCHANGED <<buffer, level, stands>>
    BY <1>6 DEF Write, AccessFails
  <2> QED BY <1>0, <2>1, <2>2, <2>3 DEF DataType
<1>7. CASE Unlock(t)
  <2>1. op[t] = "write" => data[t] \in Level[line[t]] /\ data[t] \in SUBSET Nat
    BY <1>7 DEF CallType, Unlock
  <2>2. \A m \in Line : stands'[m] = stands[m] \/ (m = line[t] /\ op[t] = "write" /\ stands'[m] = data[t])
    BY <1>7 DEF Unlock, DataType
  <2>3. stands' \in [Line -> (SUBSET Nat) \cup {NoLevel}]
    BY <1>0, <1>7, <2>1 DEF Unlock, DataType
  <2>4. \A m \in Line : stands'[m] \in Level[m] \cup {NoLevel}
    BY <2>1, <2>2 DEF DataType
  <2>5. UNCHANGED regs /\ buffer' \in [Thread -> SUBSET Bit] /\ level' \in [Thread -> SUBSET Nat]
    BY <1>7, <1>n DEF Unlock, Return, DataType
  <2> QED BY <2>3, <2>4, <2>5 DEF DataType
<1> QED BY <1>1, <1>2, <1>3, <1>4, <1>5, <1>6, <1>7 DEF CallStep

LEMMA LockKept ==
  ASSUME CallType, Locked, NEW t \in Thread, CallStep(t)
  PROVE  Locked'
<1>1. CASE \E l \in Uses[t], o \in {"read", "write"} : \E v : Start(t, l, o, v)
  BY <1>1 DEF CallType, Locked, Inside, Start, Goto
<1>2. CASE Lock(t)
  BY <1>2, LineAssumption DEF CallType, Locked, Inside, Lock, Goto
<1>3. CASE LockFails(t)
  BY <1>3 DEF CallType, Locked, Inside, LockFails, Return, Goto
<1>4. CASE ReadToModify(t)
  BY <1>4 DEF CallType, Locked, Inside, ReadToModify, Goto
<1>5. CASE ReadToReport(t) \/ Write(t)
  <2>1. Inside(t) /\ UNCHANGED <<lock, line>>
    BY <1>5 DEF ReadToReport, Write, Inside
  <2>2. \A u \in Thread : u # t => pc'[u] = pc[u]
    BY <1>5 DEF ReadToReport, Write, Goto, CallType
  <2> QED BY <2>1, <2>2 DEF Locked, Inside
<1>6. CASE AccessFails(t)
  BY <1>6 DEF CallType, Locked, Inside, AccessFails, Goto
<1>7. CASE Unlock(t)
  <2>1. lock[line[t]] = t /\ lock' = [lock EXCEPT ![line[t]] = NoThread] /\ UNCHANGED line
        /\ pc' = [pc EXCEPT ![t] = "idle"]
    BY <1>7 DEF Locked, Inside, Unlock, Return, Goto
  <2>2. \A u \in Thread : u # t /\ Inside(u) => line[u] # line[t]
    BY <2>1 DEF Locked
  <2> QED BY <2>1, <2>2 DEF CallType, Locked, Inside
<1> QED BY <1>1, <1>2, <1>3, <1>4, <1>5, <1>6, <1>7 DEF CallStep

\* Nobody else writes the register that a thread is about to write.
LEMMA FreshKept ==
  ASSUME Apart, CallType, DataType, Locked, Fresh, NEW t \in Thread, CallStep(t)
  PROVE  Fresh'
<1>0. ASSUME NEW u \in Thread, u # t, Inside(u), Inside(t)
      PROVE  Offset(line[u], k[u]) # Offset(line[t], k[t])
  <2>1. line[u] # line[t]
    BY <1>0 DEF Locked
  <2>2. line[u] \in Uses[u] /\ line[t] \in Uses[t]
    BY <1>0 DEF CallType, Inside
  <2>3. Registers(line[u]) \cap Registers(line[t]) = {}
    BY <1>0, <2>1, <2>2 DEF Apart
  <2> QED BY <2>3, CallOffset
<1>1. CASE \E l \in Uses[t], o \in {"read", "write"} : \E v : Start(t, l, o, v)
  BY <1>1 DEF CallType, Fresh, Start, Goto
<1>2. CASE Lock(t) \/ LockFails(t)
  BY <1>2 DEF CallType, DataType, Fresh, Lock, LockFails, Return, Goto
<1>3. CASE ReadToModify(t)
  BY <1>3 DEF CallType, DataType, Fresh, ReadToModify, Goto
<1>4. CASE ReadToReport(t)
  <2>1. pc'[t] # "write" /\ UNCHANGED <<regs, buffer, line, op>>
    BY <1>4 DEF ReadToReport, CallType, Goto
  <2>2. \A u \in Thread \ {t} : pc'[u] = pc[u] /\ k'[u] = k[u]
    BY <1>4 DEF ReadToReport, CallType, Goto
  <2> QED BY <2>1, <2>2 DEF Fresh
<1>5. CASE Write(t) \/ AccessFails(t)
  <2>1. pc'[t] # "write" /\ UNCHANGED <<buffer, line, op>> /\ Inside(t)
    BY <1>5 DEF Write, AccessFails, CallType, Goto, Inside
  <2>2. \A u \in Thread \ {t} : pc'[u] = pc[u] /\ k'[u] = k[u]
    BY <1>5 DEF Write, AccessFails, CallType, Goto
  <2>3. \A a \in Address : a # Offset(line[t], k[t]) => regs'[a] = regs[a]
    BY <1>5 DEF Write, AccessFails, DataType
  <2>4. ASSUME NEW u \in Thread \ {t}, pc[u] = "write"
        PROVE  regs'[Offset(line[u], k[u])] = regs[Offset(line[u], k[u])]
    BY <1>0, <2>1, <2>3, <2>4, CallOffset DEF Inside
  <2> QED BY <2>1, <2>2, <2>4 DEF Fresh
<1>6. CASE Unlock(t)
  BY <1>6 DEF CallType, DataType, Fresh, Unlock, Return, Goto
<1> QED BY <1>1, <1>2, <1>3, <1>4, <1>5, <1>6 DEF CallStep

-----------------------------------------------------------------------------
(* Reads and writes of a whole line.                                       *)

LEMMA OffsetsDiffer ==
  ASSUME NEW l \in Line, NEW n \in Nat, NEW m \in Nat, n # m
  PROVE  Offset(l, n) # Offset(l, m)
BY LineAssumption DEF Offset

\* A step of t leaves the registers alone that another thread works on.
LEMMA OthersRegisters ==
  ASSUME Apart, CallType, DataType, Locked, NEW t \in Thread, CallStep(t),
         NEW u \in Thread, u # t, Inside(u), NEW n \in 0 .. Length(line[u]) - 1
  PROVE  regs'[Offset(line[u], n)] = regs[Offset(line[u], n)]
<1>1. CASE UNCHANGED regs
  BY <1>1
<1>2. CASE Write(t) \/ AccessFails(t)
  <2>1. Inside(t)
    BY <1>2 DEF Write, AccessFails, Inside
  <2>2. line[u] # line[t]
    BY <2>1 DEF Locked
  <2>3. line[u] \in Uses[u] /\ line[t] \in Uses[t] /\ line[u] \in Line
    BY <2>1 DEF CallType, Inside
  <2>4. Registers(line[u]) \cap Registers(line[t]) = {}
    BY <2>2, <2>3 DEF Apart
  <2>5. Offset(line[u], n) # Offset(line[t], k[t])
    BY <2>4, CallOffset DEF Registers
  <2>6. \A a \in Address : a # Offset(line[t], k[t]) => regs'[a] = regs[a]
    BY <1>2 DEF Write, AccessFails, DataType
  <2> QED BY <2>3, <2>5, <2>6, LineType
<1> QED
  BY <1>1, <1>2 DEF CallStep, Start, Lock, LockFails, ReadToModify, ReadToReport, Unlock

\* What each step of t leaves alone.
LEMMA OthersCalls ==
  ASSUME CallType, DataType, NEW t \in Thread, CallStep(t), NEW u \in Thread, u # t
  PROVE  UNCHANGED <<pc[u], line[u], op[u], rc[u], k[u], data[u], level[u]>>
<1> USE DEF CallType, DataType, Goto
<1>1. CASE \E l \in Uses[t], o \in {"read", "write"} : \E v : Start(t, l, o, v)
  BY <1>1 DEF Start
<1>2. CASE Lock(t) \/ ReadToModify(t) \/ ReadToReport(t)
  BY <1>2 DEF Lock, ReadToModify, ReadToReport
<1>3. CASE LockFails(t) \/ Unlock(t)
  BY <1>3 DEF LockFails, Unlock, Return
<1>4. CASE Write(t) \/ AccessFails(t)
  BY <1>4 DEF Write, AccessFails
<1> QED BY <1>1, <1>2, <1>3, <1>4 DEF CallStep

\* What a read has gathered is in the registers still, all of them together.
Gathered ==
  \A t \in Thread :
    /\ pc[t] \in {"idle", "lock"} => level[t] = {}
    /\ pc[t] = "read" /\ op[t] = "read" => level[t] = SoFar(line[t], k[t])
    /\ pc[t] = "unlock" /\ op[t] = "read" /\ rc[t] = "ok" => level[t] = Result(line[t])

LEMMA SoFarSame ==
  ASSUME NEW l, NEW m, \A n \in 0 .. m - 1 : regs'[Offset(l, n)] = regs[Offset(l, n)]
  PROVE  UNION {ShiftLeft(LevelOf(l, n, regs'[Offset(l, n)]), n * Width) : n \in 0 .. m - 1}
         = SoFar(l, m)
BY DEF SoFar, Part

LEMMA GatheredKept ==
  ASSUME Apart, CallType, DataType, Locked, Fresh, Gathered, NEW t \in Thread, CallStep(t)
  PROVE  Gathered'
<1> DEFINE Got(u) == /\ pc[u] \in {"idle", "lock"} => level[u] = {}
                     /\ pc[u] = "read" /\ op[u] = "read" => level[u] = SoFar(line[u], k[u])
                     /\ pc[u] = "unlock" /\ op[u] = "read" /\ rc[u] = "ok"
                          => level[u] = Result(line[u])
<1>1. ASSUME NEW u \in Thread, u # t PROVE Got(u)'
  <2>1. UNCHANGED <<pc[u], line[u], op[u], rc[u], k[u], data[u], level[u]>>
    BY <1>1, OthersCalls
  <2>2. /\ line[u] \in Line /\ k[u] \in 0 .. Length(line[u]) - 1
        /\ Length(line[u]) \in Nat \ {0}
    BY CallOffset, LineType
  <2>3. Inside(u) => \A n \in 0 .. Length(line[u]) - 1 :
                       regs'[Offset(line[u], n)] = regs[Offset(line[u], n)]
    BY <1>1, OthersRegisters
  <2> DEFINE Now(m) == UNION {ShiftLeft(LevelOf(line[u], n, regs'[Offset(line[u], n)]), n * Width)
                                : n \in 0 .. m - 1}
  <2>4. Inside(u) => SoFar(line[u], k[u])' = SoFar(line[u], k[u])
    <3>1. SoFar(line[u], k[u])' = Now(k[u])
      BY <2>1 DEF SoFar, Part
    <3> QED BY <2>2, <2>3, <3>1, SoFarSame
  <2>5. Inside(u) => Result(line[u])' = Result(line[u])
    <3>1. /\ SoFar(line[u], 1)' = Now(1)
          /\ SoFar(line[u], Length(line[u]))' = Now(Length(line[u]))
      BY <2>1 DEF SoFar, Part, Length
    <3>2. Inside(u) => /\ Now(1) = SoFar(line[u], 1)
                       /\ Now(Length(line[u])) = SoFar(line[u], Length(line[u]))
      BY <2>2, <2>3, SoFarSame
    <3> HIDE DEF Now
    <3> QED BY <2>1, <3>1, <3>2 DEF Result, Length
  <2> QED BY <2>1, <2>4, <2>5 DEF Gathered, Inside
<1>2. Got(t)'
  <2> USE DEF CallType, DataType, Goto
  <2>1. CASE \E l \in Uses[t], o \in {"read", "write"} : \E v : Start(t, l, o, v)
    BY <2>1 DEF Start, Gathered
  <2>2. CASE Lock(t)
    <3>1. SoFar(line[t], 0)' = {}
      <4>1. 0 .. 0 - 1 = {}
        OBVIOUS
      <4> QED BY <4>1 DEF SoFar
    <3>2. k'[t] = 0 /\ level'[t] = {}
      BY <2>2 DEF Lock, Gathered
    <3>3. pc'[t] = "read" \/ (pc'[t] = "unlock" /\ op'[t] = "write")
      BY <2>2 DEF Lock
    <3>4. SoFar(line[t], k[t])' = {}
      BY <3>2, <3>1 DEF SoFar
    <3> QED BY <3>2, <3>3, <3>4
  <2>3. CASE LockFails(t) \/ Unlock(t)
    BY <2>3 DEF LockFails, Unlock, Return
  <2>4. CASE ReadToModify(t) \/ AccessFails(t)
    BY <2>4 DEF ReadToModify, AccessFails
  <2>5. CASE Write(t)
    <3>1. op'[t] = "write" /\ pc'[t] \in {"read", "unlock"}
      BY <2>5 DEF Write, Fresh
    <3> QED BY <3>1
  <2>6. CASE ReadToReport(t)
    <3> DEFINE l == line[t]
               so == level[t] \cup Part(l, k[t])
    <3>1. level[t] = SoFar(l, k[t]) /\ k[t] \in Nat
      BY <2>6 DEF ReadToReport, Gathered
    <3>2. so = SoFar(l, k[t] + 1)
      BY <3>1, SoFarNext
    <3>3. UNCHANGED <<regs, line, op, rc>>
      BY <2>6 DEF ReadToReport
    <3>4. \A m : SoFar(l, m)' = SoFar(l, m)
      BY <3>3 DEF SoFar, Part
    <3>5. CASE ~LastRegister(t)
      <4>1. level'[t] = so /\ k'[t] = k[t] + 1 /\ UNCHANGED pc /\ pc[t] = "read"
        BY <2>6, <3>5 DEF ReadToReport, Part
      <4>2. SoFar(line[t], k[t])' = SoFar(l, k[t] + 1)
        BY <3>3, <4>1 DEF SoFar, Part
      <4> HIDE DEF so
      <4> QED BY <3>2, <4>1, <4>2
    <3>6. CASE LastRegister(t)
      <4>1. /\ level'[t] = (IF Length(l) = 1 THEN so ELSE ShiftRight(so, StartOffset[l]))
            /\ pc'[t] = "unlock"
        BY <2>6, <3>6 DEF ReadToReport, Part
      <4>2. k[t] + 1 = Length(l)
        BY <3>6 DEF LastRegister
      <4>3. level'[t] = Result(l)
        <5> HIDE DEF so
        <5> QED BY <3>2, <4>1, <4>2 DEF Result
      <4>4. Result(line[t])' = Result(l)
        BY <3>3 DEF Result, SoFar, Part, Length
      <4> QED BY <4>1, <4>3, <4>4
    <3> QED BY <3>5, <3>6
  <2> QED BY <2>1, <2>2, <2>3, <2>4, <2>5, <2>6 DEF CallStep
<1> QED BY <1>1, <1>2 DEF Gathered

\* Register number n of line l as a write of level d leaves it.
Put(l, n, d) == \E buf \in SUBSET Bit :
                  regs[Offset(l, n)] = RegisterOf(l, n, buf, ShiftRight(d, n * Width))

\* What a write has put is in the registers still, all of them together.
Written ==
  \A t \in Thread : op[t] = "write" =>
    /\ pc[t] \in {"read", "write"} =>
         \A n \in 0 .. k[t] - 1 : Put(line[t], n, data[t])
    /\ pc[t] = "unlock" /\ rc[t] = "ok" =>
         \A n \in 0 .. Length(line[t]) - 1 : Put(line[t], n, data[t])

\* No level stands on a line whose write is under way.
Pending == \A t \in Thread : pc[t] \in {"read", "write"} /\ op[t] = "write"
                               => stands[line[t]] = NoLevel

LEMMA WrittenKept ==
  ASSUME Apart, CallType, DataType, Locked, Fresh, Written, NEW t \in Thread, CallStep(t)
  PROVE  Written'
<1> DEFINE Same(u, n, d) == \E buf \in SUBSET Bit :
             regs'[Offset(line[u], n)] = RegisterOf(line[u], n, buf, ShiftRight(d, n * Width))
           Did(u) == op[u] = "write" =>
             /\ pc[u] \in {"read", "write"} =>
                  \A n \in 0 .. k[u] - 1 : Put(line[u], n, data[u])
             /\ pc[u] = "unlock" /\ rc[u] = "ok" =>
                  \A n \in 0 .. Length(line[u]) - 1 : Put(line[u], n, data[u])
<1>1. ASSUME NEW u \in Thread, u # t PROVE Did(u)'
  <2>1. UNCHANGED <<pc[u], line[u], op[u], rc[u], k[u], data[u], level[u]>>
    BY <1>1, OthersCalls
  <2>2. /\ k[u] \in 0 .. Length(line[u]) - 1 /\ Length(line[u]) \in Nat \ {0}
    BY CallOffset, LineType
  <2>3. Inside(u) => \A n \in 0 .. Length(line[u]) - 1 :
                       regs'[Offset(line[u], n)] = regs[Offset(line[u], n)]
    BY <1>1, OthersRegisters
  <2>4. ASSUME Inside(u), NEW n \in 0 .. Length(line[u]) - 1, Put(line[u], n, data[u])
        PROVE  Put(line[u], n, data[u])'
    BY <2>1, <2>3, <2>4 DEF Put
  <2>5. \A n \in 0 .. k[u] - 1 : n \in 0 .. Length(line[u]) - 1
    BY <2>2
  <2>6. Length(line[u])' = Length(line[u])
    BY <2>1 DEF Length
  <2> HIDE DEF Put
  <2> QED BY <2>1, <2>4, <2>5, <2>6 DEF Written, Inside
<1>2. Did(t)'
  <2> USE DEF CallType, DataType, Goto
  <2>1. CASE \E l \in Uses[t], o \in {"read", "write"} : \E v : Start(t, l, o, v)
    BY <2>1 DEF Start
  <2>2. CASE Lock(t)
    <3>1. k'[t] = 0 /\ (pc'[t] = "unlock" => rc'[t] = "err")
      BY <2>2 DEF Lock
    <3> HIDE DEF Put
    <3> QED BY <2>2, <3>1 DEF Lock
  <2>3. CASE LockFails(t) \/ Unlock(t)
    BY <2>3 DEF LockFails, Unlock, Return
  <2>4. CASE ReadToModify(t)
    <3>1. /\ pc[t] = "read" /\ op[t] = "write" /\ pc'[t] = "write"
          /\ UNCHANGED <<regs, line, op, k, data>>
      BY <2>4 DEF ReadToModify
    <3> QED BY <3>1 DEF Written, Put
  <2>5. CASE ReadToReport(t)
    BY <2>5 DEF ReadToReport
  <2>6. CASE AccessFails(t)
    BY <2>6 DEF AccessFails
  <2>7. CASE Write(t)
    <3> DEFINE here == Offset(line[t], k[t])
    <3>1. /\ pc[t] = "write" /\ op[t] = "write" /\ UNCHANGED <<line, op, data>>
          /\ regs' = [regs EXCEPT ![here] = Modified(t)]
      BY <2>7 DEF Write, Fresh
    <3>2. here \in Address /\ line[t] \in Line /\ k[t] \in 0 .. Length(line[t]) - 1
      BY CallOffset
    <3>3. \A n \in 0 .. k[t] - 1 : Offset(line[t], n) # here /\ Offset(line[t], n) \in Address
      <4>1. k[t] \in Nat /\ Length(line[t]) \in Nat
        BY <3>2, LineType
      <4>2. \A n \in 0 .. k[t] - 1 : n \in 0 .. Length(line[t]) - 1 /\ n \in Nat /\ n # k[t]
        BY <3>2, <4>1
      <4> QED BY <3>2, <4>1, <4>2, LineType, OffsetsDiffer
    <3>4. \A n \in 0 .. k[t] - 1 : regs'[Offset(line[t], n)] = regs[Offset(line[t], n)]
      <4> HIDE DEF here
      <4> QED BY <3>1, <3>3
    <3>5. \A n \in 0 .. k[t] - 1 : Put(line[t], n, data[t])
      BY <3>1 DEF Written
    <3>6. \A n \in 0 .. k[t] - 1 : Put(line[t], n, data[t])'
      BY <3>1, <3>4, <3>5 DEF Put
    <3>7. regs'[here] = Modified(t) /\ buffer[t] \in SUBSET Bit
      <4> HIDE DEF here
      <4> QED BY <3>1, <3>2
    <3>8. Same(t, k[t], data[t])
      BY <3>7 DEF Modified
    <3>9. CASE ~LastRegister(t)
      <4>1. k'[t] = k[t] + 1 /\ pc'[t] = "read"
        BY <2>7, <3>9 DEF Write
      <4>2. \A n \in 0 .. k'[t] - 1 : n \in 0 .. k[t] - 1 \/ n = k[t]
        BY <3>2, <4>1
      <4>3. \A n \in 0 .. k'[t] - 1 : Put(line[t], n, data[t])'
        BY <3>1, <3>6, <3>8, <4>2 DEF Put
      <4> HIDE DEF Put
      <4> QED BY <4>1, <4>3
    <3>10. CASE LastRegister(t)
      <4>1. Length(line[t]) = k[t] + 1 /\ pc'[t] = "unlock" /\ Length(line[t])' = Length(line[t])
        BY <2>7, <3>1, <3>10 DEF Write, LastRegister, Length
      <4>2. \A n \in 0 .. Length(line[t])' - 1 : n \in 0 .. k[t] - 1 \/ n = k[t]
        BY <3>2, <4>1
      <4>3. \A n \in 0 .. Length(line[t])' - 1 : Put(line[t], n, data[t])'
        BY <3>1, <3>6, <3>8, <4>2 DEF Put
      <4> HIDE DEF Put
      <4> QED BY <4>1, <4>3
    <3> QED BY <3>9, <3>10
  <2> QED BY <2>1, <2>2, <2>3, <2>4, <2>5, <2>6, <2>7 DEF CallStep
<1> QED BY <1>1, <1>2 DEF Written

LEMMA PendingKept ==
  ASSUME CallType, DataType, Locked, Pending, NEW t \in Thread, CallStep(t)
  PROVE  Pending'
<1>1. ASSUME NEW u \in Thread, u # t, pc'[u] \in {"read", "write"}, op'[u] = "write"
      PROVE  stands'[line'[u]] = NoLevel
  <2>1. UNCHANGED <<pc[u], line[u], op[u]>>
    BY <1>1, OthersCalls
  <2>2. stands[line[u]] = NoLevel /\ line[u] \in Line /\ Inside(u)
    BY <1>1, <2>1 DEF Pending, CallType, Inside
  <2>3. CASE Lock(t) \/ Unlock(t)
    <3>1. line[t] # line[u]
      <4>1. CASE Lock(t)
        BY <2>2, <4>1, LineAssumption DEF Lock, Locked
      <4>2. CASE Unlock(t)
        BY <1>1, <2>2, <4>2 DEF Unlock, Locked, Inside
      <4> QED BY <2>3, <4>1, <4>2
    <3> QED BY <2>1, <2>2, <2>3, <3>1 DEF Lock, Unlock, DataType
  <2>4. CASE UNCHANGED stands
    BY <2>1, <2>2, <2>4
  <2> QED
    BY <2>3, <2>4
       DEF CallStep, Start, LockFails, ReadToModify, ReadToReport, Write, AccessFails
<1>2. ASSUME pc'[t] \in {"read", "write"}, op'[t] = "write"
      PROVE  stands'[line'[t]] = NoLevel
  <2> USE DEF CallType, DataType, Goto
  <2>1. CASE Lock(t)
    BY <1>2, <2>1 DEF Lock
  <2>2. CASE ReadToModify(t) \/ ReadToReport(t) \/ Write(t)
    <3>1. pc[t] \in {"read", "write"} /\ UNCHANGED <<stands, line, op>>
      BY <2>2 DEF ReadToModify, ReadToReport, Write
    <3> QED BY <1>2, <3>1 DEF Pending
  <2> QED
    BY <1>2, <2>1, <2>2 DEF CallStep, Start, LockFails, AccessFails, Unlock, Return
<1> QED BY <1>1, <1>2 DEF Pending

\* A written register has the level's bits in the bits of the line.
LEMMA PutBit ==
  ASSUME NEW l \in Line, WritesStraight(l), NEW d \in SUBSET (0 .. Size(l) - 1),
         NEW n \in 0 .. Length(l) - 1, NEW buf \in SUBSET Bit, NEW b \in Bit,
         n = 0 => b >= StartOffset[l], n = Length(l) - 1 => b <= EndOffset[l]
  PROVE  (b \in RegisterOf(l, n, buf, ShiftRight(d, n * Width))) # Inverted[l]
           <=> n * Width + b - StartOffset[l] \in d
<1> DEFINE L == Length(l)
           s == StartOffset[l]
           e == EndOffset[l]
           W == Width
           sh == ShiftRight(d, n * W)
           byte == sh \cap Bit
           P(from, to) == IF Inverted[l] THEN ToggleAndMask(byte, from, to) ELSE byte
           reg == RegisterOf(l, n, buf, sh)
<1>0. /\ L \in Nat \ {0} /\ W \in Nat \ {0} /\ s \in 0 .. W - 1 /\ e \in 0 .. W - 1
      /\ b \in 0 .. W - 1 /\ n \in Nat /\ n <= L - 1 /\ Bit = 0 .. W - 1
      /\ Inverted[l] \in BOOLEAN /\ (L = 1 => s <= e) /\ n * W \in Nat
  BY LineType, Product DEF Bit
<1>s. d \subseteq Int
  OBVIOUS
<1>b. ASSUME NEW x \in Bit PROVE x \in byte <=> n * W + x \in d
  <2>1. x \in sh <=> \E y \in d : y >= n * W /\ x = y - n * W
    BY DEF ShiftRight
  <2>2. x \in Nat /\ n * W + x >= n * W /\ x = (n * W + x) - n * W
    BY <1>0
  <2>3. \A y \in d : x = y - n * W => y = n * W + x
    BY <1>0, <1>s, <2>2
  <2> HIDE DEF sh
  <2> QED BY <2>1, <2>2, <2>3
<1> HIDE DEF byte, sh
<1>p. ASSUME NEW from \in 0 .. W - 1, NEW to \in 0 .. W - 1, NEW x \in Bit, x <= to - from
      PROVE  x \in P(from, to) <=> IF Inverted[l] THEN x \notin byte ELSE x \in byte
  BY <1>0, <1>p DEF ToggleAndMask
<1>q. ASSUME NEW from \in 0 .. W - 1, NEW to \in 0 .. W - 1
      PROVE  P(from, to) \subseteq Int
  BY <1>0, <1>q DEF ToggleAndMask, byte
<1>c. ASSUME NEW from \in 0 .. W - 1, NEW to \in 0 .. W - 1, from <= b, b <= to,
             reg = Bit \cap SubBitstream(buf, P(from, to), from, to + 1)
      PROVE  b \in reg <=> IF Inverted[l] THEN b - from \notin byte ELSE b - from \in byte
  <2>1. b - from \in Bit /\ b - from <= to - from
    BY <1>0, <1>c
  <2>2. b \in ShiftLeft(P(from, to), from) <=> b - from \in P(from, to)
    <3>1. \A x \in P(from, to) : b = x + from <=> x = b - from
      BY <1>0, <1>q
    <3>2. (b - from) + from = b
      BY <1>0
    <3> HIDE DEF P
    <3> QED BY <3>1, <3>2 DEF ShiftLeft
  <2>3. b \in from .. (to + 1) - 1
    BY <1>0, <1>c
  <2>4. b \in reg <=> b \in ShiftLeft(P(from, to), from)
    <3> DEFINE cleared == from .. (to + 1) - 1
               put == ShiftLeft(P(from, to), from)
    <3>1. reg = Bit \cap ((buf \ cleared) \cup put)
      BY <1>c DEF SubBitstream
    <3> HIDE DEF cleared, put, reg
    <3>2. b \in cleared
      BY <2>3 DEF cleared
    <3> QED BY <3>1, <3>2 DEF put
  <2>5. b - from \in P(from, to) <=> IF Inverted[l] THEN b - from \notin byte ELSE b - from \in byte
    BY <1>p, <2>1
  <2> QED BY <2>2, <2>4, <2>5
<1>1. PICK from \in 0 .. W - 1, to \in 0 .. W - 1 :
        /\ from <= b /\ b <= to /\ from = (IF n = 0 THEN s ELSE 0)
        /\ reg = Bit \cap SubBitstream(buf, P(from, to), from, to + 1)
  <2>1. CASE L = 1
    <3>1. n = 0 /\ n = L - 1
      BY <1>0, <2>1
    <3>2. reg = Bit \cap SubBitstream(buf, P(s, e), s, e + 1)
      BY <2>1 DEF RegisterOf, byte
    <3> HIDE DEF P, reg
    <3> QED BY <1>0, <3>1, <3>2
  <2>2. CASE L # 1 /\ n = 0
    <3>1. reg = Bit \cap SubBitstream(buf, P(s, W - 1), s, W)
      BY <1>0, <2>2 DEF RegisterOf, byte
    <3>2. W - 1 \in 0 .. W - 1 /\ (W - 1) + 1 = W /\ b <= W - 1
      BY <1>0
    <3> HIDE DEF P, reg, W
    <3> QED BY <1>0, <2>2, <3>1, <3>2
  <2>3. CASE L # 1 /\ n # 0 /\ n = L - 1
    <3>1. reg = Bit \cap SubBitstream(buf, P(0, e), 0, e + 1)
      BY <1>0, <2>3 DEF RegisterOf, byte
    <3>2. 0 \in 0 .. W - 1 /\ 0 <= b
      BY <1>0
    <3> HIDE DEF P, reg, W
    <3> QED BY <1>0, <2>3, <3>1, <3>2
  <2>4. CASE L # 1 /\ n # 0 /\ n # L - 1
    <3>1. reg = Bit \cap SubBitstream(buf, P(0, W - 1), 0, W)
      BY <1>0, <2>4 DEF RegisterOf, byte
    <3>2. W - 1 \in 0 .. W - 1 /\ 0 \in 0 .. W - 1 /\ 0 <= b /\ (W - 1) + 1 = W /\ b <= W - 1
      BY <1>0
    <3> HIDE DEF P, reg, W
    <3> QED BY <1>0, <2>4, <3>1, <3>2
  <2> QED BY <2>1, <2>2, <2>3, <2>4
<1>2. b \in reg <=> IF Inverted[l] THEN b - from \notin byte ELSE b - from \in byte
  BY <1>1, <1>c
<1>3. b - from \in Bit /\ n * W + (b - from) = n * W + b - s
  <2>1. n # 0 => s = 0
    BY <1>0 DEF WritesStraight
  <2>2. from = s
    BY <1>1, <2>1
  <2> QED BY <1>0, <1>1, <2>2
<1>4. b - from \in byte <=> n * W + b - s \in d
  BY <1>b, <1>3
<1>5. (b \in reg) # Inverted[l] <=> IF Inverted[l] THEN b \notin reg ELSE b \in reg
  BY <1>0, Polarity
<1> HIDE DEF reg
<1>6. (b \in reg) # Inverted[l] <=> n * W + b - s \in d
  BY <1>2, <1>4, <1>5
<1> QED BY <1>6 DEF reg, sh

LEMMA PutRight ==
  ASSUME NEW l \in Line, WritesStraight(l), NEW d \in SUBSET (0 .. Size(l) - 1),
         \A n \in 0 .. Length(l) - 1 : Put(l, n, d)
  PROVE  LevelOnLine(l) = d
<1>1. ASSUME NEW i \in 0 .. Size(l) - 1
      PROVE  IsOne(BitOf(l, i)) # Inverted[l] <=> i \in d
  <2>1. PICK n \in 0 .. Length(l) - 1, b \in Bit :
          /\ BitOf(l, i) = <<Offset(l, n), b>>
          /\ i = n * Width + b - StartOffset[l]
          /\ n = 0 => b >= StartOffset[l]
          /\ n = Length(l) - 1 => b <= EndOffset[l]
    BY LineBit
  <2>2. PICK buf \in SUBSET Bit :
          regs[Offset(l, n)] = RegisterOf(l, n, buf, ShiftRight(d, n * Width))
    BY DEF Put
  <2>3. (b \in RegisterOf(l, n, buf, ShiftRight(d, n * Width))) # Inverted[l]
           <=> n * Width + b - StartOffset[l] \in d
    BY <2>1, PutBit
  <2> QED BY <2>1, <2>2, <2>3 DEF IsOne
<1> QED BY <1>1 DEF LevelOnLine

\* A step that changes a bit is a write of a line the bit belongs to.
LEMMA OwnStep ==
  ASSUME Fitting, CallType, DataType, Fresh, [Next]_vars,
         NEW a \in Address, NEW b \in Bit, (b \in regs[a]) # (b \in regs'[a])
  PROVE  \E t \in Thread : /\ pc[t] = "write" /\ pc'[t] # "write"
                           /\ <<a, b>> \in BitsOf(line[t])
<1>1. PICK t \in Thread : Write(t) \/ AccessFails(t)
  BY DEF Next, vars, Start, Lock, LockFails, ReadToModify, ReadToReport, Unlock
<1> DEFINE here == Offset(line[t], k[t])
<1>2. regs' = [regs EXCEPT ![here] = Modified(t)] /\ pc[t] = "write"
  BY <1>1 DEF Write, AccessFails
<1>3. pc'[t] # "write"
  BY <1>1 DEF Write, AccessFails, Goto, CallType
<1>4. a = here /\ regs'[a] = Modified(t)
  <2> HIDE DEF here
  <2> QED BY <1>2 DEF DataType
<1>5. buffer[t] = regs[a] /\ buffer[t] \in SUBSET Bit /\ op[t] = "write"
  BY <1>2, <1>4 DEF Fresh, DataType
<1>6. data[t] \in SUBSET (0 .. Size(line[t]) - 1)
  BY <1>2, <1>5 DEF CallType, Fitting
<1>7. k[t] \in 0 .. Length(line[t]) - 1 /\ line[t] \in Line
  BY CallOffset
<1>8. (b \in buffer[t]) # (b \in RegisterOf(line[t], k[t], buffer[t], ShiftRight(data[t], k[t] * Width)))
  BY <1>4, <1>5 DEF Modified
<1>9. <<here, b>> \in BitsOf(line[t])
  BY <1>5, <1>6, <1>7, <1>8, RegisterBits
<1> QED BY <1>2, <1>3, <1>4, <1>9

\* No two lines have a bit in common.
Separate == \A l, m \in Line : l # m => BitsOf(l) \cap BitsOf(m) = {}

\* Every level is written right.
Straight == \A l \in Line : Level[l] # {} => WritesStraight(l)

LEMMA StandsKept ==
  ASSUME Fitting, Separate, Straight, CallType, DataType, Locked, Fresh, Written, Pending,
         LastWriteStands, [Next]_vars
  PROVE  LastWriteStands'
<1> SUFFICES ASSUME NEW l \in Line, stands'[l] # NoLevel PROVE LevelOnLine(l)' = stands'[l]
  BY DEF LastWriteStands
<1>1. ASSUME stands[l] # NoLevel PROVE LevelOnLine(l)' = LevelOnLine(l)
  <2>2. ASSUME NEW i \in 0 .. Size(l) - 1
        PROVE  (IsOne(BitOf(l, i))' # Inverted[l]) <=> (IsOne(BitOf(l, i)) # Inverted[l])
    <3>1. BitOf(l, i)' = BitOf(l, i)
      BY DEF BitOf, Offset
    <3>2. PICK n \in 0 .. Length(l) - 1, b \in Bit : BitOf(l, i) = <<Offset(l, n), b>>
      BY LineBit
    <3>3. Offset(l, n) \in Address /\ <<Offset(l, n), b>> \in BitsOf(l)
      BY <3>2, LineType DEF BitsOf
    <3>4. ASSUME (b \in regs[Offset(l, n)]) # (b \in regs'[Offset(l, n)]) PROVE FALSE
      <4>1. PICK t \in Thread : pc[t] = "write" /\ <<Offset(l, n), b>> \in BitsOf(line[t])
        BY <3>3, <3>4, OwnStep
      <4>2. line[t] \in Line /\ op[t] = "write"
        BY <4>1 DEF CallType, Fresh
      <4>3. line[t] = l
        BY <3>3, <4>1, <4>2 DEF Separate
      <4> QED BY <1>1, <4>1, <4>2, <4>3 DEF Pending
    <3> QED BY <3>1, <3>2, <3>4 DEF IsOne
  <2>3. LevelOnLine(l)' = {i \in 0 .. Size(l) - 1 : IsOne(BitOf(l, i))' # Inverted[l]}
    BY DEF LevelOnLine, Size, Length
  <2> QED BY <2>2, <2>3 DEF LevelOnLine
<1>2. CASE UNCHANGED stands
  BY <1>1, <1>2 DEF LastWriteStands
<1>3. ASSUME NEW t \in Thread, Lock(t) PROVE LevelOnLine(l)' = stands'[l]
  <2>1. stands'[l] = stands[l]
    BY <1>3 DEF Lock, DataType
  <2> QED BY <1>1, <2>1 DEF LastWriteStands
<1>4. ASSUME NEW t \in Thread, Unlock(t) PROVE LevelOnLine(l)' = stands'[l]
  <2>1. CASE l = line[t] /\ op[t] = "write" /\ rc[t] = "ok"
    <3>1. /\ stands'[l] = data[t] /\ pc[t] = "unlock" /\ UNCHANGED regs
          /\ data[t] \in Level[l]
      BY <1>4, <2>1 DEF Unlock, DataType, CallType
    <3>2. \A n \in 0 .. Length(l) - 1 : Put(l, n, data[t])
      BY <2>1, <3>1 DEF Written
    <3>3. WritesStraight(l) /\ data[t] \in SUBSET (0 .. Size(l) - 1)
      BY <3>1 DEF Straight, Fitting
    <3>4. LevelOnLine(l) = data[t]
      BY <3>2, <3>3, PutRight
    <3>5. LevelOnLine(l)' = LevelOnLine(l)
      BY <3>1 DEF LevelOnLine, IsOne, BitOf, Offset, Size, Length
    <3> QED BY <3>1, <3>4, <3>5
  <2>2. CASE ~(l = line[t] /\ op[t] = "write" /\ rc[t] = "ok")
    <3>1. stands'[l] = stands[l]
      BY <1>4, <2>2 DEF Unlock, DataType, CallType
    <3> QED BY <1>1, <3>1 DEF LastWriteStands
  <2> QED BY <2>1, <2>2
<1> QED
  BY <1>2, <1>3, <1>4
     DEF Next, vars, Start, LockFails, ReadToModify, ReadToReport, Write, AccessFails

-----------------------------------------------------------------------------
(* The theorems.                                                           *)

LEMMA TypesKept == Spec => [](CallType /\ DataType /\ Locked)
<1>1. CallType /\ DataType /\ Locked /\ [Next]_vars => (CallType /\ DataType /\ Locked)'
  <2> SUFFICES ASSUME CallType, DataType, Locked, [Next]_vars
               PROVE  (CallType /\ DataType /\ Locked)'
    OBVIOUS
  <2>1. ASSUME NEW t \in Thread, CallStep(t) PROVE (CallType /\ DataType /\ Locked)'
    BY <2>1, CallTypes, DataTypes, LockKept
  <2>2. CASE UNCHANGED vars
    BY <2>2 DEF vars, locals, CallType, DataType, Locked, Inside
  <2> QED BY <2>1, <2>2 DEF Next, CallStep
<1> QED BY <1>1, InitCalls, PTL DEF Spec

\* Every variable keeps its type: a register stays a register and no index
\* runs past the last register of a line, for every layout of the lines
\* (sdi_cpld_pin_group.c, the loops of read_level and write_level).
THEOREM PinTypeSafety == Spec => []TypeOK
<1>1. CallType /\ DataType => TypeOK
  BY DEF CallType, DataType, TypeOK
<1> QED BY <1>1, TypesKept, PTL

LEMMA FreshHolds == Apart => (Spec => []Fresh)
<1> SUFFICES ASSUME Apart PROVE Spec => []Fresh
  OBVIOUS
<1>1. CallType /\ DataType /\ Locked /\ Fresh /\ [Next]_vars => Fresh'
  <2> SUFFICES ASSUME CallType, DataType, Locked, Fresh, [Next]_vars PROVE Fresh'
    OBVIOUS
  <2>1. ASSUME NEW t \in Thread, CallStep(t) PROVE Fresh'
    BY <2>1, FreshKept
  <2>2. CASE UNCHANGED vars
    BY <2>2 DEF vars, locals, Fresh
  <2> QED BY <2>1, <2>2 DEF Next, CallStep
<1>2. Init => Fresh
  BY InitCalls
<1> QED BY <1>1, <1>2, TypesKept, PTL DEF Spec

\* If threads that use different lines share no register and callers write
\* levels that fit the line, a write changes the bits of its line and no
\* other, however the accesses interleave and fail, for lines of any number
\* of registers in either direction (sdi_cpld_pin_write_level,
\* sdi_cpld_pin_group_write_level).
THEOREM BitSafety == Apart /\ Fitting => (Spec => OwnBitsOnly)
<1> SUFFICES ASSUME Apart, Fitting PROVE Spec => OwnBitsOnly
  OBVIOUS
<1> DEFINE Own == \A a \in Address, b \in Bit :
                    (b \in regs[a]) # (b \in regs'[a]) =>
                      \E t \in Thread : /\ pc[t] = "write" /\ pc'[t] # "write"
                                        /\ <<a, b>> \in BitsOf(line[t])
<1>1. CallType /\ DataType /\ Fresh /\ [Next]_vars => [Own]_vars
  BY OwnStep
<1> QED BY <1>1, FreshHolds, TypesKept, PTL DEF Spec, OwnBitsOnly

\* If threads that use different lines share no register, a read that ends
\* without an error returns the level the line has when the read ends, all its
\* registers together, for every line but an inverted one of several registers
\* that does not start at bit 0 (sdi_cpld_pin_read_level,
\* sdi_cpld_pin_group_read_level).
THEOREM ReadSafety ==
  Apart /\ (\A l \in Line : ReadsStraight(l)) => (Spec => []ReadsWhatIs)
<1> SUFFICES ASSUME Apart, \A l \in Line : ReadsStraight(l) PROVE Spec => []ReadsWhatIs
  OBVIOUS
<1>1. Init => Gathered
  BY DEF Init, Gathered
<1>2. CallType /\ DataType /\ Locked /\ Fresh /\ Gathered /\ [Next]_vars => Gathered'
  <2> SUFFICES ASSUME CallType, DataType, Locked, Fresh, Gathered, [Next]_vars PROVE Gathered'
    OBVIOUS
  <2>1. ASSUME NEW t \in Thread, CallStep(t) PROVE Gathered'
    BY <2>1, GatheredKept
  <2>2. CASE UNCHANGED vars
    <3>1. \A u \in Thread : SoFar(line[u], k[u])' = SoFar(line[u], k[u])
      BY <2>2 DEF vars, locals, SoFar, Part
    <3>2. \A u \in Thread : Result(line[u])' = Result(line[u])
      BY <2>2 DEF vars, locals, Result, SoFar, Part, Length
    <3> QED BY <2>2, <3>1, <3>2 DEF vars, locals, Gathered
  <2> QED BY <2>1, <2>2 DEF Next, CallStep
<1>3. CallType /\ DataType /\ Gathered => ReadsWhatIs
  BY ResultRight DEF CallType, DataType, Gathered, ReadsWhatIs
<1> QED BY <1>1, <1>2, <1>3, FreshHolds, TypesKept, PTL DEF Spec

\* If besides no two lines have a bit in common and the written ones have one
\* register or start at bit 0, a level that was reported written stands until
\* the next write to its line, whatever is written to the other lines of its
\* registers and whatever fails (sdi_cpld_pin_write_level,
\* sdi_cpld_pin_group_write_level).
THEOREM StandingSafety ==
  Apart /\ Fitting /\ Separate /\ Straight => (Spec => []LastWriteStands)
<1> SUFFICES ASSUME Apart, Fitting, Separate, Straight PROVE Spec => []LastWriteStands
  OBVIOUS
<1> DEFINE Inv == Written /\ Pending /\ LastWriteStands
<1>1. Init => Inv
  BY DEF Init, Written, Pending, LastWriteStands
<1>2. CallType /\ DataType /\ Locked /\ Fresh /\ Inv /\ [Next]_vars => Inv'
  <2> SUFFICES ASSUME CallType, DataType, Locked, Fresh, Inv, [Next]_vars PROVE Inv'
    OBVIOUS
  <2>1. ASSUME NEW t \in Thread, CallStep(t) PROVE (Written /\ Pending)'
    BY <2>1, WrittenKept, PendingKept
  <2>2. ASSUME UNCHANGED vars PROVE (Written /\ Pending)'
    <3>1. \A u \in Thread, n \in Nat : Put(line[u], n, data[u])' <=> Put(line[u], n, data[u])
      BY <2>2 DEF vars, locals, Put
    <3>2. \A u \in Thread : Length(line[u])' = Length(line[u])
      BY <2>2 DEF vars, locals, Length
    <3> QED BY <2>2, <3>1, <3>2 DEF vars, locals, Written, Pending
  <2>3. LastWriteStands'
    BY StandsKept
  <2> QED BY <2>1, <2>2, <2>3 DEF Next, CallStep
<1>3. Inv => LastWriteStands
  OBVIOUS
<1> QED BY <1>1, <1>2, <1>3, FreshHolds, TypesKept, PTL DEF Spec
=============================================================================
