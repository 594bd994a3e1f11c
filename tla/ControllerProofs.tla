---------------------------- MODULE ControllerProofs ----------------------------
(* The fan controllers: no fault is lost in a register that reading clears, a    *)
(* poll tells of every fault it found, and the fan turns at the speed of the     *)
(* last accepted call, which is the speed that is read back. The SmartFusion     *)
(* bus: the RAM behind its ports is used whole, on boards whose registers are    *)
(* apart from each other and whose entity information is read by one thread.     *)
EXTENDS DeviceProofs

--------------------------------------------------------------------------------
(* Arithmetic of counts, percentages and the linear format. *)

LEMMA Quotient ==
  ASSUME NEW k \in Nat, NEW w \in Nat \ {0}, NEW q \in Nat, q * w <= k, k < (q + 1) * w
  PROVE  k \div w = q
  OBVIOUS

LEMMA DivideTwice ==
  ASSUME NEW k \in Nat, NEW a \in Nat \ {0}, NEW b \in Nat \ {0}
  PROVE  k \div (a * b) = (k \div a) \div b
  OBVIOUS

(* A count read back gives the speed it was made of, or one the count cannot *)
(* tell apart from it.                                                       *)
LEMMA CountReadsBack ==
  ASSUME NEW k \in Nat, NEW w \in Nat \ {0}, NEW c \in Nat \ {0}, c = k \div w
  PROVE  k \div c >= w /\ k \div (k \div c) = c
<1>1. c * w <= k /\ k < (c + 1) * w
  BY Division
<1>2. PICK r \in Nat : r = k \div c /\ r * c <= k /\ k < (r + 1) * c
  BY Division
<1>3. r >= w
  <2> SUFFICES ASSUME r + 1 <= w PROVE FALSE
    OBVIOUS
  <2>1. (r + 1) * c <= w * c
    OBVIOUS
  <2> QED
    BY <1>1, <1>2, <2>1
<1>4. c * r <= k /\ (c + 1) * w <= (c + 1) * r
  BY <1>2, <1>3
<1>5. k < (c + 1) * r
  BY <1>1, <1>2, <1>4
<1>6. r \in Nat \ {0} /\ c \in Nat
  BY <1>2, <1>3
<1>7. k \div r = c
  BY <1>4, <1>5, <1>6, Quotient, Zenon
<1> QED
  BY <1>2, <1>3, <1>7, Zenon

Counts(K, np, w, c) == c = (K \div np) \div w
ReadsBack(K, np, w, c) ==
  K \div (np * c) >= w /\ (K \div np) \div (K \div (np * c)) = c

LEMMA SpeedOfCount ==
  ASSUME NEW K \in Nat, NEW np \in Nat \ {0}, NEW w \in Nat \ {0}, NEW c \in Nat \ {0},
         Counts(K, np, w, c)
  PROVE  ReadsBack(K, np, w, c)
<1>1. PICK k \in Nat : k = K \div np
  OBVIOUS
<1>2. K \div (np * c) = k \div c
  BY <1>1
<1>3. c = k \div w
  BY <1>1 DEF Counts
<1>4. k \div c >= w /\ k \div (k \div c) = c
  BY <1>3, CountReadsBack
<1> QED
  BY <1>1, <1>2, <1>4 DEF ReadsBack

(* The drive setting of a percentage is less than four steps of 255 below it. *)
NearTo(q, v, m) == q * 100 * m <= v * 100 * 255 /\ (q + 4) * 100 * m > v * 100 * 255

LEMMA SettingNear ==
  ASSUME NEW v \in Nat, NEW m \in Nat \ {0}, v <= m,
         NEW p \in Nat, p = (v * 100) \div m, NEW q \in Nat, q = (p * 255) \div 100
  PROVE  q \in Byte /\ NearTo(q, v, m)
<1>1. p * m <= v * 100 /\ v * 100 < (p + 1) * m
  BY Division
<1>2. q * 100 <= p * 255 /\ p * 255 < (q + 1) * 100
  BY Division
<1>3. p <= 100
  <2> SUFFICES ASSUME p >= 101 PROVE FALSE
    OBVIOUS
  <2>1. 101 * m <= p * m
    OBVIOUS
  <2> QED
    BY <1>1, <2>1
<1>4. q \in Byte
  BY <1>2, <1>3 DEF Byte
<1>5. (q * 100) * m <= (p * 255) * m
  BY <1>2
<1>6. (p * 255) * m = (p * m) * 255 /\ (q * 100) * m = q * 100 * m
  OBVIOUS
<1>7. (p + 1) * 255 <= (q + 4) * 100
  BY <1>2
<1>8. ((p + 1) * 255) * m <= ((q + 4) * 100) * m
  BY <1>7
<1>9. ((p + 1) * 255) * m = ((p + 1) * m) * 255
  OBVIOUS
<1> QED
  BY <1>1, <1>4, <1>5, <1>6, <1>8, <1>9 DEF NearTo

Reg16 == {n \in Nat : n < 65536}

LEMMA TachInBytes ==
  ASSUME NEW t \in Reg16
  PROVE  /\ t \div 256 \in Byte /\ t % 256 \in Byte
         /\ (t \div 256) * 256 + (t % 256) = t
<1>1. t \in Int /\ 0 <= t /\ t < 65536
  BY DEF Reg16
<1>2. PICK q \in Int : q = t \div 256
  BY <1>1
<1>3. PICK r \in Int : r = t % 256
  BY <1>1
<1>4. 0 <= r /\ r < 256 /\ q * 256 + r = t
  BY <1>1, <1>2, <1>3
<1>5. q \in Byte /\ r \in Byte
  BY <1>1, <1>4 DEF Byte
<1> QED
  BY <1>2, <1>3, <1>4, <1>5

(* A count as RpmToTachCount stores it. *)
Shifted(k) == ((k % 65536) * 8) % 65536

LEMMA TachOfCount ==
  ASSUME NEW k \in Nat
  PROVE  Shifted(k) \in Reg16
<1>1. PICK j \in Nat : j = (k % 65536) * 8
  OBVIOUS
<1>2. j % 65536 \in Reg16
  <2>1. j % 65536 \in Int /\ 0 <= j % 65536 /\ j % 65536 < 65536
    OBVIOUS
  <2> QED
    BY <2>1 DEF Reg16
<1> QED
  BY <1>1, <1>2, SMT DEF Shifted

(* The count in a target. *)
CountIn(t) == t \div 8

LEMMA CountOfTach ==
  ASSUME NEW k \in Nat, k <= 8191
  PROVE  CountIn(Shifted(k)) = k
<1>1. k % 65536 = k
  OBVIOUS
<1>2. (k * 8) % 65536 = k * 8 /\ (k * 8) \div 8 = k
  OBVIOUS
<1> QED
  BY <1>1, <1>2 DEF Shifted, CountIn

(* The powers of two that a word can be shifted by. *)
LEMMA Powers ==
  /\ TwoTo[0] = 1
  /\ \A n \in 1..16 : TwoTo[n] = 2 * TwoTo[n - 1]
<1> DEFINE W == [n \in 0..16 |-> CASE n = 0 -> 1 [] n = 1 -> 2 [] n = 2 -> 4 [] n = 3 -> 8
                [] n = 4 -> 16 [] n = 5 -> 32 [] n = 6 -> 64 [] n = 7 -> 128 [] n = 8 -> 256
                [] n = 9 -> 512 [] n = 10 -> 1024 [] n = 11 -> 2048 [] n = 12 -> 4096
                [] n = 13 -> 8192 [] n = 14 -> 16384 [] n = 15 -> 32768 [] n = 16 -> 65536]
           Doubles(f) == f = [n \in 0..16 |-> IF n = 0 THEN 1 ELSE 2 * f[n - 1]]
<1>1. Doubles(W)
  OBVIOUS
<1>2. TwoTo = CHOOSE f : Doubles(f)
  BY DEF TwoTo
<1>3. Doubles(TwoTo)
  BY <1>1, <1>2
<1> QED
  BY <1>3

LEMMA PowerPositive ==
  ASSUME NEW n \in 0..16
  PROVE  TwoTo[n] \in Nat \ {0}
<1> DEFINE small == {k \in 0..16 : TwoTo[k] \notin Nat \ {0}}
<1>1. small = {}
  <2> SUFFICES ASSUME small # {} PROVE FALSE
    OBVIOUS
  <2>1. small \in SUBSET Nat
    OBVIOUS
  <2>2. PICK k \in small : \A m \in small : k <= m
    BY <2>1, LeastElement
  <2>3. k # 0
    BY Powers
  <2>4. k - 1 \in 0..16 /\ k - 1 \notin small
    BY <2>2, <2>3
  <2> QED
    BY <2>2, <2>3, <2>4, Powers
<1> QED
  BY <1>1
--------------------------------------------------------------------------------
(* The parts of a call. *)

Call(s) == DOMAIN s = {"ok", "left", "val", "chip", "drv"}
SeenForm == /\ DOMAIN seen = {"want", "raised"}
            /\ seen.want \in [Fan -> Speed \cup {NoSpeed}] /\ seen.raised \in SUBSET Fan

LEMMA Begun ==
  ASSUME NEW n
  PROVE  /\ Call(Begin(n)) /\ Begin(n).ok
         /\ Begin(n).chip = chip /\ Begin(n).drv = drv
  BY DEF Begin, Call

(* An access takes effect as a whole or not at all. *)
LEMMA Accessed ==
  ASSUME NEW s, Call(s), NEW t, Call(t), t.ok = s.ok
  PROVE  LET r == Access(s, t)
         IN /\ Call(r)
            /\ r.ok => s.ok /\ r.chip = t.chip /\ r.drv = t.drv /\ r.val = t.val
            /\ ~r.ok => r.chip = s.chip /\ r.drv = s.drv /\ r.val = s.val
  BY DEF Access, Call

LEMMA WentOn ==
  ASSUME NEW s, Call(s)
  PROVE  Call(GoOn(s)) /\ GoOn(s).ok /\ GoOn(s).chip = s.chip /\ GoOn(s).drv = s.drv
  BY DEF GoOn, Call

(* What the configuration says of a fan device. *)
LEMMA FanConfigured ==
  ASSUME conf \in FanConf
  PROVE  /\ conf.dev \in FanDevs /\ conf.max \in Nat /\ Speed \subseteq Nat
         /\ ~Is("pmbus") => conf.maxRpm \subseteq Nat
<1>1. conf.dev \in FanDevs /\ conf.max \in Nat /\ Speed \subseteq Nat
  BY FanConfAssumption
<1>2. ~Is("pmbus") => conf.maxRpm \subseteq Nat
  BY FanConfAssumption DEF Is
<1> QED
  BY <1>1, <1>2

LEMMA ConfiguredPulses ==
  ASSUME conf \in FanConf
  PROVE  /\ Is("max6620") => conf.np \in Nat \ {0} /\ conf.volt \in Nat
         /\ Is("emc2305") => conf.poles \in Nat \ {0}
  BY FanConfAssumption DEF Is

LEMMA ConfiguredSupply ==
  ASSUME conf \in FanConf, Is("pmbus")
  PROVE  /\ conf.map \in Seq([rpm : Nat, pct : Byte]) /\ conf.words \subseteq Byte \X Byte
         /\ conf.default \in Nat /\ (conf.max = 0 \/ conf.max >= 100)
  BY FanConfAssumption DEF Is

LEMMA SpeedForgotten ==
  ASSUME SeenForm, NEW f \in Fan, NEW z, z = Forgotten(f)
  PROVE  /\ DOMAIN z = {"want", "raised"} /\ z.raised = seen.raised
         /\ z.want = [seen.want EXCEPT ![f] = NoSpeed]
         /\ z.want \in [Fan -> Speed \cup {NoSpeed}]
  BY DEF SeenForm, Forgotten

LEMMA SpeedPromised ==
  ASSUME SeenForm, NEW f \in Fan, NEW v \in Speed \cup {NoSpeed}, NEW z, z = [seen EXCEPT !.want[f] = v]
  PROVE  /\ DOMAIN z = {"want", "raised"} /\ z.raised = seen.raised
         /\ z.want = [seen.want EXCEPT ![f] = v]
         /\ z.want \in [Fan -> Speed \cup {NoSpeed}]
  BY DEF SeenForm

--------------------------------------------------------------------------------
(* MAX6620: the form of its data, and what the parts of its calls do with them. *)

(* A tachometer count has eleven bits. *)
Count11 == {n \in Nat : n < 2048}
Chip6620(c) ==
  /\ DOMAIN c = {"full", "fault", "armed", "count", "volt", "rpmMode"}
  /\ c.fault \in SUBSET Fan /\ c.armed \in SUBSET Fan
  /\ c.count \in [Fan -> Count11] /\ c.volt \in [Fan -> Nat]
Periods == {0, 1, 2, 4, 8, 16, 32}
Drv6620(d) ==
  /\ DOMAIN d = {"stage", "ready", "latch", "max", "period"}
  /\ d.ready \in SUBSET Fan /\ d.latch \in SUBSET Fan
  /\ d.max \in [Fan -> Nat] /\ d.period \in [Fan -> Periods]
Form6620(s) == Call(s) /\ Chip6620(s.chip) /\ Drv6620(s.drv)

LEMMA PeriodIn ==
  ASSUME NEW max \in Nat
  PROVE  PeriodFor(max) \in {1, 2, 4, 8, 16, 32}
<1> DEFINE fits == {p \in {1, 2, 4, 8, 16} : max <= 500 * p}
<1>1. fits # {} => Min(fits) \in fits
  BY LeastNatural
<1> HIDE DEF fits
<1>2. fits \subseteq {1, 2, 4, 8, 16}
  BY DEF fits
<1>3. PeriodFor(max) = IF max = 0 \/ fits = {} THEN 32 ELSE Min(fits)
  BY DEF PeriodFor, fits
<1> QED
  BY <1>1, <1>2, <1>3

CountWritten(c, f, k) == [c EXCEPT !.count[f] = k, !.armed = @ \cup {f}]

(* The write of a target takes effect as a whole or not at all. *)
LEMMA TargetSet ==
  ASSUME NEW s, Form6620(s), NEW f \in Fan, NEW c \in Nat
  PROVE  LET r == TargetTachCountSet(s, f, c)
         IN /\ Form6620(r) /\ r.drv = s.drv
            /\ r.chip.fault = s.chip.fault
            /\ ~r.ok => r.chip = s.chip
            /\ r.ok => /\ s.ok
                       /\ r.chip.count = [s.chip.count EXCEPT ![f] = c % 2048]
                       /\ r.chip.armed = s.chip.armed \cup {f}
<1>1. PICK a : a = Access(s, s)
  OBVIOUS
<1>2. Call(a) /\ a.chip = s.chip /\ a.drv = s.drv /\ (a.ok => s.ok)
  BY <1>1, Accessed DEF Form6620
<1>3. PICK k \in Count11 : k = c % 2048
  BY DEF Count11
<1>4. PICK p : p = a.chip
  OBVIOUS
<1>5. Chip6620(p)
  BY <1>2, <1>4 DEF Form6620
<1>6. PICK y : y = CountWritten(p, f, k)
  OBVIOUS
<1>7. /\ Chip6620(y) /\ y.count = [p.count EXCEPT ![f] = k]
      /\ y.armed = p.armed \cup {f} /\ y.fault = p.fault
  <2>1. DOMAIN y = DOMAIN p /\ y.fault = p.fault /\ y.volt = p.volt
    BY <1>5, <1>6 DEF Chip6620, CountWritten
  <2>2. y.armed = p.armed \cup {f}
    BY <1>5, <1>6 DEF Chip6620, CountWritten
  <2>3. y.count = [p.count EXCEPT ![f] = k]
    BY <1>5, <1>6 DEF Chip6620, CountWritten
  <2>4. y.count \in [Fan -> Count11] /\ y.armed \in SUBSET Fan
    <3>1. PICK g \in [Fan -> Count11] : g = p.count
      BY <1>5 DEF Chip6620
    <3> DEFINE z == [g EXCEPT ![f] = k]
    <3>3. z \in [Fan -> Count11]
      BY <1>3
    <3>4. y.count = z
      BY <2>3, <3>1
    <3> HIDE DEF z
    <3>5. y.armed \in SUBSET Fan
      BY <1>5, <2>2 DEF Chip6620
    <3> QED
      BY <3>3, <3>4, <3>5
  <2>5. Chip6620(y)
    BY <1>5, <2>1, <2>4 DEF Chip6620
  <2> QED
    BY <2>1, <2>2, <2>3, <2>5
<1> DEFINE b == [a EXCEPT !.chip.count[f] = k, !.chip.armed = @ \cup {f}]
<1>8. Call(b) /\ b.chip = y /\ b.drv = a.drv /\ b.ok = a.ok
  BY <1>2, <1>4, <1>5, <1>6 DEF Call, Chip6620, CountWritten
<1>14. TargetTachCountSet(s, f, c) = Access(a, b)
  BY <1>1, <1>3 DEF TargetTachCountSet
<1> HIDE DEF b
<1>15. PICK r : r = Access(a, b)
  OBVIOUS
<1>16. /\ Call(r) /\ r.drv = a.drv
       /\ r.ok => a.ok /\ r.chip = y
       /\ ~r.ok => r.chip = a.chip
  BY <1>2, <1>8, <1>15, Accessed
<1> QED
  BY <1>2, <1>3, <1>4, <1>5, <1>7, <1>14, <1>15, <1>16 DEF Form6620

LEMMA CountIsNat ==
  ASSUME conf \in FanConf, Is("max6620"), NEW s, Form6620(s), NEW f \in Fan, NEW rpm \in Nat
  PROVE  Max6620Count(s, f, rpm) \in Nat
<1>1. conf.np \in Nat \ {0}
  BY ConfiguredPulses
<1>2. PICK p \in Nat : p = s.drv.period[f]
  BY DEF Form6620, Drv6620, Periods
<1>3. ASSUME NEW np \in Nat \ {0}, NEW r \in Nat \ {0}
      PROVE  (p * 60 * 8192) \div (np * r) \in Nat
  <2>1. np * r \in Nat \ {0} /\ p * 60 * 8192 \in Nat
    OBVIOUS
  <2> QED
    BY <2>1
<1> QED
  BY <1>1, <1>2, <1>3 DEF Max6620Count, Stopped

(* The initialisation of a fan sets its period for good, and no other fan's count. *)
LEMMA FanInitialised ==
  ASSUME conf \in FanConf, Is("max6620"), NEW s, Form6620(s), NEW f \in Fan
  PROVE  LET r == Max6620InitFan(s, f)
         IN /\ Form6620(r)
            /\ r.chip.fault = s.chip.fault /\ s.chip.armed \subseteq r.chip.armed
            /\ \A g \in Fan \ {f} : r.chip.count[g] = s.chip.count[g]
            /\ r.drv = [s.drv EXCEPT !.period[f] = PeriodFor(s.drv.max[f])]
<1>1. PICK k \in Periods : k = PeriodFor(s.drv.max[f])
  BY PeriodIn DEF Form6620, Drv6620, Periods
<1>2. PICK d : d = [s.drv EXCEPT !.period[f] = k]
  BY DEF Form6620, Drv6620
<1>3. Drv6620(d)
  BY <1>2 DEF Form6620, Drv6620
<1>4. PICK a : a = [s EXCEPT !.drv.period[f] = k]
  BY DEF Form6620, Call, Drv6620
<1>5. Call(a) /\ a.chip = s.chip /\ a.drv = d
  BY <1>2, <1>4 DEF Form6620, Call, Drv6620
<1>6. PICK b : b = Access(a, a)
  OBVIOUS
<1>7. PICK c : c = Access(b, b)
  OBVIOUS
<1>8. TachCountPeriodSet(s, f) = c
  BY <1>1, <1>4, <1>6, <1>7 DEF TachCountPeriodSet
<1>9. Call(c) /\ c.chip = s.chip /\ c.drv = d
  BY <1>5, <1>6, <1>7, Accessed
<1>10. PICK g1 : g1 = GoOn(c)
  OBVIOUS
<1>11. Call(g1) /\ g1.chip = s.chip /\ g1.drv = d
  BY <1>9, <1>10, WentOn
<1>12. PICK e : e = Access(g1, g1)
  OBVIOUS
<1>13. Form6620(e) /\ e.chip = s.chip /\ e.drv = d
  BY <1>3, <1>11, <1>12, Accessed DEF Form6620
<1>14. PICK rpm \in Nat : rpm = (e.drv.max[f] * ((e.chip.volt[f] * 100) \div 511)) \div 100
  <2>1. PICK m \in Nat, v \in Nat : m = e.drv.max[f] /\ v = e.chip.volt[f]
    <3>1. Drv6620(e.drv) /\ Chip6620(e.chip)
      BY <1>13 DEF Form6620
    <3>2. e.drv.max[f] \in Nat
      BY <3>1 DEF Drv6620
    <3>3. e.chip.volt[f] \in Nat
      BY <3>1 DEF Chip6620
    <3> QED
      BY <3>2, <3>3
  <2>2. PICK q \in Nat : q = (v * 100) \div 511
    OBVIOUS
  <2>3. m * q \in Nat
    OBVIOUS
  <2>4. (m * q) \div 100 \in Nat
    BY <2>3
  <2> QED
    BY <2>1, <2>2, <2>4
<1>15. PICK t : t = TargetTachCountSet(e, f, Max6620Count(e, f, rpm))
  OBVIOUS
<1>16. /\ Form6620(t) /\ t.drv = d
       /\ t.chip.fault = s.chip.fault /\ s.chip.armed \subseteq t.chip.armed
       /\ \A g \in Fan \ {f} : t.chip.count[g] = s.chip.count[g]
  <2>1. PICK n \in Nat : n = Max6620Count(e, f, rpm)
    BY <1>13, CountIsNat
  <2>2. t = TargetTachCountSet(e, f, n)
    BY <1>15, <2>1
  <2>3. /\ Form6620(t) /\ t.drv = e.drv /\ t.chip.fault = e.chip.fault
        /\ ~t.ok => t.chip = e.chip
        /\ t.ok => t.chip.count = [e.chip.count EXCEPT ![f] = n % 2048]
        /\ t.ok => t.chip.armed = e.chip.armed \cup {f}
    BY <1>13, <2>2, TargetSet
  <2>4. PICK C : C = e.chip.count /\ C \in [Fan -> Count11]
    <3>1. PICK h : h = e.chip
      OBVIOUS
    <3>2. Chip6620(h)
      BY <1>13, <3>1 DEF Form6620
    <3>3. h.count \in [Fan -> Count11]
      BY ONLY <3>2 DEF Chip6620
    <3> QED
      BY <3>1, <3>3
  <2>5. PICK j \in Count11 : j = n % 2048
    BY <2>1 DEF Count11
  <2>6. t.chip.count = C \/ t.chip.count = [C EXCEPT ![f] = j]
    <3>1. CASE t.ok
      <4>1. t.chip.count = [e.chip.count EXCEPT ![f] = n % 2048]
        BY <2>3, <3>1
      <4> QED
        BY ONLY <4>1, <2>4, <2>5
    <3>2. CASE ~t.ok
      <4>1. t.chip = e.chip
        BY <2>3, <3>2
      <4> QED
        BY ONLY <4>1, <2>4
    <3> QED
      BY ONLY <3>1, <3>2
  <2>7. \A g \in Fan \ {f} : t.chip.count[g] = s.chip.count[g]
    <3>1. e.chip.count = s.chip.count
      BY <1>13
    <3>2. PICK x : x = t.chip.count
      OBVIOUS
    <3>3. \A g \in Fan \ {f} : x[g] = C[g]
      BY ONLY <2>4, <2>6, <3>2
    <3> QED
      BY ONLY <2>4, <3>1, <3>2, <3>3
  <2>8. s.chip.armed \subseteq t.chip.armed
    BY <1>13, <2>3
  <2> QED
    BY <1>13, <2>3, <2>7, <2>8
<1>17. PICK u : u = Then(e, t)
  OBVIOUS
<1>18. /\ Form6620(u) /\ u.drv = d
       /\ u.chip.fault = s.chip.fault /\ s.chip.armed \subseteq u.chip.armed
       /\ \A g \in Fan \ {f} : u.chip.count[g] = s.chip.count[g]
  BY <1>13, <1>16, <1>17 DEF Then
<1> DEFINE w == [u EXCEPT !.chip.rpmMode[f] = TRUE]
<1>19. /\ Form6620(w) /\ w.drv = d /\ w.ok = u.ok
       /\ w.chip.fault = u.chip.fault /\ w.chip.armed = u.chip.armed /\ w.chip.count = u.chip.count
  <2>1. PICK c0 : c0 = u.chip
    OBVIOUS
  <2>2. Chip6620(c0) /\ Call(u)
    BY <1>18, <2>1 DEF Form6620
  <2>3. PICK c1 : c1 = [c0 EXCEPT !.rpmMode[f] = TRUE]
    OBVIOUS
  <2>4. /\ Chip6620(c1)
        /\ c1.fault = c0.fault /\ c1.armed = c0.armed /\ c1.count = c0.count
    BY <2>2, <2>3 DEF Chip6620
  <2>5. Call(w) /\ w.drv = u.drv /\ w.ok = u.ok /\ w.chip = c1
    BY <2>1, <2>2, <2>3 DEF Call
  <2> HIDE DEF w
  <2> QED
    BY <1>18, <2>1, <2>4, <2>5 DEF Form6620
<1>20. Max6620InitFan(s, f) = Access(u, w)
  BY <1>8, <1>10, <1>12, <1>14, <1>15, <1>17 DEF Max6620InitFan
<1> HIDE DEF w
<1>21. PICK r : r = Access(u, w)
  OBVIOUS
<1>22. /\ Call(r) /\ r.drv = d
       /\ r.ok => r.chip = w.chip
       /\ ~r.ok => r.chip = u.chip
  BY <1>18, <1>19, <1>21, Accessed DEF Form6620
<1> QED
  BY <1>1, <1>2, <1>18, <1>19, <1>20, <1>21, <1>22 DEF Form6620

(* The faults of a read go to the latch; none is lost. *)
LEMMA FaultsLatched ==
  ASSUME NEW s, Form6620(s), NEW r, r = Access(s, LatchFaults(s))
  PROVE  /\ Form6620(r)
         /\ r.chip.armed = s.chip.armed /\ r.chip.count = s.chip.count
         /\ r.drv.stage = s.drv.stage /\ r.drv.ready = s.drv.ready
         /\ r.drv.max = s.drv.max /\ r.drv.period = s.drv.period
         /\ r.chip.fault \cup r.drv.latch = s.chip.fault \cup s.drv.latch
         /\ r.ok => r.drv.latch = s.drv.latch \cup s.chip.fault
         /\ r.chip.fault \subseteq s.chip.fault
<1>1. PICK c0 : c0 = s.chip
  OBVIOUS
<1>2. PICK d0 : d0 = s.drv
  OBVIOUS
<1>3. Chip6620(c0) /\ Drv6620(d0) /\ Call(s)
  BY <1>1, <1>2 DEF Form6620
<1>4. PICK c1 : c1 = [c0 EXCEPT !.fault = {}]
  OBVIOUS
<1>5. PICK L : L = d0.latch \cup c0.fault
  OBVIOUS
<1>6. PICK d1 : d1 = [d0 EXCEPT !.latch = L]
  OBVIOUS
<1>7. Chip6620(c1) /\ c1.armed = c0.armed /\ c1.count = c0.count /\ c1.fault = {}
  BY <1>3, <1>4 DEF Chip6620
<1>8. /\ Drv6620(d1) /\ d1.latch = L
      /\ d1.stage = d0.stage /\ d1.ready = d0.ready /\ d1.max = d0.max /\ d1.period = d0.period
  BY <1>3, <1>5, <1>6 DEF Drv6620, Chip6620
<1>9. PICK t : t = LatchFaults(s)
  OBVIOUS
<1>10. Call(t) /\ t.ok = s.ok /\ t.chip = c1 /\ t.drv = d1
  BY <1>1, <1>2, <1>3, <1>4, <1>5, <1>6, <1>9 DEF LatchFaults, Call
<1>11. /\ Call(r)
       /\ r.ok => r.chip = c1 /\ r.drv = d1
       /\ ~r.ok => r.chip = c0 /\ r.drv = d0
  BY <1>1, <1>2, <1>3, <1>9, <1>10, Accessed
<1>12. CASE r.ok
  BY <1>1, <1>2, <1>3, <1>5, <1>7, <1>8, <1>11, <1>12 DEF Form6620
<1>13. CASE ~r.ok
  BY <1>1, <1>2, <1>3, <1>11, <1>13 DEF Form6620
<1> QED
  BY <1>12, <1>13

(* A fan leaves the latch when it has been armed again. *)
LEMMA FaultTaken ==
  ASSUME NEW s, Form6620(s), NEW f \in Fan, NEW r, r = Unlatch(s, f)
  PROVE  /\ Form6620(r) /\ r.chip = s.chip /\ (r.ok <=> s.ok)
         /\ r.drv.stage = s.drv.stage /\ r.drv.ready = s.drv.ready
         /\ r.drv.max = s.drv.max /\ r.drv.period = s.drv.period
         /\ r.ok => r.drv.latch = s.drv.latch \ {f}
         /\ ~r.ok => r.drv.latch = s.drv.latch
<1>1. PICK d0 : d0 = s.drv
  OBVIOUS
<1>2. PICK L : L = d0.latch \ {f}
  OBVIOUS
<1>3. PICK d1 : d1 = [d0 EXCEPT !.latch = L]
  OBVIOUS
<1>4. /\ Drv6620(d1) /\ d1.latch = L
      /\ d1.stage = d0.stage /\ d1.ready = d0.ready /\ d1.max = d0.max /\ d1.period = d0.period
  BY <1>1, <1>2, <1>3 DEF Drv6620, Form6620
<1>5. PICK t : t = [s EXCEPT !.drv.latch = L]
  BY DEF Form6620, Call
<1>6. Call(t) /\ t.ok = s.ok /\ t.chip = s.chip /\ t.drv = d1
  BY <1>1, <1>3, <1>5 DEF Form6620, Call
<1>7. r = IF s.ok THEN t ELSE s
  BY <1>1, <1>2, <1>5 DEF Unlatch, Then
<1> QED
  BY <1>1, <1>2, <1>4, <1>6, <1>7 DEF Form6620

--------------------------------------------------------------------------------
(* Whose steps they are, and those that only ask. *)

Quiet == /\ UNCHANGED <<conf, chip, drv, seen>>
         /\ UNCHANGED out \/ out'.call \notin {"speed_get", "word_get", "status_get"}

LEMMA AsksNothing ==
  ASSUME NEW call, call \notin {"speed_get", "word_get", "status_get"}, NEW n, NEW val,
         Finish(call, Begin(n), val, seen) \/ Die(call)
  PROVE  Quiet
  BY DEF Finish, Begin, Die, Refuse, Outcome, Quiet

LEMMA Asks ==
  ASSUME \/ Taken \/ UNCHANGED device \/ PmbusThresholds \/ FanApiRefuses
         \/ \E rpm \in Speed : FanApiRpmToPct(rpm)
         \/ \E pct \in {0, 50} : FanApiPctToRpm(pct)
  PROVE  Quiet
<1>1. CASE Taken \/ UNCHANGED device \/ PmbusThresholds \/ FanApiRefuses
  BY <1>1 DEF Taken, device, NoCall, PmbusThresholds, FanApiRefuses, Refuse, Outcome, Quiet
<1>2. ASSUME NEW rpm \in Speed, FanApiRpmToPct(rpm)
      PROVE  Quiet
  <2>1. CASE conf.dev = "pmbus"
    BY <1>2, <2>1, AsksNothing DEF FanApiRpmToPct
  <2>2. CASE conf.dev # "pmbus"
    <3>1. PICK info \in conf.info :
            IF info.valid /\ info.max = 0 THEN Die("rpm_to_pct")
            ELSE Finish("rpm_to_pct", Begin(Accesses),
                        IF info.valid THEN (100 * rpm) \div info.max ELSE 100, seen)
      BY <1>2, <2>2 DEF FanApiRpmToPct
    <3> QED
      BY <3>1, AsksNothing
  <2> QED
    BY <2>1, <2>2
<1>3. ASSUME NEW pct \in {0, 50}, FanApiPctToRpm(pct)
      PROVE  Quiet
  <2>1. CASE conf.dev = "pmbus"
    BY <1>3, <2>1, AsksNothing DEF FanApiPctToRpm
  <2>2. CASE conf.dev # "pmbus"
    <3>1. PICK info \in conf.info :
            Finish("pct_to_rpm", Begin(Accesses),
                   IF info.valid THEN (pct * info.max) \div 100 ELSE 0, seen)
      BY <1>3, <2>2 DEF FanApiPctToRpm
    <3> QED
      BY <3>1, AsksNothing
  <2> QED
    BY <2>1, <2>2
<1> QED
  BY <1>1, <1>2, <1>3

Call6620(n, f) ==
  \/ Max6620ResourceInit(n, f) \/ Max6620SpeedGet(n, f) \/ Max6620StatusGet(n, f)
  \/ \E rpm \in Speed : Max6620SpeedSet(n, f, rpm)
Call2305(n, f) ==
  \/ Emc2305ResourceInit(n, f) \/ Emc2305SpeedGet(n, f) \/ Emc2305StatusGet(n, f)
  \/ \E rpm \in Speed : Emc2305SpeedSet(n, f, rpm)
CallSupply(n, f) ==
  \/ PmbusResourceInit(n, f) \/ PmbusSpeedGet(n, f) \/ PmbusStatusGet(n, f)
  \/ \E rpm \in Speed : PmbusSpeedSet(n, f, rpm)

LEMMA Whose ==
  ASSUME conf.dev \in FanDevs, [Next]_device
  PROVE  /\ Is("max6620") =>
              \/ Quiet \/ \E n \in Fails : Max6620ChipInit(n)
              \/ \E n \in Fails, f \in Fan : Call6620(n, f)
              \/ \E f \in Fan : Max6620Fault(f)
         /\ Is("emc2305") =>
              \/ Quiet \/ \E n \in Fails : Emc2305ChipInit(n)
              \/ \E n \in Fails, f \in Fan : Call2305(n, f)
              \/ \E f \in Fan : Emc2305Fault(f)
         /\ Is("pmbus") =>
              \/ Quiet \/ \E n \in Fails : PmbusTemperatureGet(n)
              \/ \E n \in Fails, f \in Fan : CallSupply(n, f)
              \/ PmbusWorld
<1>1. Taken \/ UNCHANGED device \/ FanNext
  BY Steps
<1>2. CASE Taken \/ UNCHANGED device
  BY <1>2, Asks
<1>3. CASE FanNext
  <2>1. ASSUME NEW n \in Fails, FanStart(n)
        PROVE  \/ Is("max6620") /\ ~Is("emc2305") /\ ~Is("pmbus") /\ Max6620ChipInit(n)
               \/ Is("emc2305") /\ ~Is("max6620") /\ ~Is("pmbus") /\ Emc2305ChipInit(n)
    BY <2>1 DEF FanStart, Max6620ChipInit, Emc2305ChipInit, On, Is
  <2>2. ASSUME NEW n \in Fails, PmbusTemperatureGet(n)
        PROVE  Is("pmbus") /\ ~Is("max6620") /\ ~Is("emc2305")
    BY <2>2 DEF PmbusTemperatureGet, On, Is
  <2>3. ASSUME NEW n \in Fails, NEW f \in Fan, FanCall(n, f)
        PROVE  \/ Is("max6620") /\ ~Is("emc2305") /\ ~Is("pmbus") /\ Call6620(n, f)
               \/ Is("emc2305") /\ ~Is("max6620") /\ ~Is("pmbus") /\ Call2305(n, f)
               \/ Is("pmbus") /\ ~Is("max6620") /\ ~Is("emc2305") /\ CallSupply(n, f)
    <3> USE DEF Usable, On, Is
    <3>1. CASE Call6620(n, f)
      BY <3>1 DEF Call6620, Max6620ResourceInit, Max6620SpeedGet, Max6620StatusGet, Max6620SpeedSet
    <3>2. CASE Call2305(n, f)
      <4>1. Emc2305ResourceInit(n, f) => Is("emc2305")
        BY DEF Emc2305ResourceInit
      <4>2. Emc2305SpeedGet(n, f) \/ Emc2305StatusGet(n, f) => Is("emc2305")
        BY DEF Emc2305SpeedGet, Emc2305StatusGet
      <4>3. ASSUME NEW rpm \in Speed, Emc2305SpeedSet(n, f, rpm)
            PROVE  Is("emc2305")
        BY <4>3 DEF Emc2305SpeedSet
      <4>4. Is("emc2305")
        BY <3>2, <4>1, <4>2, <4>3 DEF Call2305
      <4> QED
        BY <3>2, <4>4
    <3>3. CASE CallSupply(n, f)
      BY <3>3 DEF CallSupply, PmbusResourceInit, PmbusSpeedGet, PmbusStatusGet, PmbusSpeedSet
    <3>4. Call6620(n, f) \/ Call2305(n, f) \/ CallSupply(n, f)
      BY <2>3, Zenon DEF FanCall, Call6620, Call2305, CallSupply
    <3> QED
      BY <3>1, <3>2, <3>3, <3>4
  <2>4. ASSUME NEW f \in Fan, Max6620Fault(f) \/ Emc2305Fault(f)
        PROVE  \/ Is("max6620") /\ ~Is("emc2305") /\ ~Is("pmbus") /\ Max6620Fault(f)
               \/ Is("emc2305") /\ ~Is("max6620") /\ ~Is("pmbus") /\ Emc2305Fault(f)
    BY <2>4 DEF Max6620Fault, Emc2305Fault, Usable, On, Is
  <2>5. PmbusWorld => Is("pmbus") /\ ~Is("max6620") /\ ~Is("emc2305")
    BY DEF PmbusWorld, On, Is
  <2>6. CASE \/ \E n \in Fails : FanStart(n) \/ PmbusTemperatureGet(n)
             \/ \E n \in Fails, f \in Fan : FanCall(n, f)
    BY <2>1, <2>2, <2>3, <2>6
  <2>7. CASE \/ \E f \in Fan : Max6620Fault(f) \/ Emc2305Fault(f)
             \/ PmbusWorld
    BY <2>4, <2>5, <2>7
  <2>8. CASE \/ PmbusThresholds \/ FanApiRefuses
             \/ \E rpm \in Speed : FanApiRpmToPct(rpm)
             \/ \E pct \in {0, 50} : FanApiPctToRpm(pct)
    BY <2>8, Asks
  <2> QED
    BY <1>3, <2>6, <2>7, <2>8, Zenon DEF FanNext
<1> QED
  BY <1>1, <1>2, <1>3

--------------------------------------------------------------------------------
(* The invariant of a MAX6620. A fan that was initialised counts in the period of *)
(* its maximum; a fan that was given a speed was initialised and has the count of *)
(* that speed; and every fan has its detection on, a fault in the register or one *)
(* in the latch.                                                                  *)

CountFor(max, w) == ((PeriodFor(max) * 60 * 8192) \div conf.np) \div w
TargetCount(c, max, w) == Fits(CountFor(max, w), 2046) => c = CountFor(max, w)

Data6620 ==
  /\ conf \in FanConf /\ Chip6620(chip) /\ Drv6620(drv) /\ SeenForm
  /\ drv.stage = "registered" => drv.ready = {} /\ chip.fault = {}
PeriodsSet == \A f \in drv.ready : drv.period[f] = PeriodFor(drv.max[f])
AskedReady == \A f \in Fan : seen.want[f] # NoSpeed => f \in drv.ready
FaultsCovered ==
  /\ seen.raised \subseteq chip.fault \cup drv.latch
  /\ Fan \subseteq chip.armed \cup (chip.fault \cup drv.latch)
CountsStand ==
  \A f \in Fan : seen.want[f] > 0 => TargetCount(chip.count[f], drv.max[f], seen.want[f])
State6620 == Data6620 /\ PeriodsSet /\ AskedReady /\ FaultsCovered /\ CountsStand
Inv6620 == Is("max6620") => State6620 /\ SpeedReadsBack

LEMMA SameCounts ==
  ASSUME UNCHANGED conf
  PROVE  \A c, max, w : TargetCount(c, max, w)' <=> TargetCount(c, max, w)
  BY DEF TargetCount, CountFor

(* The count that speed_set computes is the one of the speed. *)
LEMMA CountOfSpeed ==
  ASSUME conf \in FanConf, Is("max6620"), NEW s, Form6620(s), NEW f \in Fan, NEW w \in Nat \ {0},
         s.drv.period[f] = PeriodFor(s.drv.max[f]), NEW n, n = Max6620Count(s, f, w)
  PROVE  TargetCount(n % 2048, s.drv.max[f], w)
<1>1. PICK np \in Nat \ {0} : np = conf.np
  BY ConfiguredPulses
<1>2. PICK p \in Nat : p = s.drv.period[f]
  BY DEF Form6620, Drv6620, Periods
<1>3. PICK K \in Nat : K = p * 60 * 8192
  OBVIOUS
<1>4. PICK k \in Nat : k = K \div np
  OBVIOUS
<1>5. PICK q \in Nat : q = k \div w
  OBVIOUS
<1>6. n = K \div (np * w)
  BY <1>1, <1>2, <1>3 DEF Max6620Count
<1>7. n = q
  BY <1>4, <1>5, <1>6, DivideTwice
<1>8. q \in 1..2046 => q % 2048 = q
  BY <1>5
<1>9. (PeriodFor(s.drv.max[f]) * 60 * 8192) \div conf.np = k
  BY <1>1, <1>2, <1>3, <1>4
<1>10. CountFor(s.drv.max[f], w) = q
  BY <1>5, <1>9 DEF CountFor
<1>11. Fits(q, 2046) => n % 2048 = q
  BY <1>7, <1>8 DEF Fits
<1> QED
  BY <1>10, <1>11 DEF TargetCount, Fits

LEMMA Starts6620 == Init => Inv6620
<1> SUFFICES ASSUME Init, Is("max6620") PROVE State6620 /\ SpeedReadsBack
  BY DEF Inv6620
<1>1. Max6620Init
  BY Starts DEF FanInit, Max6620Init, Emc2305Init, PmbusInit, Is, FanDevs
<1>2. conf \in FanConf /\ conf.max \in Nat /\ conf.volt \in Nat
  BY <1>1, FanConfigured, ConfiguredPulses DEF Max6620Init
<1>3. out = NoCall
  BY <1>1 DEF Max6620Init
<1>9. Stopped \in Count11
  BY DEF Stopped, Count11
<1>4. Chip6620(chip) /\ chip.fault = {} /\ chip.armed = Fan
  BY <1>1, <1>2, <1>9 DEF Max6620Init, Chip6620
<1>5. Drv6620(drv) /\ drv.ready = {} /\ drv.latch = {}
  BY <1>1, <1>2 DEF Max6620Init, Drv6620, Periods
<1>6. SeenForm /\ seen.raised = {} /\ \A f \in Fan : seen.want[f] = NoSpeed
  BY <1>1 DEF Max6620Init, SeenForm, NothingSeen
<1> QED
  BY <1>2, <1>3, <1>4, <1>5, <1>6
     DEF State6620, Data6620, PeriodsSet, AskedReady, FaultsCovered, CountsStand, SpeedReadsBack,
         NoCall, NoSpeed

(* A step that leaves the speeds asked for, the maxima and the counts alone. *)
LEMMA Stands6620 ==
  ASSUME State6620, UNCHANGED conf, Chip6620(chip'), Drv6620(drv'), SeenForm',
         drv'.stage = "registered" => drv.stage = "registered" /\ chip'.fault = {},
         chip'.count = chip.count, drv'.max = drv.max, drv'.period = drv.period,
         drv'.ready = drv.ready, seen'.want = seen.want, FaultsCovered'
  PROVE  State6620'
<1>1. Data6620'
  BY DEF State6620, Data6620
<1>2. PeriodsSet'
  BY DEF State6620, PeriodsSet
<1>3. AskedReady'
  BY DEF State6620, AskedReady
<1>4. CountsStand'
  BY SameCounts DEF State6620, CountsStand
<1> QED
  BY <1>1, <1>2, <1>3, <1>4 DEF State6620

LEMMA ChipInit6620 ==
  ASSUME State6620, NEW n, Max6620ChipInit(n)
  PROVE  State6620' /\ out'.call = "chip_init" /\ UNCHANGED conf
<1>1. PICK s0 : s0 = Begin(n)
  OBVIOUS
<1>2. PICK s1 : s1 = Access(s0, s0)
  OBVIOUS
<1>3. Call(s1) /\ s1.chip = chip /\ s1.drv = drv
  BY <1>1, <1>2, Begun, Accessed
<1>4. /\ conf \in FanConf /\ Chip6620(chip) /\ Drv6620(drv) /\ SeenForm
      /\ drv.ready = {} /\ chip.fault = {}
  BY DEF State6620, Data6620, Max6620ChipInit
<1>5. PICK c1 : c1 = [chip EXCEPT !.full = conf.fullOnFail]
  OBVIOUS
<1>6. Chip6620(c1) /\ c1.count = chip.count /\ c1.armed = chip.armed /\ c1.fault = {}
  BY <1>4, <1>5 DEF Chip6620
<1>7. PICK t1 : t1 = [s1 EXCEPT !.chip.full = conf.fullOnFail]
  OBVIOUS
<1>8. Call(t1) /\ t1.ok = s1.ok /\ t1.chip = c1 /\ t1.drv = drv
  BY <1>3, <1>5, <1>7 DEF Call
<1>9. PICK s2 : s2 = Access(s1, t1)
  OBVIOUS
<1>10. Call(s2) /\ s2.drv = drv /\ (s2.chip = c1 \/ s2.chip = chip)
  BY <1>3, <1>8, <1>9, Accessed
<1>11. PICK c2 : c2 = s2.chip
  OBVIOUS
<1>12. Chip6620(c2) /\ c2.count = chip.count /\ c2.armed = chip.armed /\ c2.fault = {}
  BY <1>4, <1>6, <1>10, <1>11
<1>13. PICK c3 : c3 = [c2 EXCEPT !.fault = {}]
  OBVIOUS
<1>14. Chip6620(c3) /\ c3.count = chip.count /\ c3.armed = chip.armed /\ c3.fault = {}
  BY <1>12, <1>13 DEF Chip6620
<1>15. PICK t2 : t2 = [s2 EXCEPT !.chip.fault = {}]
  OBVIOUS
<1>16. Call(t2) /\ t2.ok = s2.ok /\ t2.chip = c3 /\ t2.drv = drv
  BY <1>10, <1>11, <1>13, <1>15 DEF Call
<1>17. PICK s3 : s3 = Access(s2, t2)
  OBVIOUS
<1>18. Call(s3) /\ s3.drv = drv /\ (s3.chip = c3 \/ s3.chip = c2)
  BY <1>10, <1>11, <1>16, <1>17, Accessed
<1>19. Finish("chip_init", [s3 EXCEPT !.drv.stage = "up"], 0,
              [seen EXCEPT !.raised = @ \cap s3.chip.fault])
  BY <1>1, <1>2, <1>7, <1>9, <1>15, <1>17 DEF Max6620ChipInit
<1>20. PICK d : d = [drv EXCEPT !.stage = "up"]
  OBVIOUS
<1>21. /\ Drv6620(d) /\ d.stage = "up" /\ d.ready = drv.ready /\ d.latch = drv.latch
       /\ d.max = drv.max /\ d.period = drv.period
  BY <1>4, <1>20 DEF Drv6620
<1>22. PICK r : r = [s3 EXCEPT !.drv.stage = "up"]
  OBVIOUS
<1>23. Call(r) /\ r.chip = s3.chip /\ r.drv = d
  BY <1>18, <1>20, <1>22 DEF Call
<1>24. /\ chip' = s3.chip /\ drv' = d /\ out'.call = "chip_init" /\ conf' = conf
       /\ seen' = [seen EXCEPT !.raised = @ \cap s3.chip.fault]
  BY <1>19, <1>22, <1>23 DEF Finish, Outcome
<1>25. s3.chip.fault = {}
  BY <1>12, <1>14, <1>18
<1>26. SeenForm' /\ seen'.want = seen.want /\ seen'.raised = {}
  BY <1>4, <1>24, <1>25 DEF SeenForm
<1>27. Chip6620(chip') /\ chip'.count = chip.count /\ chip'.armed = chip.armed /\ chip'.fault = {}
  BY <1>12, <1>14, <1>18, <1>24
<1>28. FaultsCovered'
  BY <1>4, <1>21, <1>24, <1>26, <1>27 DEF State6620, FaultsCovered
<1> QED
  BY <1>21, <1>24, <1>26, <1>27, <1>28, Stands6620

LEMMA ResourceInit6620 ==
  ASSUME State6620, NEW n, NEW f \in Fan, Max6620ResourceInit(n, f)
  PROVE  State6620' /\ out'.call = "resource_init" /\ UNCHANGED conf
<1>1. /\ conf \in FanConf /\ Chip6620(chip) /\ Drv6620(drv) /\ SeenForm /\ Is("max6620")
      /\ drv.stage = "up"
  BY DEF State6620, Data6620, Max6620ResourceInit, On
<1>2. PICK maxRpm \in conf.maxRpm :
        LET s0 == [Begin(n) EXCEPT !.drv.max[f] = IF maxRpm = 0 THEN @ ELSE maxRpm,
                                   !.drv.ready = @ \cup {f}]
        IN Finish("resource_init", Max6620InitFan(s0, f), 0, Forgotten(f))
  BY DEF Max6620ResourceInit
<1>3. maxRpm \in Nat
  BY <1>1, <1>2, FanConfigured DEF Is
<1>4. PICK m \in Nat : m = IF maxRpm = 0 THEN drv.max[f] ELSE maxRpm
  BY <1>1, <1>3 DEF Drv6620
<1>5. PICK R : R = drv.ready \cup {f}
  OBVIOUS
<1>6. PICK M : M = [drv.max EXCEPT ![f] = m]
  OBVIOUS
<1>7. PICK d : d = [drv EXCEPT !.max = M, !.ready = R]
  OBVIOUS
<1>8. /\ Drv6620(d) /\ d.max = M /\ d.ready = R /\ d.stage = drv.stage
      /\ d.latch = drv.latch /\ d.period = drv.period
  BY <1>1, <1>5, <1>6, <1>7 DEF Drv6620
<1>9. PICK b : b = Begin(n)
  OBVIOUS
<1>10. Call(b) /\ b.chip = chip /\ b.drv = drv
  BY <1>9, Begun
<1>11. PICK s0 : s0 = [Begin(n) EXCEPT !.drv.max[f] = IF maxRpm = 0 THEN @ ELSE maxRpm,
                                       !.drv.ready = @ \cup {f}]
  OBVIOUS
<1>12. s0 = [b EXCEPT !.drv.max[f] = m, !.drv.ready = R]
  BY <1>4, <1>5, <1>9, <1>10, <1>11 DEF Call
<1>13. Form6620(s0) /\ s0.chip = chip /\ s0.drv = d
  BY <1>1, <1>6, <1>7, <1>8, <1>10, <1>12 DEF Form6620, Call, Drv6620
<1>14. PICK r : r = Max6620InitFan(s0, f)
  OBVIOUS
<1>15. /\ Form6620(r)
       /\ r.chip.fault = chip.fault /\ chip.armed \subseteq r.chip.armed
       /\ \A g \in Fan \ {f} : r.chip.count[g] = chip.count[g]
       /\ r.drv = [d EXCEPT !.period[f] = PeriodFor(d.max[f])]
  BY <1>1, <1>13, <1>14, FanInitialised
<1>16. PICK z : z = Forgotten(f)
  OBVIOUS
<1>17. /\ chip' = r.chip /\ drv' = r.drv /\ seen' = z /\ conf' = conf
       /\ out'.call = "resource_init"
  BY <1>2, <1>11, <1>14, <1>16 DEF Finish, Outcome
<1>18. /\ SeenForm' /\ seen'.raised = seen.raised
       /\ seen'.want = [seen.want EXCEPT ![f] = NoSpeed]
  BY <1>1, <1>16, <1>17, SpeedForgotten DEF SeenForm
<1>19. /\ Drv6620(drv') /\ drv'.ready = R /\ drv'.max = M /\ drv'.stage = drv.stage
       /\ drv'.latch = drv.latch /\ drv'.period = [drv.period EXCEPT ![f] = PeriodFor(m)]
  BY <1>1, <1>6, <1>8, <1>15, <1>17 DEF Form6620, Drv6620
<1>20. Data6620'
  BY <1>1, <1>15, <1>17, <1>18, <1>19 DEF Data6620, Form6620
<1>21. PeriodsSet'
  BY <1>1, <1>5, <1>6, <1>19 DEF State6620, PeriodsSet, Drv6620
<1>22. AskedReady'
  BY <1>1, <1>5, <1>18, <1>19 DEF State6620, AskedReady, SeenForm
<1>23. FaultsCovered'
  BY <1>15, <1>17, <1>18, <1>19 DEF State6620, FaultsCovered
<1>24. CountsStand'
  <2> SUFFICES ASSUME NEW g \in Fan, seen'.want[g] > 0
               PROVE  TargetCount(chip.count[g], drv.max[g], seen.want[g])'
    BY DEF CountsStand
  <2>1. g # f /\ seen'.want[g] = seen.want[g]
    BY <1>1, <1>18 DEF SeenForm, NoSpeed
  <2>2. chip'.count[g] = chip.count[g] /\ drv'.max[g] = drv.max[g]
    BY <1>1, <1>6, <1>15, <1>17, <1>19, <2>1 DEF Drv6620
  <2> QED
    BY <1>17, <2>1, <2>2, SameCounts DEF State6620, CountsStand
<1> QED
  BY <1>17, <1>20, <1>21, <1>22, <1>23, <1>24 DEF State6620

LEMMA SpeedSet6620 ==
  ASSUME State6620, NEW n, NEW f \in Fan, NEW rpm \in Speed, Max6620SpeedSet(n, f, rpm)
  PROVE  State6620' /\ out'.call = "speed_set" /\ UNCHANGED conf
<1>1. /\ conf \in FanConf /\ Chip6620(chip) /\ Drv6620(drv) /\ SeenForm /\ Is("max6620")
      /\ f \in drv.ready /\ rpm \in Nat
  BY FanConfigured DEF State6620, Data6620, Max6620SpeedSet, Usable, On
<1>2. CASE rpm > drv.max[f]
  <2>1. UNCHANGED <<conf, chip, drv, seen>> /\ out'.call = "speed_set"
    BY <1>2 DEF Max6620SpeedSet, Refuse, Outcome
  <2> QED
    BY <1>1, <2>1, Stands6620 DEF State6620, Data6620, FaultsCovered, SeenForm
<1>3. CASE ~(rpm > drv.max[f])
  <2>1. PICK b : b = Begin(n)
    OBVIOUS
  <2>2. Form6620(b) /\ b.chip = chip /\ b.drv = drv
    BY <1>1, <2>1, Begun DEF Form6620
  <2>3. PICK c \in Nat : c = Max6620Count(b, f, rpm)
    BY <1>1, <2>2, CountIsNat
  <2>4. PICK r : r = TargetTachCountSet(b, f, c)
    OBVIOUS
  <2>5. /\ Form6620(r) /\ r.drv = drv /\ r.chip.fault = chip.fault
        /\ ~r.ok => r.chip = chip
        /\ r.ok => r.chip.count = [chip.count EXCEPT ![f] = c % 2048]
        /\ r.ok => r.chip.armed = chip.armed \cup {f}
    BY <2>2, <2>4, TargetSet
  <2>6. Finish("speed_set", r, 0, IF r.ok THEN [seen EXCEPT !.want[f] = rpm] ELSE seen)
    BY <1>3, <2>1, <2>3, <2>4 DEF Max6620SpeedSet
  <2>7. /\ chip' = r.chip /\ drv' = drv /\ conf' = conf /\ out'.call = "speed_set"
        /\ seen' = IF r.ok THEN [seen EXCEPT !.want[f] = rpm] ELSE seen
    BY <2>5, <2>6 DEF Finish, Outcome
  <2>8. CASE ~r.ok
    BY <1>1, <2>5, <2>7, <2>8, Stands6620 DEF State6620, Data6620, FaultsCovered, SeenForm
  <2>9. CASE r.ok
    <3>1. PICK z : z = [seen EXCEPT !.want[f] = rpm]
      OBVIOUS
    <3>2. /\ DOMAIN z = {"want", "raised"} /\ z.raised = seen.raised
          /\ z.want = [seen.want EXCEPT ![f] = rpm]
          /\ z.want \in [Fan -> Speed \cup {NoSpeed}]
      BY <1>1, <3>1 DEF SeenForm
    <3>3. SeenForm' /\ seen'.raised = seen.raised /\ seen'.want = [seen.want EXCEPT ![f] = rpm]
      BY <1>1, <2>7, <2>9, <3>1, <3>2 DEF SeenForm
    <3>4. Data6620'
      BY <1>1, <2>5, <2>7, <3>3 DEF State6620, Data6620, Form6620
    <3>5. PeriodsSet'
      BY <2>7 DEF State6620, PeriodsSet
    <3>6. AskedReady'
      BY <1>1, <2>7, <3>3 DEF State6620, AskedReady, SeenForm
    <3>7. FaultsCovered'
      BY <2>5, <2>7, <2>9, <3>3 DEF State6620, FaultsCovered
    <3>8. PICK k : k = c % 2048
      OBVIOUS
    <3>9. CountsStand'
      <4> SUFFICES ASSUME NEW g \in Fan, seen'.want[g] > 0
                   PROVE  TargetCount(chip.count[g], drv.max[g], seen.want[g])'
        BY DEF CountsStand
      <4>1. CASE g = f
        <5>1. seen'.want[f] = rpm /\ rpm \in Nat \ {0}
          BY <1>1, <3>3, <4>1 DEF SeenForm
        <5>2. chip'.count[f] = k
          BY <1>1, <2>5, <2>7, <2>9, <3>8 DEF Chip6620
        <5>3. TargetCount(k, drv.max[f], rpm)
          BY <1>1, <2>2, <2>3, <3>8, <5>1, CountOfSpeed DEF State6620, PeriodsSet
        <5> QED
          BY <2>7, <4>1, <5>1, <5>2, <5>3, SameCounts
      <4>2. CASE g # f
        <5>1. chip'.count[g] = chip.count[g] /\ seen'.want[g] = seen.want[g]
          BY <1>1, <2>5, <2>7, <2>9, <3>3, <4>2 DEF Chip6620, SeenForm
        <5> QED
          BY <2>7, <5>1, SameCounts DEF State6620, CountsStand
      <4> QED
        BY <4>1, <4>2
    <3> QED
      BY <2>7, <3>4, <3>5, <3>6, <3>7, <3>9 DEF State6620
  <2> QED
    BY <2>8, <2>9
<1> QED
  BY <1>2, <1>3

LEMMA SpeedGet6620 ==
  ASSUME State6620, NEW n, NEW f \in Fan, Max6620SpeedGet(n, f)
  PROVE  State6620' /\ SpeedReadsBack' /\ out'.call = "speed_get" /\ UNCHANGED conf
<1>1. /\ conf \in FanConf /\ Chip6620(chip) /\ Drv6620(drv) /\ SeenForm /\ Is("max6620")
      /\ f \in drv.ready
  BY DEF State6620, Data6620, Max6620SpeedGet, Usable, On
<1>0. PICK run \in FansTurn :
        LET t == Max6620Tach(f, run)
        IN Finish("speed_get", Access(Begin(n), Begin(n)),
             [fan |-> f, run |-> run,
              rpm |-> CASE t = 0 -> NoSpeed
                        [] t = Stopped -> 0
                        [] OTHER -> Max6620Rpm(f, t)], seen)
  BY DEF Max6620SpeedGet
<1> DEFINE tach == Max6620Tach(f, run)
           val == [fan |-> f, run |-> run,
                   rpm |-> CASE tach = 0 -> NoSpeed
                             [] tach = Stopped -> 0
                             [] OTHER -> Max6620Rpm(f, tach)]
           s == Access(Begin(n), Begin(n))
<1>2. Finish("speed_get", s, val, seen)
  BY <1>0
<1> HIDE DEF val
<1>3. s.chip = chip /\ s.drv = drv
  BY Begun, Accessed
<1> HIDE DEF s
<1>4. UNCHANGED <<conf, chip, drv, seen>> /\ out'.call = "speed_get"
  BY <1>2, <1>3 DEF Finish, Outcome
<1>5. out'.res = "ok" => out'.val = val
  BY <1>2 DEF Finish, Outcome
<1>6. State6620'
  BY <1>1, <1>4, Stands6620 DEF State6620, Data6620, FaultsCovered, SeenForm
<1>7. SpeedReadsBack'
  <2>1. PICK w \in Int : w = seen.want[f]
    BY <1>1, FanConfigured DEF SeenForm, NoSpeed
  <2>2. PICK np \in Nat \ {0} : np = conf.np
    BY <1>1, ConfiguredPulses
  <2>3. PICK K \in Nat : K = drv.period[f] * 60 * 8192
    <3>1. PICK p \in Nat : p = drv.period[f]
      BY <1>1 DEF Drv6620, Periods
    <3> QED
      BY <3>1
  <2>4. PICK k \in Nat : k = K \div np
    OBVIOUS
  <2> SUFFICES ASSUME out'.res = "ok", w > 0, Fits(k \div w, 2046), run = "target"
               PROVE  val.rpm >= w /\ k \div val.rpm = k \div w
    <3>1. (drv.period[f] * 60 * 8192) \div conf.np = k
      BY <2>2, <2>3, <2>4
    <3>2. val.fan = f /\ val.run = run
      BY DEF val
    <3> QED
      BY <1>4, <1>5, <2>1, <3>1, <3>2 DEF SpeedReadsBack
  <2>10. w \in Nat \ {0}
    OBVIOUS
  <2>11. PICK c \in Nat : c = k \div w
    BY <2>10
  <2>5. c \in 1..2046 /\ c \in Nat \ {0}
    BY <2>11 DEF Fits
  <2>6. chip.count[f] = c
    <3>1. TargetCount(chip.count[f], drv.max[f], w)
      BY <2>1 DEF State6620, CountsStand
    <3>2. drv.period[f] = PeriodFor(drv.max[f])
      BY <1>1 DEF State6620, PeriodsSet
    <3>4. (PeriodFor(drv.max[f]) * 60 * 8192) \div conf.np = k
      BY <2>2, <2>3, <2>4, <3>2
    <3>3. CountFor(drv.max[f], w) = c
      BY <2>11, <3>4 DEF CountFor
    <3> QED
      BY <2>5, <3>1, <3>3 DEF TargetCount, Fits
  <2>7. tach = c /\ c # 0 /\ c # Stopped
    BY <2>5, <2>6 DEF Max6620Tach, Stopped
  <2>8. val.rpm = K \div (np * c)
    <3> HIDE DEF tach
    <3>1. val.rpm = Max6620Rpm(f, c)
      BY <2>7 DEF val
    <3> QED
      BY <2>2, <2>3, <3>1 DEF Max6620Rpm
  <2>9. Counts(K, np, w, c)
    BY <2>4, <2>11 DEF Counts
  <2>12. ReadsBack(K, np, w, c)
    BY <2>5, <2>9, <2>10, SpeedOfCount
  <2> QED
    BY <2>4, <2>8, <2>11, <2>12 DEF ReadsBack
<1> QED
  BY <1>4, <1>6, <1>7

(* What FaultTold says of a step. *)
Tells ==
  \A f \in Fan : (out'.call = "status_get" /\ out'.res = "ok" /\ Noted(f))
                   => (out'.val.fan = f => out'.val.bad)

LEMMA StatusGet6620 ==
  ASSUME State6620, NEW n, NEW f \in Fan, Max6620StatusGet(n, f)
  PROVE  State6620' /\ Tells /\ out'.call = "status_get" /\ UNCHANGED conf
<1>1. /\ conf \in FanConf /\ Chip6620(chip) /\ Drv6620(drv) /\ SeenForm /\ Is("max6620")
      /\ f \in drv.ready /\ drv.stage # "registered"
  BY DEF State6620, Data6620, Max6620StatusGet, Usable, On
<1>2. PICK s0 : s0 = Begin(n)
  OBVIOUS
<1>3. Form6620(s0) /\ s0.chip = chip /\ s0.drv = drv
  BY <1>1, <1>2, Begun DEF Form6620
<1>4. PICK s1 : s1 = Access(s0, LatchFaults(s0))
  OBVIOUS
<1>5. /\ Form6620(s1) /\ s1.chip.armed = chip.armed /\ s1.chip.count = chip.count
      /\ s1.drv.stage = drv.stage /\ s1.drv.ready = drv.ready
      /\ s1.drv.max = drv.max /\ s1.drv.period = drv.period
      /\ s1.chip.fault \cup s1.drv.latch = chip.fault \cup drv.latch
      /\ s1.ok => s1.drv.latch = drv.latch \cup chip.fault
  BY <1>3, <1>4, FaultsLatched
<1>6. PICK c \in Count11 : c = s1.chip.count[f]
  <2>1. PICK h : h = s1.chip
    OBVIOUS
  <2>2. h.count \in [Fan -> Count11]
    BY <1>5, <2>1 DEF Form6620, Chip6620
  <2>3. h.count[f] \in Count11
    BY ONLY <2>2, f \in Fan
  <2>4. s1.chip.count[f] \in Count11
    BY ONLY <2>1, <2>3
  <2> QED
    BY ONLY <2>4
<1>7. PICK t : t = TargetTachCountSet(s1, f, c)
  OBVIOUS
<1>8. /\ Form6620(t) /\ t.drv = s1.drv /\ t.chip.fault = s1.chip.fault
      /\ t.chip.count = s1.chip.count /\ (t.ok => s1.ok)
      /\ ~t.ok => t.chip = s1.chip
      /\ t.ok => t.chip.armed = s1.chip.armed \cup {f}
  <2>1. /\ Form6620(t) /\ t.drv = s1.drv /\ t.chip.fault = s1.chip.fault
        /\ ~t.ok => t.chip = s1.chip
        /\ t.ok => /\ s1.ok
                   /\ t.chip.count = [s1.chip.count EXCEPT ![f] = c % 2048]
                   /\ t.chip.armed = s1.chip.armed \cup {f}
    <3>1. Form6620(s1)
      BY ONLY <1>5
    <3>2. c \in Nat
      BY ONLY c \in Count11 DEF Count11
    <3> QED
      BY ONLY <3>1, <3>2, <1>7, TargetSet
  <2>2. c % 2048 = c
    BY DEF Count11
  <2>3. [s1.chip.count EXCEPT ![f] = c] = s1.chip.count
    BY <1>5, <1>6 DEF Form6620, Chip6620
  <2> QED
    BY <2>1, <2>2, <2>3
<1>9. CASE f \notin s1.drv.latch
  <2>1. Finish("status_get", s1, [fan |-> f, bad |-> FALSE], seen)
    BY <1>2, <1>4, <1>9 DEF Max6620StatusGet
  <2>2. /\ chip' = s1.chip /\ drv' = s1.drv /\ UNCHANGED <<conf, seen>> /\ out'.call = "status_get"
        /\ out'.res = "ok" => s1.ok /\ out'.val.fan = f
    BY <2>1 DEF Finish, Outcome
  <2>3. FaultsCovered'
    BY <1>5, <2>2 DEF State6620, FaultsCovered
  <2>4. State6620'
    BY <1>1, <1>5, <2>2, <2>3, Stands6620 DEF Form6620, SeenForm
  <2>5. Tells
    BY <1>1, <1>5, <1>9, <2>2 DEF Tells, Noted, Is
  <2> QED
    BY <2>2, <2>4, <2>5
<1>10. CASE f \in s1.drv.latch
  <2>1. PICK s3 : s3 = Unlatch(t, f)
    OBVIOUS
  <2>2. /\ Form6620(s3) /\ s3.chip = t.chip /\ (s3.ok <=> t.ok)
        /\ s3.drv.stage = t.drv.stage /\ s3.drv.ready = t.drv.ready
        /\ s3.drv.max = t.drv.max /\ s3.drv.period = t.drv.period
        /\ s3.ok => s3.drv.latch = t.drv.latch \ {f}
        /\ ~s3.ok => s3.drv.latch = t.drv.latch
    BY <1>8, <2>1, FaultTaken
  <2>3. LET s == Unlatch(TargetTachCountSet(s1, f, s1.chip.count[f]), f)
        IN Finish("status_get", s, [fan |-> f, bad |-> TRUE], IF s.ok THEN Reported(f) ELSE seen)
    BY <1>2, <1>4, <1>10 DEF Max6620StatusGet
  <2>9. Unlatch(TargetTachCountSet(s1, f, s1.chip.count[f]), f) = s3
    BY <1>6, <1>7, <2>1
  <2>4. /\ chip' = s3.chip /\ drv' = s3.drv /\ conf' = conf /\ out'.call = "status_get"
        /\ seen' = IF s3.ok THEN Reported(f) ELSE seen
        /\ out'.res = "ok" => out'.val.bad
    BY <2>3, <2>9 DEF Finish, Outcome
  <2>5. Tells
    BY <2>4 DEF Tells
  <2>6. /\ seen.raised \subseteq s1.chip.fault \cup s1.drv.latch
        /\ Fan \subseteq s1.chip.armed \cup (s1.chip.fault \cup s1.drv.latch)
    BY <1>5 DEF State6620, FaultsCovered
  <2>7. CASE ~s3.ok
    <3>1. FaultsCovered'
      BY <1>8, <2>2, <2>4, <2>6, <2>7 DEF FaultsCovered
    <3>2. State6620'
      BY <1>1, <1>5, <1>8, <2>2, <2>4, <2>7, <3>1, Stands6620 DEF Form6620, SeenForm
    <3> QED
      BY <2>4, <2>5, <3>2
  <2>8. CASE s3.ok
    <3> DEFINE R == seen.raised \ {f}
    <3>2. seen' = Reported(f)
      BY <2>4, <2>8
    <3>3. SeenForm' /\ seen'.want = seen.want /\ seen'.raised = R
      BY <1>1, <3>2 DEF SeenForm, Reported
    <3>1. R = seen.raised \ {f}
      OBVIOUS
    <3> HIDE DEF R
    <3>4. chip'.fault = s1.chip.fault /\ drv'.latch = s1.drv.latch \ {f}
      BY <1>8, <2>2, <2>4, <2>8
    <3>5. chip'.armed = s1.chip.armed \cup {f}
      BY <1>8, <2>2, <2>4, <2>8
    <3>6. FaultsCovered'
      BY <2>6, <3>1, <3>3, <3>4, <3>5 DEF FaultsCovered
    <3>7. /\ Chip6620(chip') /\ Drv6620(drv') /\ drv'.stage = drv.stage
          /\ chip'.count = chip.count /\ drv'.max = drv.max /\ drv'.period = drv.period
          /\ drv'.ready = drv.ready
      BY <1>5, <1>8, <2>2, <2>4 DEF Form6620
    <3>8. State6620'
      BY <1>1, <2>4, <3>3, <3>6, <3>7, Stands6620
    <3> QED
      BY <2>4, <2>5, <3>8
  <2> QED
    BY <2>7, <2>8
<1> QED
  BY <1>9, <1>10

LEMMA World6620 ==
  ASSUME State6620, Is("max6620"), \E f \in Fan : Max6620Fault(f)
  PROVE  State6620' /\ out'.call = "none" /\ UNCHANGED conf
<1>1. /\ Chip6620(chip) /\ Drv6620(drv) /\ SeenForm
      /\ drv.stage = "registered" => drv.ready = {} /\ chip.fault = {}
  BY DEF State6620, Data6620
<1>2. ASSUME NEW f \in Fan, Max6620Fault(f)
      PROVE  State6620' /\ out'.call = "none" /\ UNCHANGED conf
  <2>1. PICK F : F = chip.fault \cup {f}
    OBVIOUS
  <2>2. PICK A : A = chip.armed \ {f}
    OBVIOUS
  <2>3. chip' = [chip EXCEPT !.fault = F, !.armed = A]
    BY <1>2, <2>1, <2>2 DEF Max6620Fault
  <2>4. PICK R : R = seen.raised \cup {f}
    OBVIOUS
  <2>5. /\ UNCHANGED <<conf, drv, out>> /\ out'.call = "none" /\ f \in drv.ready
        /\ seen' = [seen EXCEPT !.raised = R]
    BY <1>2, <2>4 DEF Max6620Fault, Usable, On
  <2>6. Chip6620(chip') /\ chip'.count = chip.count /\ chip'.armed = A /\ chip'.fault = F
    BY <1>1, <2>1, <2>2, <2>3 DEF Chip6620
  <2>7. SeenForm' /\ seen'.want = seen.want /\ seen'.raised = R
    BY <1>1, <2>4, <2>5 DEF SeenForm
  <2>8. FaultsCovered'
    <3>1. R \subseteq F \cup drv.latch
      BY <2>1, <2>4 DEF State6620, FaultsCovered
    <3>2. Fan \subseteq A \cup (F \cup drv.latch)
      BY <2>1, <2>2 DEF State6620, FaultsCovered
    <3> QED
      BY <2>5, <2>6, <2>7, <3>1, <3>2 DEF FaultsCovered
  <2>9. drv'.stage # "registered"
    BY <1>1, <2>5
  <2> QED
    BY <1>1, <2>5, <2>6, <2>7, <2>8, <2>9, Stands6620
<1> QED
  BY <1>2

LEMMA Kept6620 ==
  ASSUME Inv6620, [Next]_device
  PROVE  Inv6620' /\ (Is("max6620") => Tells \/ UNCHANGED device)
<1> SUFFICES ASSUME Is("max6620")
             PROVE  State6620' /\ SpeedReadsBack' /\ (Tells \/ UNCHANGED device)
  BY Steps DEF Inv6620, Is
<1>1. State6620 /\ SpeedReadsBack
  BY DEF Inv6620
<1>2. ASSUME State6620', out'.call # "speed_get", out'.call # "status_get"
      PROVE  State6620' /\ SpeedReadsBack' /\ (Tells \/ UNCHANGED device)
  BY <1>2 DEF SpeedReadsBack, Tells
<1>3. CASE Quiet
  <2>1. UNCHANGED <<conf, chip, drv, seen>>
    BY <1>3 DEF Quiet
  <2>2. State6620'
    BY <1>1, <2>1, Stands6620 DEF State6620, Data6620, FaultsCovered, SeenForm
  <2>3. CASE UNCHANGED out
    BY <1>1, <2>1, <2>2, <2>3 DEF SpeedReadsBack, Is, device
  <2> QED
    BY <1>2, <1>3, <2>2, <2>3 DEF Quiet
<1>4. ASSUME NEW n \in Fails, Max6620ChipInit(n)
      PROVE  State6620' /\ SpeedReadsBack' /\ (Tells \/ UNCHANGED device)
  BY <1>1, <1>2, <1>4, ChipInit6620
<1>5. ASSUME NEW n \in Fails, NEW f \in Fan, Call6620(n, f)
      PROVE  State6620' /\ SpeedReadsBack' /\ (Tells \/ UNCHANGED device)
  <2>1. CASE Max6620ResourceInit(n, f)
    BY <1>1, <1>2, <2>1, ResourceInit6620
  <2>2. CASE Max6620SpeedGet(n, f)
    BY <1>1, <2>2, SpeedGet6620 DEF Tells
  <2>3. CASE Max6620StatusGet(n, f)
    <3>1. State6620' /\ Tells /\ out'.call = "status_get"
      BY <1>1, <2>3, StatusGet6620
    <3>2. SpeedReadsBack'
      BY <3>1 DEF SpeedReadsBack
    <3> QED
      BY <3>1, <3>2
  <2>4. ASSUME NEW rpm \in Speed, Max6620SpeedSet(n, f, rpm)
        PROVE  State6620' /\ SpeedReadsBack' /\ (Tells \/ UNCHANGED device)
    BY <1>1, <1>2, <2>4, SpeedSet6620
  <2> QED
    BY <1>5, <2>1, <2>2, <2>3, <2>4 DEF Call6620
<1>6. CASE \E f \in Fan : Max6620Fault(f)
  <2>1. State6620' /\ out'.call = "none"
    BY <1>1, <1>6, World6620
  <2> QED
    BY <1>2, <2>1
<1>7. conf.dev \in FanDevs
  BY DEF Is, FanDevs
<1> QED
  BY <1>3, <1>4, <1>5, <1>6, <1>7, Whose

--------------------------------------------------------------------------------
(* EMC2305: the form of its data, and what the parts of its calls do with them. *)

Chip2305(c) ==
  /\ DOMAIN c = {"stall", "spin", "fail", "watchdog", "min", "hi", "lo", "setting"}
  /\ c.hi \in [Fan -> Byte] /\ c.lo \in [Fan -> Byte] /\ c.setting \in [Fan -> Byte]
Drv2305(d) ==
  /\ DOMAIN d = {"stage", "ready", "max"}
  /\ d.ready \in SUBSET Fan /\ d.max \in [Fan -> Nat]
Form2305(s) == Call(s) /\ Chip2305(s.chip) /\ Drv2305(s.drv)
SameDrive(c, d) == c.hi = d.hi /\ c.lo = d.lo /\ c.setting = d.setting
FaultRegs == {"stall", "spin", "fail"}

(* A fault register is taken as a whole, or nothing is. *)
LEMMA RegisterRead ==
  ASSUME NEW s, Form2305(s), NEW reg \in FaultRegs, NEW r, r = ReadAndClear(s, reg)
  PROVE  /\ Form2305(r) /\ r.drv = s.drv /\ SameDrive(r.chip, s.chip)
         /\ r.ok => /\ s.ok /\ r.val = s.chip[reg]
                    /\ \A q \in FaultRegs \ {reg} : r.chip[q] = s.chip[q]
<1>1. PICK c0 : c0 = s.chip
  OBVIOUS
<1>2. PICK c1 : c1 = [c0 EXCEPT ![reg] = {}]
  OBVIOUS
<1>3. /\ Chip2305(c1) /\ SameDrive(c1, c0)
      /\ \A q \in FaultRegs \ {reg} : c1[q] = c0[q]
  BY <1>1, <1>2 DEF Form2305, Chip2305, SameDrive, FaultRegs
<1>4. PICK t : t = [s EXCEPT !.val = s.chip[reg], !.chip[reg] = {}]
  OBVIOUS
<1>5. Call(t) /\ t.ok = s.ok /\ t.chip = c1 /\ t.drv = s.drv /\ t.val = s.chip[reg]
  BY <1>1, <1>2, <1>4 DEF Form2305, Call
<1>6. r = Access(s, t)
  BY <1>4 DEF ReadAndClear
<1>7. /\ Call(r)
      /\ r.ok => s.ok /\ r.chip = c1 /\ r.drv = s.drv /\ r.val = s.chip[reg]
      /\ ~r.ok => r.chip = c0 /\ r.drv = s.drv
  BY <1>1, <1>5, <1>6, Accessed DEF Form2305
<1> QED
  BY <1>1, <1>3, <1>7 DEF Form2305, SameDrive

(* The search for the bit of a fan goes on to the next register while it is not found. *)
LEMMA Looked ==
  ASSUME NEW s, Form2305(s), NEW f \in Fan, NEW reg \in FaultRegs, NEW r, r = Emc2305Look(s, f, reg)
  PROVE  /\ Form2305(r) /\ r.drv = s.drv /\ SameDrive(r.chip, s.chip)
         /\ f \in s.val => r = s
         /\ r.ok /\ f \notin s.val => /\ s.ok /\ r.val = s.chip[reg]
                                      /\ \A q \in FaultRegs \ {reg} : r.chip[q] = s.chip[q]
<1>1. CASE f \in s.val
  BY <1>1 DEF Emc2305Look, SameDrive
<1>2. CASE f \notin s.val
  <2>1. PICK t : t = [s EXCEPT !.val = {}]
    OBVIOUS
  <2>2. Form2305(t) /\ t.drv = s.drv /\ t.chip = s.chip /\ t.ok = s.ok
    BY <2>1 DEF Form2305, Call
  <2>3. r = ReadAndClear(t, reg)
    BY <1>2, <2>1 DEF Emc2305Look
  <2> QED
    BY <1>2, <2>2, <2>3, RegisterRead
<1> QED
  BY <1>1, <1>2

LEMMA FaultsRead ==
  ASSUME NEW s, Form2305(s), NEW f \in Fan, NEW r, r = Emc2305Faults(s, f)
  PROVE  /\ Form2305(r) /\ r.drv = s.drv /\ SameDrive(r.chip, s.chip)
         /\ r.ok /\ f \in s.chip.stall \cup s.chip.spin \cup s.chip.fail => f \in r.val
<1>1. PICK a : a = [s EXCEPT !.val = {}]
  OBVIOUS
<1>2. Form2305(a) /\ a.drv = s.drv /\ a.chip = s.chip /\ f \notin a.val
  BY <1>1 DEF Form2305, Call
<1>3. PICK b : b = Emc2305Look(a, f, "stall")
  OBVIOUS
<1>4. PICK c : c = Emc2305Look(b, f, "spin")
  OBVIOUS
<1>5. PICK d : d = Emc2305Look(c, f, "fail")
  OBVIOUS
<1>6. /\ Form2305(b) /\ b.drv = s.drv /\ SameDrive(b.chip, s.chip)
      /\ b.ok => b.val = s.chip.stall /\ b.chip.spin = s.chip.spin /\ b.chip.fail = s.chip.fail
  <2>1. "stall" \in FaultRegs
    BY DEF FaultRegs
  <2>3. "spin" \in FaultRegs \ {"stall"} /\ "fail" \in FaultRegs \ {"stall"}
    BY DEF FaultRegs
  <2>4. Form2305(a)
    BY <1>2
  <2>2. /\ Form2305(b) /\ b.drv = a.drv /\ SameDrive(b.chip, a.chip)
        /\ f \in a.val => b = a
        /\ b.ok /\ f \notin a.val => /\ a.ok /\ b.val = a.chip["stall"]
                                     /\ \A q \in FaultRegs \ {"stall"} : b.chip[q] = a.chip[q]
    BY <1>3, <2>1, <2>4, Looked
  <2> QED
    BY <1>2, <2>2, <2>3
<1>7. /\ Form2305(c) /\ c.drv = s.drv /\ SameDrive(c.chip, s.chip)
      /\ f \in b.val => c = b
      /\ c.ok /\ f \notin b.val => b.ok /\ c.val = b.chip.spin /\ c.chip.fail = b.chip.fail
  <2>1. "spin" \in FaultRegs /\ "fail" \in FaultRegs \ {"spin"}
    BY DEF FaultRegs
  <2>2. /\ Form2305(c) /\ c.drv = b.drv /\ SameDrive(c.chip, b.chip)
        /\ f \in b.val => c = b
        /\ c.ok /\ f \notin b.val => /\ b.ok /\ c.val = b.chip["spin"]
                                     /\ \A q \in FaultRegs \ {"spin"} : c.chip[q] = b.chip[q]
    BY <1>4, <1>6, <2>1, Looked
  <2>3. SameDrive(c.chip, s.chip)
    BY <1>6, <2>2 DEF SameDrive
  <2> QED
    BY <1>6, <2>1, <2>2, <2>3
<1>8. /\ Form2305(d) /\ d.drv = s.drv /\ SameDrive(d.chip, s.chip)
      /\ f \in c.val => d = c
      /\ d.ok /\ f \notin c.val => c.ok /\ d.val = c.chip.fail
  <2>1. "fail" \in FaultRegs
    BY DEF FaultRegs
  <2>2. /\ Form2305(d) /\ d.drv = c.drv /\ SameDrive(d.chip, c.chip)
        /\ f \in c.val => d = c
        /\ d.ok /\ f \notin c.val => c.ok /\ d.val = c.chip["fail"]
    BY <1>5, <1>7, <2>1, Looked
  <2>3. SameDrive(d.chip, s.chip)
    BY <1>7, <2>2 DEF SameDrive
  <2> QED
    BY <1>7, <2>2, <2>3
<1>9. d.ok /\ f \in s.chip.stall \cup s.chip.spin \cup s.chip.fail => f \in d.val
  BY <1>6, <1>7, <1>8
<1>10. PICK w : w = IF d.chip.watchdog THEN {f} ELSE {}
  OBVIOUS
<1>11. PICK t : t = [d EXCEPT !.val = w]
  OBVIOUS
<1>12. Call(t) /\ t.ok = d.ok /\ t.chip = d.chip /\ t.drv = d.drv
  BY <1>8, <1>11 DEF Form2305, Call
<1>13. PICK e : e = Access(d, t)
  OBVIOUS
<1>14. Call(e) /\ e.drv = d.drv /\ e.chip = d.chip /\ (e.ok => d.ok)
  BY <1>8, <1>12, <1>13, Accessed DEF Form2305
<1>15. r = IF d.ok /\ f \in d.val THEN d ELSE e
  BY <1>1, <1>3, <1>4, <1>5, <1>10, <1>11, <1>13 DEF Emc2305Faults
<1> QED
  BY <1>8, <1>9, <1>14, <1>15 DEF Form2305

LEMMA TachIsWord ==
  ASSUME conf \in FanConf, Is("emc2305"), NEW v \in Nat \ {0}
  PROVE  RpmToTachCount(v) \in Reg16
<1>1. PICK p \in Nat \ {0} : p = conf.poles
  BY ConfiguredPulses
<1>2. PICK e \in Nat : e = (EdgesOf(p) - 1) * 32768 * 60
  BY DEF EdgesOf
<1>3. PICK q \in Nat : q = e \div p
  OBVIOUS
<1>4. q * p \in Nat
  OBVIOUS
<1>5. PICK k \in Nat : k = (q * p) \div v
  BY <1>4
<1>6. RpmToTachCount(v) = Shifted(k)
  BY <1>1, <1>2, <1>3, <1>5 DEF RpmToTachCount, Shifted
<1>7. Shifted(k) \in Reg16
  BY TachOfCount
<1> QED
  BY <1>6, <1>7, Zenon

LEMMA TachOfTwoPoles ==
  ASSUME conf.poles = 2, NEW v \in Nat \ {0}, Fits(Pulses \div v, 8191)
  PROVE  CountIn(RpmToTachCount(v)) = Pulses \div v
<1>1. PICK k \in Nat : k = Pulses \div v
  BY DEF Pulses
<1>2. RpmToTachCount(v) = Shifted(k)
  <2>1. (((EdgesOf(2) - 1) * 32768 * 60) \div 2) * 2 = Pulses
    BY DEF EdgesOf, Pulses
  <2> QED
    BY <1>1, <2>1 DEF RpmToTachCount, Shifted
<1>3. k <= 8191
  BY <1>1 DEF Fits, Pulses
<1>4. CountIn(Shifted(k)) = k
  BY <1>3, CountOfTach, SMT
<1> QED
  BY <1>1, <1>2, <1>4, SMT

(* What speed_set leaves of the other fans. *)
OthersKept(c, d, f) ==
  \A g \in Fan \ {f} : c.hi[g] = d.hi[g] /\ c.lo[g] = d.lo[g] /\ c.setting[g] = d.setting[g]

(* The target is written in two bytes, the high one first. *)
LEMMA TargetDriven ==
  ASSUME conf \in FanConf, Is("emc2305"), conf.control = "rpm", NEW s, Form2305(s), NEW f \in Fan,
         NEW asked \in Nat, Min2(asked, s.drv.max[f]) # 0, NEW r, r = Emc2305SetSpeed(s, f, asked)
  PROVE  /\ Form2305(r) /\ r.drv = s.drv /\ OthersKept(r.chip, s.chip, f)
         /\ r.ok => Drives(r.chip.hi[f], r.chip.lo[f], r.chip.setting[f], s.drv.max[f], asked)
<1>1. PICK v \in Nat \ {0} : v = Min2(asked, s.drv.max[f])
  BY DEF Form2305, Drv2305, Min2
<1>2. PICK tach \in Reg16 : tach = RpmToTachCount(v)
  BY TachIsWord
<1>3. PICK hi \in Byte : hi = tach \div 256
  BY TachInBytes
<1>4. PICK lo \in Byte : lo = tach % 256
  BY TachInBytes
<1>5. hi * 256 + lo = tach
  BY <1>3, <1>4, TachInBytes
<1>6. PICK c0 : c0 = s.chip /\ Chip2305(c0)
  BY DEF Form2305
<1>7. PICK c1 : c1 = [c0 EXCEPT !.hi[f] = hi]
  OBVIOUS
<1>8. Chip2305(c1) /\ c1.hi = [c0.hi EXCEPT ![f] = hi] /\ c1.lo = c0.lo /\ c1.setting = c0.setting
  BY <1>6, <1>7 DEF Chip2305
<1>9. PICK t1 : t1 = [s EXCEPT !.chip.hi[f] = hi]
  OBVIOUS
<1>10. Call(t1) /\ t1.ok = s.ok /\ t1.chip = c1 /\ t1.drv = s.drv
  BY <1>6, <1>7, <1>9 DEF Form2305, Call
<1>11. PICK s1 : s1 = Access(s, t1)
  OBVIOUS
<1>12. /\ Call(s1) /\ s1.drv = s.drv
       /\ s1.ok => s.ok /\ s1.chip = c1
       /\ ~s1.ok => s1.chip = c0
  BY <1>6, <1>10, <1>11, Accessed DEF Form2305
<1>13. PICK d0 : d0 = s1.chip
  OBVIOUS
<1>14. Chip2305(d0) /\ OthersKept(d0, c0, f) /\ (s1.ok => d0.hi[f] = hi)
  BY <1>6, <1>8, <1>12, <1>13 DEF Form2305, Chip2305, OthersKept
<1>15. PICK d1 : d1 = [d0 EXCEPT !.lo[f] = lo]
  OBVIOUS
<1>16. Chip2305(d1) /\ d1.lo = [d0.lo EXCEPT ![f] = lo] /\ d1.hi = d0.hi /\ d1.setting = d0.setting
  BY <1>14, <1>15 DEF Chip2305
<1>17. PICK t2 : t2 = [s1 EXCEPT !.chip.lo[f] = lo]
  OBVIOUS
<1>18. Call(t2) /\ t2.ok = s1.ok /\ t2.chip = d1 /\ t2.drv = s1.drv
  BY <1>12, <1>13, <1>15, <1>17 DEF Call
<1>19. PICK s2 : s2 = Access(s1, t2)
  OBVIOUS
<1>20. /\ Call(s2) /\ s2.drv = s.drv
       /\ s2.ok => s1.ok /\ s2.chip = d1
       /\ ~s2.ok => s2.chip = d0
  BY <1>12, <1>13, <1>18, <1>19, Accessed
<1>21. r = Access(s2, s2)
  <2>1. r = Emc2305Target(s, f, tach)
    BY <1>1, <1>2 DEF Emc2305SetSpeed
  <2> QED
    BY <1>3, <1>4, <1>9, <1>11, <1>17, <1>19, <2>1 DEF Emc2305Target
<1>22. Call(r) /\ r.drv = s.drv /\ r.chip = s2.chip /\ (r.ok => s2.ok)
  BY <1>20, <1>21, Accessed
<1>23. Chip2305(s2.chip) /\ OthersKept(s2.chip, c0, f)
  BY <1>14, <1>16, <1>20 DEF OthersKept, Chip2305
<1>24. ASSUME r.ok
       PROVE  Drives(r.chip.hi[f], r.chip.lo[f], r.chip.setting[f], s.drv.max[f], asked)
  <2>1. r.chip.hi[f] = hi /\ r.chip.lo[f] = lo
    BY <1>14, <1>16, <1>20, <1>22, <1>24 DEF Chip2305
  <2> SUFFICES ASSUME conf.poles = 2, Fits(Pulses \div v, 8191)
               PROVE  LET c == tach \div 8 IN c * v <= Pulses /\ Pulses < (c + 1) * v
    BY <1>1, <1>5, <2>1 DEF Drives
  <2>2. PICK c \in Nat : c = Pulses \div v
    BY DEF Pulses
  <2>3. tach \div 8 = c
    <3>1. CountIn(tach) = c
      BY <1>2, <2>2, TachOfTwoPoles
    <3> QED
      BY <3>1 DEF CountIn
  <2>4. c * v <= Pulses /\ Pulses < (c + 1) * v
    BY <2>2, Division DEF Pulses
  <2> QED
    BY <2>3, <2>4
<1> QED
  BY <1>6, <1>22, <1>23, <1>24 DEF Form2305

LEMMA SettingDriven ==
  ASSUME conf \in FanConf, Is("emc2305"), conf.control # "rpm", NEW s, Form2305(s), NEW f \in Fan,
         NEW asked \in Nat, s.drv.max[f] # 0, NEW r, r = Emc2305SetSpeed(s, f, asked)
  PROVE  /\ Form2305(r) /\ r.drv = s.drv /\ OthersKept(r.chip, s.chip, f)
         /\ r.ok => Drives(r.chip.hi[f], r.chip.lo[f], r.chip.setting[f], s.drv.max[f], asked)
<1>1. PICK m \in Nat \ {0} : m = s.drv.max[f]
  BY DEF Form2305, Drv2305
<1>2. PICK v \in Nat : v = Min2(asked, m) /\ v <= m
  BY DEF Min2
<1>3. PICK p \in Nat : p = (v * 100) \div m
  OBVIOUS
<1>4. PICK q \in Nat : q = (p * 255) \div 100
  OBVIOUS
<1>5. q \in Byte /\ NearTo(q, v, m)
  BY <1>2, <1>3, <1>4, SettingNear
<1>6. PICK c0 : c0 = s.chip /\ Chip2305(c0)
  BY DEF Form2305
<1>7. PICK c1 : c1 = [c0 EXCEPT !.setting[f] = q]
  OBVIOUS
<1>8. Chip2305(c1) /\ c1.setting = [c0.setting EXCEPT ![f] = q] /\ c1.hi = c0.hi /\ c1.lo = c0.lo
  BY <1>5, <1>6, <1>7 DEF Chip2305
<1>9. PICK t : t = [s EXCEPT !.chip.setting[f] = q]
  OBVIOUS
<1>10. Call(t) /\ t.ok = s.ok /\ t.chip = c1 /\ t.drv = s.drv
  BY <1>6, <1>7, <1>9 DEF Form2305, Call
<1>11. r = Access(s, t)
  BY <1>1, <1>2, <1>3, <1>4, <1>9 DEF Emc2305SetSpeed, Percent
<1>12. /\ Call(r) /\ r.drv = s.drv
       /\ r.ok => r.chip = c1
       /\ ~r.ok => r.chip = c0
  BY <1>6, <1>10, <1>11, Accessed DEF Form2305
<1>13. Form2305(r) /\ OthersKept(r.chip, s.chip, f)
  BY <1>6, <1>8, <1>12 DEF Form2305, Chip2305, OthersKept
<1>14. r.ok => r.chip.setting[f] = q
  BY <1>6, <1>8, <1>12 DEF Form2305, Chip2305
<1> QED
  BY <1>1, <1>2, <1>5, <1>12, <1>13, <1>14 DEF Drives, NearTo

LEMMA SpeedDriven ==
  ASSUME conf \in FanConf, Is("emc2305"), NEW s, Form2305(s), NEW f \in Fan, NEW asked \in Nat,
         Emc2305Divides(s, f, asked), NEW r, r = Emc2305SetSpeed(s, f, asked)
  PROVE  /\ Form2305(r) /\ r.drv = s.drv /\ OthersKept(r.chip, s.chip, f)
         /\ r.ok => Drives(r.chip.hi[f], r.chip.lo[f], r.chip.setting[f], s.drv.max[f], asked)
<1>1. CASE conf.control = "rpm"
  BY <1>1, TargetDriven DEF Emc2305Divides
<1>2. CASE conf.control # "rpm"
  BY <1>2, SettingDriven DEF Emc2305Divides
<1> QED
  BY <1>1, <1>2

(* The invariant of an EMC2305: what drives a fan is the speed it was given last. *)
SpeedsDriven ==
  \A f \in Fan : seen.want[f] > 0 =>
    Drives(chip.hi[f], chip.lo[f], chip.setting[f], drv.max[f], seen.want[f])
State2305 == conf \in FanConf /\ Chip2305(chip) /\ Drv2305(drv) /\ SeenForm /\ SpeedsDriven
Inv2305 == Is("emc2305") => State2305

LEMMA SameDrives ==
  ASSUME UNCHANGED conf
  PROVE  \A hi, lo, setting, max, w : Drives(hi, lo, setting, max, w)' <=> Drives(hi, lo, setting, max, w)
  BY DEF Drives

(* A step that leaves the speeds asked for, the maxima and what drives the fans alone. *)
LEMMA Stands2305 ==
  ASSUME State2305, UNCHANGED conf, Chip2305(chip'), SameDrive(chip', chip), Drv2305(drv'),
         drv'.max = drv.max, UNCHANGED seen
  PROVE  State2305'
<1>1. SeenForm'
  BY DEF State2305, SeenForm
<1>2. SpeedsDriven'
  BY SameDrives DEF State2305, SpeedsDriven, SameDrive
<1> QED
  BY <1>1, <1>2 DEF State2305

LEMMA Starts2305 == Init => Inv2305
<1> SUFFICES ASSUME Init, Is("emc2305") PROVE State2305
  BY DEF Inv2305
<1>1. Emc2305Init
  BY Starts DEF FanInit, Max6620Init, Emc2305Init, PmbusInit, Is, FanDevs
<1>2. conf \in FanConf /\ conf.max \in Nat
  BY <1>1, FanConfigured DEF Emc2305Init
<1>3. Chip2305(chip)
  BY <1>1 DEF Emc2305Init, Chip2305, Byte
<1>4. Drv2305(drv)
  BY <1>1, <1>2 DEF Emc2305Init, Drv2305
<1>5. SeenForm /\ \A f \in Fan : seen.want[f] = NoSpeed
  BY <1>1 DEF Emc2305Init, SeenForm, NothingSeen
<1> QED
  BY <1>2, <1>3, <1>4, <1>5 DEF State2305, SpeedsDriven, NoSpeed

LEMMA ChipInit2305 ==
  ASSUME State2305, NEW n, Emc2305ChipInit(n)
  PROVE  State2305' /\ out'.call = "chip_init" /\ UNCHANGED conf
<1>1. Chip2305(chip) /\ Drv2305(drv)
  BY DEF State2305
<1>2. PICK a : a = Begin(n)
  OBVIOUS
<1>3. Form2305(a) /\ a.chip = chip /\ a.drv = drv
  BY <1>1, <1>2, Begun DEF Form2305
<1>4. PICK t : t = [a EXCEPT !.chip.watchdog = FALSE]
  OBVIOUS
<1>5. PICK c0 : c0 = a.chip /\ Chip2305(c0)
  BY <1>3 DEF Form2305
<1>6. PICK c1 : c1 = [c0 EXCEPT !.watchdog = FALSE]
  OBVIOUS
<1>7. Chip2305(c1) /\ SameDrive(c1, c0)
  BY <1>5, <1>6 DEF Chip2305, SameDrive
<1>8. Call(t) /\ t.ok = a.ok /\ t.chip = c1 /\ t.drv = a.drv
  BY <1>3, <1>4, <1>5, <1>6 DEF Form2305, Call
<1>9. PICK b : b = Access(a, t)
  OBVIOUS
<1>10. Form2305(b) /\ SameDrive(b.chip, chip) /\ b.drv = drv
  BY <1>3, <1>5, <1>7, <1>8, <1>9, Accessed DEF Form2305, SameDrive
<1>11. PICK c : c = ReadAndClear(b, "stall")
  OBVIOUS
<1>12. PICK d : d = ReadAndClear(c, "spin")
  OBVIOUS
<1>13. PICK e : e = ReadAndClear(d, "fail")
  OBVIOUS
<1>14. Form2305(c) /\ SameDrive(c.chip, chip) /\ c.drv = drv
  BY <1>10, <1>11, RegisterRead DEF SameDrive, FaultRegs
<1>15. Form2305(d) /\ SameDrive(d.chip, chip) /\ d.drv = drv
  BY <1>12, <1>14, RegisterRead DEF SameDrive, FaultRegs
<1>16. Form2305(e) /\ SameDrive(e.chip, chip) /\ e.drv = drv
  BY <1>13, <1>15, RegisterRead DEF SameDrive, FaultRegs
<1>17. PICK u : u = [e EXCEPT !.drv.stage = "up"]
  OBVIOUS
<1>18. u.chip = e.chip /\ u.drv = [drv EXCEPT !.stage = "up"]
  BY <1>16, <1>17 DEF Form2305, Call
<1>19. Drv2305(u.drv) /\ u.drv.max = drv.max
  BY <1>1, <1>18 DEF Drv2305
<1>20. Finish("chip_init", u, 0, seen)
  BY <1>2, <1>4, <1>9, <1>11, <1>12, <1>13, <1>17 DEF Emc2305ChipInit
<1>21. chip' = u.chip /\ drv' = u.drv /\ UNCHANGED <<conf, seen>> /\ out'.call = "chip_init"
  BY <1>20 DEF Finish, Outcome
<1> QED
  BY <1>16, <1>18, <1>19, <1>21, Stands2305 DEF Form2305

(* A call that gives one fan another speed, and forgets or promises one for it. *)
LEMMA Changes2305 ==
  ASSUME State2305, UNCHANGED conf, Chip2305(chip'), Drv2305(drv'), SeenForm', NEW f \in Fan,
         OthersKept(chip', chip, f), \A g \in Fan \ {f} : drv'.max[g] = drv.max[g],
         NEW w, seen'.want = [seen.want EXCEPT ![f] = w],
         w > 0 => Drives(chip'.hi[f], chip'.lo[f], chip'.setting[f], drv'.max[f], w)
  PROVE  State2305'
<1>1. SpeedsDriven'
  <2> SUFFICES ASSUME NEW g \in Fan, seen'.want[g] > 0
               PROVE  Drives(chip'.hi[g], chip'.lo[g], chip'.setting[g], drv'.max[g], seen'.want[g])
    BY SameDrives DEF SpeedsDriven
  <2>1. CASE g = f
    <3>1. seen'.want[f] = w
      BY DEF State2305, SeenForm
    <3> QED
      BY <2>1, <3>1
  <2>2. CASE g # f
    <3>1. seen'.want[g] = seen.want[g]
      BY <2>2 DEF State2305, SeenForm
    <3>2. Drives(chip.hi[g], chip.lo[g], chip.setting[g], drv.max[g], seen.want[g])
      BY <3>1 DEF State2305, SpeedsDriven
    <3>3. /\ chip'.hi[g] = chip.hi[g] /\ chip'.lo[g] = chip.lo[g]
          /\ chip'.setting[g] = chip.setting[g] /\ drv'.max[g] = drv.max[g]
      BY <2>2 DEF OthersKept
    <3> QED
      BY <3>1, <3>2, <3>3
  <2> QED
    BY <2>1, <2>2
<1> QED
  BY <1>1 DEF State2305

LEMMA ResourceInit2305 ==
  ASSUME State2305, NEW n, NEW f \in Fan, Emc2305ResourceInit(n, f)
  PROVE  State2305' /\ out'.call = "resource_init" /\ UNCHANGED conf
<1>1. /\ conf \in FanConf /\ Chip2305(chip) /\ Drv2305(drv) /\ SeenForm /\ Is("emc2305")
  BY DEF State2305, Emc2305ResourceInit, On
<1>2. PICK maxRpm \in conf.maxRpm :
       LET s1 == [GoOn(Access(Begin(n), [Begin(n) EXCEPT !.chip.min[f] = 80])) EXCEPT
                    !.drv.max[f] = IF @ = 0 THEN maxRpm ELSE @,
                    !.drv.ready = @ \cup {f}]
       IN IF Emc2305Divides(s1, f, s1.drv.max[f])
          THEN Finish("resource_init", Emc2305SetSpeed(s1, f, s1.drv.max[f]), 0, Forgotten(f))
          ELSE Die("resource_init")
  BY DEF Emc2305ResourceInit
<1>3. maxRpm \in Nat
  BY <1>1, <1>2, FanConfigured DEF Is
<1>4. PICK m \in Nat : m = IF drv.max[f] = 0 THEN maxRpm ELSE drv.max[f]
  BY <1>1, <1>3 DEF Drv2305
<1>5. PICK a : a = Begin(n)
  OBVIOUS
<1>6. Form2305(a) /\ a.chip = chip /\ a.drv = drv
  BY <1>1, <1>5, Begun DEF Form2305
<1>7. PICK t : t = [a EXCEPT !.chip.min[f] = 80]
  OBVIOUS
<1>8. PICK c1 : c1 = [chip EXCEPT !.min[f] = 80]
  OBVIOUS
<1>9. Chip2305(c1) /\ SameDrive(c1, chip)
  BY <1>1, <1>8 DEF Chip2305, SameDrive
<1>10. Call(t) /\ t.ok = a.ok /\ t.chip = c1 /\ t.drv = drv
  BY <1>6, <1>7, <1>8 DEF Form2305, Call
<1>11. PICK b : b = Access(a, t)
  OBVIOUS
<1>12. Call(b) /\ (b.chip = c1 \/ b.chip = chip) /\ b.drv = drv
  BY <1>6, <1>10, <1>11, Accessed DEF Form2305
<1>13. PICK g : g = GoOn(b)
  OBVIOUS
<1>14. Form2305(g) /\ SameDrive(g.chip, chip) /\ g.drv = drv
  BY <1>1, <1>9, <1>12, <1>13, WentOn DEF Form2305, SameDrive
<1>15. PICK R : R = drv.ready \cup {f}
  OBVIOUS
<1>16. PICK d : d = [drv EXCEPT !.max[f] = m, !.ready = R]
  OBVIOUS
<1>17. Drv2305(d) /\ d.max = [drv.max EXCEPT ![f] = m]
  BY <1>1, <1>15, <1>16 DEF Drv2305
<1>18. PICK s1 : s1 = [g EXCEPT !.drv.max[f] = IF @ = 0 THEN maxRpm ELSE @,
                                !.drv.ready = @ \cup {f}]
  OBVIOUS
<1>19. s1 = [g EXCEPT !.drv.max[f] = m, !.drv.ready = R]
  BY <1>4, <1>14, <1>15, <1>18 DEF Form2305, Call
<1>20. Form2305(s1) /\ s1.chip = g.chip /\ s1.drv = d
  BY <1>14, <1>16, <1>17, <1>19 DEF Form2305, Call, Drv2305
<1>21. s1.drv.max[f] = m
  BY <1>1, <1>17, <1>20 DEF Drv2305
<1>22. IF Emc2305Divides(s1, f, m)
       THEN Finish("resource_init", Emc2305SetSpeed(s1, f, m), 0, Forgotten(f))
       ELSE Die("resource_init")
  <2>1. IF Emc2305Divides(s1, f, s1.drv.max[f])
        THEN Finish("resource_init", Emc2305SetSpeed(s1, f, s1.drv.max[f]), 0, Forgotten(f))
        ELSE Die("resource_init")
    <3>1. g = GoOn(Access(Begin(n), [Begin(n) EXCEPT !.chip.min[f] = 80]))
      BY <1>5, <1>7, <1>11, <1>13
    <3>2. PICK h : h = GoOn(Access(Begin(n), [Begin(n) EXCEPT !.chip.min[f] = 80]))
      OBVIOUS
    <3>3. LET s == [h EXCEPT !.drv.max[f] = IF @ = 0 THEN maxRpm ELSE @,
                             !.drv.ready = @ \cup {f}]
          IN IF Emc2305Divides(s, f, s.drv.max[f])
             THEN Finish("resource_init", Emc2305SetSpeed(s, f, s.drv.max[f]), 0, Forgotten(f))
             ELSE Die("resource_init")
      BY <1>2, <3>2, ZenonT(60)
    <3>4. g = h
      BY <3>1, <3>2
    <3> QED
      BY <1>18, <3>3, <3>4, Zenon
  <2> QED
    BY <1>21, <2>1
<1>23. CASE ~Emc2305Divides(s1, f, m)
  <2>1. UNCHANGED <<conf, chip, drv, seen>> /\ out'.call = "resource_init"
    BY <1>22, <1>23 DEF Die, Refuse, Outcome
  <2> QED
    BY <1>1, <2>1, Stands2305 DEF SameDrive
<1>24. CASE Emc2305Divides(s1, f, m)
  <2>1. PICK r : r = Emc2305SetSpeed(s1, f, m)
    OBVIOUS
  <2>2. Form2305(r) /\ r.drv = s1.drv /\ OthersKept(r.chip, s1.chip, f)
    BY <1>1, <1>20, <1>24, <2>1, SpeedDriven
  <2>3. PICK z : z = Forgotten(f)
    OBVIOUS
  <2>4. Finish("resource_init", r, 0, z)
    BY <1>22, <1>24, <2>1, <2>3
  <2>5. chip' = r.chip /\ drv' = d /\ seen' = z /\ conf' = conf /\ out'.call = "resource_init"
    BY <1>20, <2>2, <2>4 DEF Finish, Outcome
  <2>6. SeenForm' /\ seen'.want = [seen.want EXCEPT ![f] = NoSpeed]
    BY <1>1, <2>3, <2>5, SpeedForgotten DEF SeenForm
  <2>7. OthersKept(chip', chip, f)
    BY <1>14, <1>20, <2>2, <2>5 DEF OthersKept, SameDrive
  <2>8. \A h \in Fan \ {f} : drv'.max[h] = drv.max[h]
    BY <1>1, <1>17, <2>5 DEF Drv2305
  <2>9. Chip2305(chip') /\ Drv2305(drv')
    BY <1>17, <2>2, <2>5 DEF Form2305
  <2>10. NoSpeed > 0 => FALSE
    BY DEF NoSpeed
  <2>11. State2305'
    BY <2>5, <2>6, <2>7, <2>8, <2>9, <2>10, Changes2305
  <2> QED
    BY <2>5, <2>11
<1> QED
  BY <1>23, <1>24

LEMMA SpeedSet2305 ==
  ASSUME State2305, NEW n, NEW f \in Fan, NEW rpm \in Speed, Emc2305SpeedSet(n, f, rpm)
  PROVE  State2305' /\ out'.call = "speed_set" /\ UNCHANGED conf
<1>1. /\ conf \in FanConf /\ Chip2305(chip) /\ Drv2305(drv) /\ SeenForm /\ Is("emc2305")
      /\ rpm \in Nat
  BY FanConfigured DEF State2305, Emc2305SpeedSet, Usable, On
<1>2. PICK a : a = Begin(n)
  OBVIOUS
<1>3. Form2305(a) /\ a.chip = chip /\ a.drv = drv
  BY <1>1, <1>2, Begun DEF Form2305
<1>4. PICK r : r = Emc2305SetSpeed(a, f, rpm)
  OBVIOUS
<1>5. PICK w : w = IF r.ok THEN rpm ELSE NoSpeed
  OBVIOUS
<1>6. IF ~Emc2305Divides(a, f, rpm) THEN Die("speed_set")
      ELSE Finish("speed_set", r, 0, [seen EXCEPT !.want[f] = w])
  BY <1>2, <1>4, <1>5 DEF Emc2305SpeedSet
<1>7. CASE ~Emc2305Divides(a, f, rpm)
  <2>1. UNCHANGED <<conf, chip, drv, seen>> /\ out'.call = "speed_set"
    BY <1>6, <1>7 DEF Die, Refuse, Outcome
  <2> QED
    BY <1>1, <2>1, Stands2305 DEF SameDrive
<1>8. CASE Emc2305Divides(a, f, rpm)
  <2>1. /\ Form2305(r) /\ r.drv = drv /\ OthersKept(r.chip, chip, f)
        /\ r.ok => Drives(r.chip.hi[f], r.chip.lo[f], r.chip.setting[f], drv.max[f], rpm)
    BY <1>1, <1>3, <1>4, <1>8, SpeedDriven
  <2>2. PICK z : z = [seen EXCEPT !.want[f] = w]
    OBVIOUS
  <2>3. chip' = r.chip /\ drv' = drv /\ seen' = z /\ conf' = conf /\ out'.call = "speed_set"
    BY <1>6, <1>8, <2>1, <2>2 DEF Finish, Outcome
  <2>4. w \in Speed \cup {NoSpeed}
    BY <1>5
  <2>5. SeenForm' /\ seen'.want = [seen.want EXCEPT ![f] = w]
    BY <1>1, <2>2, <2>3, <2>4, SpeedPromised DEF SeenForm
  <2>6. w > 0 => Drives(chip'.hi[f], chip'.lo[f], chip'.setting[f], drv'.max[f], w)
    BY <1>5, <2>1, <2>3 DEF NoSpeed
  <2>7. Chip2305(chip') /\ Drv2305(drv')
    BY <2>1, <2>3 DEF Form2305
  <2>8. State2305'
    BY <2>1, <2>3, <2>5, <2>6, <2>7, Changes2305
  <2> QED
    BY <2>3, <2>8
<1> QED
  BY <1>7, <1>8

LEMMA SpeedGet2305 ==
  ASSUME State2305, NEW n, NEW f \in Fan, Emc2305SpeedGet(n, f)
  PROVE  State2305' /\ out'.call = "speed_get" /\ UNCHANGED conf
<1>1. Chip2305(chip) /\ Drv2305(drv)
  BY DEF State2305
<1>2. PICK a : a = Begin(n)
  OBVIOUS
<1>3. Call(a) /\ a.chip = chip /\ a.drv = drv
  BY <1>2, Begun
<1>4. PICK b : b = Access(a, a)
  OBVIOUS
<1>5. Call(b) /\ b.chip = chip /\ b.drv = drv
  BY <1>3, <1>4, Accessed
<1>6. PICK c : c = Access(b, b)
  OBVIOUS
<1>7. c.chip = chip /\ c.drv = drv
  BY <1>5, <1>6, Accessed
<1>8. \/ Die("speed_get")
      \/ \E val : Finish("speed_get", c, val, seen)
  <2>1. PICK run \in FansTurn :
          LET top == (EdgesOf(conf.poles) - 1) * 32768 * 2 * 60
              tach == Emc2305Tach(f, run)
          IN IF c.ok /\ tach = 0 THEN Die("speed_get")
             ELSE Finish("speed_get", c, [fan |-> f, rpm |-> top \div (tach * conf.poles)], seen)
    BY <1>2, <1>4, <1>6 DEF Emc2305SpeedGet
  <2> DEFINE v == [fan |-> f, rpm |-> ((EdgesOf(conf.poles) - 1) * 32768 * 2 * 60)
                                        \div (Emc2305Tach(f, run) * conf.poles)]
  <2>2. Die("speed_get") \/ Finish("speed_get", c, v, seen)
    BY <2>1
  <2> HIDE DEF v
  <2> QED
    BY <2>2
<1>9. UNCHANGED <<conf, chip, drv, seen>> /\ out'.call = "speed_get"
  BY <1>7, <1>8 DEF Die, Refuse, Finish, Outcome
<1> QED
  BY <1>1, <1>9, Stands2305 DEF SameDrive

LEMMA StatusGet2305 ==
  ASSUME State2305, NEW n, NEW f \in Fan, Emc2305StatusGet(n, f)
  PROVE  State2305' /\ Tells /\ out'.call = "status_get" /\ UNCHANGED conf
<1>1. Chip2305(chip) /\ Drv2305(drv) /\ Is("emc2305")
  BY DEF State2305, Emc2305StatusGet, Usable, On
<1>2. PICK a : a = Begin(n)
  OBVIOUS
<1>3. Form2305(a) /\ a.chip = chip /\ a.drv = drv
  BY <1>1, <1>2, Begun DEF Form2305
<1>4. PICK s : s = Emc2305Faults(a, f)
  OBVIOUS
<1>5. /\ Form2305(s) /\ s.drv = drv /\ SameDrive(s.chip, chip)
      /\ s.ok /\ f \in chip.stall \cup chip.spin \cup chip.fail => f \in s.val
  BY <1>3, <1>4, FaultsRead
<1> DEFINE bad == f \in s.val
<1>6. PICK v : v = [fan |-> f, bad |-> bad]
  OBVIOUS
<1>7. Finish("status_get", s, v, seen)
  BY <1>2, <1>4, <1>6 DEF Emc2305StatusGet
<1>8. v.fan = f /\ (f \in s.val => v.bad)
  BY <1>6
<1> HIDE DEF bad
<1>9. /\ chip' = s.chip /\ drv' = drv /\ UNCHANGED <<conf, seen>> /\ out'.call = "status_get"
      /\ out'.res = "ok" => s.ok /\ out'.val = v
  BY <1>5, <1>7 DEF Finish, Outcome
<1>10. State2305'
  BY <1>1, <1>5, <1>9, Stands2305 DEF Form2305
<1>11. Tells
  <2> SUFFICES ASSUME NEW g \in Fan, out'.res = "ok", Noted(g), out'.val.fan = g
               PROVE  out'.val.bad
    BY DEF Tells
  <2>1. s.ok /\ g = f
    BY <1>8, <1>9
  <2>2. f \in s.val
    BY <1>1, <1>5, <2>1 DEF Noted, Is
  <2> QED
    BY <1>8, <1>9, <2>2
<1> QED
  BY <1>9, <1>10, <1>11

LEMMA World2305 ==
  ASSUME State2305, \E f \in Fan : Emc2305Fault(f)
  PROVE  State2305' /\ out'.call = "none" /\ UNCHANGED conf
<1>1. Chip2305(chip) /\ Drv2305(drv)
  BY DEF State2305
<1>2. ASSUME NEW f \in Fan, Emc2305Fault(f)
      PROVE  State2305' /\ out'.call = "none" /\ UNCHANGED conf
  <2>1. PICK reg \in FaultRegs : chip' = [chip EXCEPT ![reg] = @ \cup {f}]
    BY <1>2 DEF Emc2305Fault, FaultRegs
  <2>2. UNCHANGED <<conf, drv, seen>> /\ out'.call = "none"
    BY <1>2 DEF Emc2305Fault, Usable, On
  <2>3. Chip2305(chip') /\ SameDrive(chip', chip)
    BY <1>1, <2>1 DEF Chip2305, SameDrive, FaultRegs
  <2> QED
    BY <1>1, <2>2, <2>3, Stands2305
<1> QED
  BY <1>2

LEMMA Kept2305 ==
  ASSUME Inv2305, [Next]_device
  PROVE  Inv2305' /\ (Is("emc2305") => Tells \/ UNCHANGED device)
<1> SUFFICES ASSUME Is("emc2305")
             PROVE  State2305' /\ (Tells \/ UNCHANGED device)
  BY Steps DEF Inv2305, Is
<1>1. State2305
  BY DEF Inv2305
<1>2. ASSUME State2305', out'.call # "status_get"
      PROVE  State2305' /\ (Tells \/ UNCHANGED device)
  BY <1>2 DEF Tells
<1>3. CASE Quiet
  <2>1. UNCHANGED <<conf, chip, drv, seen>>
    BY <1>3 DEF Quiet
  <2>2. State2305'
    BY <1>1, <2>1, Stands2305 DEF State2305, SameDrive
  <2>3. CASE UNCHANGED out
    BY <2>1, <2>2, <2>3 DEF device
  <2> QED
    BY <1>2, <1>3, <2>2, <2>3 DEF Quiet
<1>4. ASSUME NEW n \in Fails, Emc2305ChipInit(n)
      PROVE  State2305' /\ (Tells \/ UNCHANGED device)
  BY <1>1, <1>2, <1>4, ChipInit2305
<1>5. ASSUME NEW n \in Fails, NEW f \in Fan, Call2305(n, f)
      PROVE  State2305' /\ (Tells \/ UNCHANGED device)
  <2>1. CASE Emc2305ResourceInit(n, f)
    BY <1>1, <1>2, <2>1, ResourceInit2305
  <2>2. CASE Emc2305SpeedGet(n, f)
    BY <1>1, <1>2, <2>2, SpeedGet2305
  <2>3. CASE Emc2305StatusGet(n, f)
    BY <1>1, <2>3, StatusGet2305
  <2>4. ASSUME NEW rpm \in Speed, Emc2305SpeedSet(n, f, rpm)
        PROVE  State2305' /\ (Tells \/ UNCHANGED device)
    BY <1>1, <1>2, <2>4, SpeedSet2305
  <2> QED
    BY <1>5, <2>1, <2>2, <2>3, <2>4 DEF Call2305
<1>6. CASE \E f \in Fan : Emc2305Fault(f)
  <2>1. State2305' /\ out'.call = "none"
    BY <1>1, <1>6, World2305
  <2> QED
    BY <1>2, <2>1
<1>7. conf.dev \in FanDevs
  BY DEF Is, FanDevs
<1> QED
  BY <1>3, <1>4, <1>5, <1>6, <1>7, Whose

--------------------------------------------------------------------------------
(* PMBus: the word format and the search of the map. *)

MapEntry == [rpm : Nat, pct : Byte]

(* The best of the first k entries, entry by entry as the code counts them. *)
LEMMA BestStep ==
  ASSUME NEW map \in Seq(MapEntry), NEW field, NEW x
  PROVE  \A k \in 1..Len(map) :
           Best(map, field, x)[k] =
             IF k > 1 /\ AbsDiff(x, map[k][field]) >= AbsDiff(x, Best(map, field, x)[k - 1][field])
             THEN Best(map, field, x)[k - 1] ELSE map[k]
<1> DEFINE N == Len(map)
           Better(b, k) == IF AbsDiff(x, map[k][field]) >= AbsDiff(x, b[field]) THEN b ELSE map[k]
           Searches(b, m) ==
             b = [k \in 1..m |-> IF k > 1 /\ AbsDiff(x, map[k][field]) >= AbsDiff(x, b[k - 1][field])
                                 THEN b[k - 1] ELSE map[k]]
           Missing == {m \in Nat : ~\E b : Searches(b, m)}
<1>1. N \in Nat
  BY LenProperties
<1>2. Missing = {}
  <2> SUFFICES ASSUME Missing # {} PROVE FALSE
    OBVIOUS
  <2>1. PICK m \in Missing : \A y \in Missing : m <= y
    <3>1. Missing \in SUBSET Nat
      OBVIOUS
    <3> QED
      BY <3>1, LeastElement
  <2>2. CASE m = 0
    <3>1. Searches([k \in 1..0 |-> map[k]], 0)
      OBVIOUS
    <3> QED
      BY <2>2, <3>1
  <2>3. CASE m # 0
    <3>1. m - 1 \in Nat /\ m - 1 < m
      BY <2>3
    <3>2. m - 1 \notin Missing
      BY <2>1, <3>1
    <3>3. PICK b0 : Searches(b0, m - 1)
      BY <3>1, <3>2
    <3>4. PICK e : e = IF m = 1 THEN map[m] ELSE Better(b0[m - 1], m)
      OBVIOUS
    <3> DEFINE g == [k \in 1..m |-> IF k = m THEN e ELSE b0[k]]
    <3>5. Searches(g, m)
      <4>1. /\ \A k \in 1..(m - 1) : g[k] = b0[k]
            /\ g[m] = e /\ g = [k \in 1..m |-> g[k]]
        BY <2>3, <3>1
      <4> HIDE DEF g
      <4>2. ASSUME NEW k \in 1..m
            PROVE  g[k] = IF k > 1 /\ AbsDiff(x, map[k][field]) >= AbsDiff(x, g[k - 1][field])
                          THEN g[k - 1] ELSE map[k]
        <5>1. CASE k > 1
          <6>1. g[k - 1] = b0[k - 1] /\ (k # m => k \in 1..(m - 1))
            <7>1. k - 1 \in 1..(m - 1) /\ (k # m => k \in 1..(m - 1))
              BY <3>1, <5>1
            <7> QED
              BY <4>1, <7>1
          <6>2. CASE k = m
            BY <3>4, <4>1, <5>1, <6>1, <6>2
          <6>3. CASE k # m
            BY <3>3, <4>1, <5>1, <6>1, <6>3
          <6> QED
            BY <6>2, <6>3
        <5>2. CASE ~(k > 1)
          <6>1. k = 1 /\ (m # 1 => 1 \in 1..(m - 1))
            BY <3>1, <5>2
          <6>2. CASE m = 1
            BY <3>4, <4>1, <5>2, <6>1, <6>2
          <6>3. CASE m # 1
            BY <3>3, <4>1, <5>2, <6>1, <6>3
          <6> QED
            BY <6>2, <6>3
        <5> QED
          BY <5>1, <5>2
      <4> QED
        BY <4>1, <4>2
    <3> QED
      BY <3>5
  <2> QED
    BY <2>2, <2>3
<1>3. Searches(Best(map, field, x), N)
  <2>1. PICK b0 : Searches(b0, N)
    BY <1>1, <1>2
  <2>2. Best(map, field, x) = CHOOSE b : Searches(b, N)
    BY DEF Best
  <2> QED
    BY <2>1, <2>2
<1> QED
  BY <1>1, <1>3

LEMMA Differs ==
  ASSUME NEW a \in Nat, NEW b \in Nat
  PROVE  AbsDiff(a, b) \in Nat
  BY DEF AbsDiff

(* A search that keeps what is at least as near holds, after m entries, one of *)
(* them that none is nearer than.                                              *)
Finds(b, map, far, m) ==
  \E i \in 1..m : b[m] = map[i] /\ \A j \in 1..m : far[i] <= far[j]

Searched(N, map, b, far, kept) ==
  /\ \A m, i \in 1..N : b[m] = map[i] => kept[m] = far[i]
  /\ N >= 1 => b[1] = map[1]
  /\ \A m \in 2..N : \/ b[m] = map[m] /\ ~(far[m] >= kept[m - 1])
                     \/ b[m] = b[m - 1] /\ far[m] >= kept[m - 1]

LEMMA SearchFinds ==
  ASSUME NEW N \in Nat, NEW map, NEW b, NEW far \in [1..N -> Nat], NEW kept,
         Searched(N, map, b, far, kept)
  PROVE  \A m \in 1..N : Finds(b, map, far, m)
<1> DEFINE Wrong == {m \in 1..N : ~Finds(b, map, far, m)}
<1> SUFFICES ASSUME Wrong # {} PROVE FALSE
  OBVIOUS
<1>1. PICK m \in 1..N : ~Finds(b, map, far, m) /\ \A y \in Wrong : m <= y
  <2>1. Wrong \in SUBSET Nat
    OBVIOUS
  <2> QED
    BY <2>1, LeastElement
<1>2. m # 1
  BY <1>1 DEF Finds, Searched
<1>3. PICK l \in 1..N : l = m - 1
  BY <1>1, <1>2
<1>4. Finds(b, map, far, l)
  BY <1>1, <1>3
<1> HIDE DEF Wrong
<1>5. PICK i \in 1..l : b[l] = map[i] /\ \A j \in 1..l : far[i] <= far[j]
  BY <1>4 DEF Finds
<1>6. kept[l] = far[i] /\ i \in 1..m
  BY <1>1, <1>3, <1>5 DEF Searched
<1>7. \/ b[m] = map[m] /\ ~(far[m] >= far[i])
      \/ b[m] = map[i] /\ far[m] >= far[i]
  BY <1>1, <1>2, <1>3, <1>5, <1>6 DEF Searched
<1>8. far[i] \in Nat /\ far[m] \in Nat /\ \A j \in 1..m : j = m \/ j \in 1..l
  BY <1>1, <1>3, <1>6
<1>9. CASE b[m] = map[m] /\ ~(far[m] >= far[i])
  <2>1. ASSUME NEW j \in 1..m PROVE far[m] <= far[j]
    <3>1. far[j] \in Nat
      BY <1>1
    <3>2. far[m] < far[i]
      BY ONLY <1>8, <1>9
    <3>3. CASE j = m
      BY ONLY <3>1, <3>3
    <3>4. CASE j \in 1..l
      <4>1. far[i] <= far[j]
        BY ONLY <1>5, <3>4
      <4> QED
        BY ONLY <1>8, <3>1, <3>2, <4>1
    <3> QED
      BY <1>8, <3>3, <3>4
  <2> QED
    BY <1>1, <1>9, <2>1 DEF Finds
<1>10. CASE b[m] = map[i] /\ far[m] >= far[i]
  <2>1. \A j \in 1..m : far[i] <= far[j]
    BY <1>5, <1>8, <1>10
  <2> QED
    BY <1>1, <1>6, <1>10, <2>1 DEF Finds
<1> QED
  BY <1>7, <1>9, <1>10

FindsNearest(map, x, k) ==
  \E i \in 1..k : /\ Best(map, "rpm", x)[k] = map[i]
                  /\ \A j \in 1..k : AbsDiff(x, map[i].rpm) <= AbsDiff(x, map[j].rpm)

LEMMA BestNearest ==
  ASSUME NEW map \in Seq(MapEntry), NEW x \in Nat, NEW k \in 1..Len(map)
  PROVE  FindsNearest(map, x, k)
<1>1. PICK N \in Nat : N = Len(map)
  BY LenProperties
<1>2. PICK b : b = Best(map, "rpm", x)
  OBVIOUS
<1> DEFINE far == [i \in 1..N |-> AbsDiff(x, map[i].rpm)]
           kept == [i \in 1..N |-> AbsDiff(x, b[i].rpm)]
<1>3. far \in [1..N -> Nat]
  <2>1. map \in [1..N -> MapEntry]
    BY <1>1, LenProperties
  <2>2. \A i \in 1..N : map[i].rpm \in Nat
    BY <2>1 DEF MapEntry
  <2> QED
    BY <2>2, Differs
<1>4. \A m \in 1..N : b[m] = IF m > 1 /\ AbsDiff(x, map[m].rpm) >= AbsDiff(x, b[m - 1].rpm)
                             THEN b[m - 1] ELSE map[m]
  BY <1>1, <1>2, BestStep
<1>5. /\ \A m, i \in 1..N : b[m] = map[i] => kept[m] = far[i]
      /\ N >= 1 => b[1] = map[1]
  BY <1>4
<1>6. \A m \in 2..N : \/ b[m] = map[m] /\ ~(far[m] >= kept[m - 1])
                      \/ b[m] = b[m - 1] /\ far[m] >= kept[m - 1]
  BY <1>4
<1>7. \A m, i \in 1..N : far[m] <= far[i] => AbsDiff(x, map[m].rpm) <= AbsDiff(x, map[i].rpm)
  OBVIOUS
<1>8. Searched(N, map, b, far, kept)
  BY <1>5, <1>6 DEF Searched
<1> HIDE DEF far, kept
<1>9. Finds(b, map, far, k)
  BY <1>1, <1>3, <1>8, SearchFinds
<1> QED
  BY <1>1, <1>2, <1>7, <1>9 DEF Finds, FindsNearest

(* The entry that the driver finds is one of the file's, and none is nearer. *)
LEMMA FoundNearest ==
  ASSUME NEW map \in Seq(MapEntry), map # <<>>, NEW x \in Nat,
         NEW q, q = Nearest(S6kPsuSpeeds(map), "rpm", x)
  PROVE  /\ q \in ToSet(map) /\ q \in MapEntry
         /\ \A r \in ToSet(map) : AbsDiff(x, q.rpm) <= AbsDiff(x, r.rpm)
<1>1. PICK rev : rev = S6kPsuSpeeds(map)
  OBVIOUS
<1>2. PICK N \in Nat \ {0} : N = Len(map)
  BY EmptySeq
<1>3. /\ rev \in Seq(MapEntry) /\ Len(rev) = N /\ DOMAIN map = 1..N
      /\ \A i \in 1..N : rev[i] = map[N - i + 1] /\ map[i] \in MapEntry
  BY <1>1, <1>2, ElementOfSeq, LenProperties DEF S6kPsuSpeeds, Reverse
<1>4. PICK i \in 1..N : /\ Best(rev, "rpm", x)[N] = rev[i]
                        /\ \A j \in 1..N : AbsDiff(x, rev[i].rpm) <= AbsDiff(x, rev[j].rpm)
  <2>1. N \in 1..Len(rev)
    BY <1>3
  <2>2. FindsNearest(rev, x, N)
    BY <1>3, <2>1, BestNearest
  <2> QED
    BY <2>2 DEF FindsNearest
<1>5. q = rev[i]
  BY <1>1, <1>3, <1>4 DEF Nearest
<1>6. q = map[N - i + 1] /\ N - i + 1 \in 1..N
  BY <1>2, <1>3, <1>5
<1>7. ASSUME NEW r \in ToSet(map) PROVE AbsDiff(x, q.rpm) <= AbsDiff(x, r.rpm)
  <2>1. PICK j \in 1..N : r = map[j]
    BY <1>3 DEF ToSet
  <2>2. N - j + 1 \in 1..N /\ N - (N - j + 1) + 1 = j
    BY <1>2
  <2>3. r = rev[N - j + 1]
    BY <1>3, <2>1, <2>2
  <2> QED
    BY <1>4, <1>5, <2>2, <2>3
<1> QED
  BY <1>3, <1>6, <1>7 DEF ToSet

(* A word of the linear format: its mantissa y and its exponent e. *)
IsWord(y, e, v) ==
  IF e >= 0 THEN v = y * TwoTo[e]
  ELSE /\ (IF v < 0 THEN -v ELSE v) * TwoTo[-e] <= (IF y < 0 THEN -y ELSE y)
       /\ (IF y < 0 THEN -y ELSE y) < ((IF v < 0 THEN -v ELSE v) + 1) * TwoTo[-e]
       /\ v * y >= 0
Rounded(y, p) == IF y < 0 THEN -((-y) \div p) ELSE y \div p

LEMMA WordRounds ==
  ASSUME NEW y \in Int, NEW e \in -16..15, NEW v,
         v = IF e >= 0 THEN y * TwoTo[e] ELSE Rounded(y, TwoTo[-e])
  PROVE  IsWord(y, e, v)
<1>1. CASE e >= 0
  BY <1>1 DEF IsWord
<1>2. CASE e < 0
  <2>1. PICK p \in Nat \ {0} : p = TwoTo[-e]
    BY <1>2, PowerPositive
  <2>2. v = Rounded(y, p)
    BY <1>2, <2>1
  <2>3. CASE y >= 0
    <3>1. v \in Nat /\ v * p <= y /\ y < (v + 1) * p
      <4>1. PICK z \in Nat : z = y
        BY <2>3
      <4>2. v = z \div p
        BY <2>2, <2>3, <4>1 DEF Rounded
      <4> QED
        BY <4>1, <4>2, Division
    <3>2. v * y >= 0
      BY <2>3, <3>1
    <3> QED
      BY <1>2, <2>1, <2>3, <3>1, <3>2 DEF IsWord
  <2>4. CASE y < 0
    <3>1. PICK z \in Nat : z = -y
      BY <2>4
    <3>2. PICK q \in Nat : q = z \div p
      BY <3>1
    <3>3. q * p <= z /\ z < (q + 1) * p
      BY <3>1, <3>2, Division
    <3>4. v = -q
      BY <2>2, <2>4, <3>1, <3>2 DEF Rounded
    <3>5. v * y = q * z
      BY <3>1, <3>4
    <3>6. q * z >= 0
      OBVIOUS
    <3>7. (IF v < 0 THEN -v ELSE v) = q
      BY <3>4
    <3>8. (IF y < 0 THEN -y ELSE y) = z
      BY <2>4, <3>1
    <3> QED
      BY <1>2, <2>1, <3>3, <3>5, <3>6, <3>7, <3>8 DEF IsWord
  <2> QED
    BY <2>3, <2>4
<1> QED
  BY <1>1, <1>2

(* The fields of a word, as the driver takes them from its bytes and as the format *)
(* says.                                                                            *)
Mantissa(w) == ((w + 1024) % 2048) - 1024
Exponent(w) == (((w \div 2048) + 16) % 32) - 16
Signed(x, top) == IF x >= top THEN x - 2 * top ELSE x

LEMMA WordFields ==
  ASSUME NEW msb \in Byte, NEW lsb \in Byte
  PROVE  /\ Signed((msb % 8) * 256 + lsb, 1024) = Mantissa(msb * 256 + lsb)
         /\ Signed(msb \div 8, 16) = Exponent(msb * 256 + lsb)
         /\ Mantissa(msb * 256 + lsb) \in Int /\ Exponent(msb * 256 + lsb) \in -16..15
<1>1. PICK h \in 0..31 : h = msb \div 8
  BY DEF Byte
<1>2. PICK l \in 0..7 : l = msb % 8
  BY DEF Byte
<1>3. msb = 8 * h + l
  BY <1>1, <1>2 DEF Byte
<1>4. PICK w \in Nat : w = msb * 256 + lsb
  BY DEF Byte
<1>5. PICK y0 \in 0..2047 : y0 = l * 256 + lsb
  BY DEF Byte
<1>6. w = 2048 * h + y0
  BY <1>3, <1>4, <1>5 DEF Byte
<1>7. w \div 2048 = h
  BY <1>6
<1>8. Signed(h, 16) = ((h + 16) % 32) - 16 /\ Signed(h, 16) \in -16..15
  <2>1. CASE h >= 16
    <3>1. (h + 16) % 32 = h - 16
      BY <2>1
    <3> QED
      BY <2>1, <3>1 DEF Signed
  <2>2. CASE h < 16
    <3>1. (h + 16) % 32 = h + 16
      BY <2>2
    <3> QED
      BY <2>2, <3>1 DEF Signed
  <2> QED
    BY <2>1, <2>2
<1>9. Signed(y0, 1024) = ((w + 1024) % 2048) - 1024 /\ Signed(y0, 1024) \in Int
  <2>1. CASE y0 >= 1024
    <3>1. (w + 1024) % 2048 = y0 - 1024
      BY <1>6, <2>1
    <3> QED
      BY <2>1, <3>1 DEF Signed
  <2>2. CASE y0 < 1024
    <3>1. (w + 1024) % 2048 = y0 + 1024
      BY <1>6, <2>2
    <3> QED
      BY <2>2, <3>1 DEF Signed
  <2> QED
    BY <2>1, <2>2
<1> QED
  BY <1>1, <1>2, <1>4, <1>5, <1>7, <1>8, <1>9 DEF Mantissa, Exponent

LEMMA WordExact ==
  ASSUME NEW msb \in Byte, NEW lsb \in Byte
  PROVE  IsWord(Mantissa(msb * 256 + lsb), Exponent(msb * 256 + lsb), LinearDataToInt(msb, lsb))
<1>1. PICK y \in Int : y = Mantissa(msb * 256 + lsb) /\ y = Signed((msb % 8) * 256 + lsb, 1024)
  BY WordFields
<1>2. PICK e \in -16..15 : e = Exponent(msb * 256 + lsb) /\ e = Signed(msb \div 8, 16)
  BY WordFields
<1>3. LinearDataToInt(msb, lsb) = IF e >= 0 THEN y * TwoTo[e] ELSE Rounded(y, TwoTo[-e])
  BY <1>1, <1>2 DEF LinearDataToInt, Signed, Rounded
<1> QED
  BY <1>1, <1>2, <1>3, WordRounds

--------------------------------------------------------------------------------
(* The invariant of a supply: its one fan has the share of the entry of the map that *)
(* is nearest to the speed it was given last, and what it tells of a word is exact.  *)

WordTold ==
  (out.call = "word_get" /\ out.res = "ok") =>
    LET w == chip.word[1] * 256 + chip.word[2] IN IsWord(Mantissa(w), Exponent(w), out.val)

ChipSupply(c) == DOMAIN c = {"pct", "word", "fault"} /\ c.pct \in Byte /\ c.word \in Byte \X Byte
DrvSupply(d) ==
  /\ DOMAIN d = {"ready", "max", "map"} /\ d.map = S6kPsuSpeeds(conf.map)
  /\ d.ready \in SUBSET (Fan \cap {PsuFan}) /\ d.max \in {0, conf.max}
ShareStands == \A f \in Fan : /\ seen.want[f] # NoSpeed => f \in drv.ready
                              /\ seen.want[f] > 0 => MapStands(chip.pct, seen.want[f])
StateSupply == conf \in FanConf /\ ChipSupply(chip) /\ DrvSupply(drv) /\ SeenForm /\ ShareStands
InvSupply == Is("pmbus") => StateSupply /\ WordTold

LEMMA SameMap ==
  ASSUME UNCHANGED conf
  PROVE  /\ \A pct, w : MapStands(pct, w)' <=> MapStands(pct, w)
         /\ \A d : DrvSupply(d)' <=> DrvSupply(d)
<1>1. \A pct, w : MapStands(pct, w)' <=> MapStands(pct, w)
  BY DEF MapStands
<1>2. \A d : DrvSupply(d)' <=> DrvSupply(d)
  BY DEF DrvSupply
<1> QED
  BY <1>1, <1>2

(* A step that leaves the share, the start-up and the speeds asked for alone. *)
LEMMA StandsSupply ==
  ASSUME StateSupply, UNCHANGED <<conf, drv, seen>>, ChipSupply(chip'), chip'.pct = chip.pct
  PROVE  StateSupply'
<1>1. SeenForm'
  BY DEF StateSupply, SeenForm
<1>2. ShareStands'
  BY SameMap DEF StateSupply, ShareStands
<1>3. DrvSupply(drv)'
  BY SameMap DEF StateSupply
<1> QED
  BY <1>1, <1>2, <1>3 DEF StateSupply

LEMMA StartsSupply == Init => InvSupply
<1> SUFFICES ASSUME Init, Is("pmbus") PROVE StateSupply /\ WordTold
  BY DEF InvSupply
<1>1. PmbusInit
  BY Starts DEF FanInit, Max6620Init, Emc2305Init, PmbusInit, Is, FanDevs
<1>2. conf \in FanConf /\ out = NoCall
  BY <1>1 DEF PmbusInit
<1>3. ChipSupply(chip)
  BY <1>1 DEF PmbusInit, ChipSupply, Byte
<1>4. DrvSupply(drv)
  BY <1>1 DEF PmbusInit, DrvSupply
<1>5. SeenForm /\ \A f \in Fan : seen.want[f] = NoSpeed
  BY <1>1 DEF PmbusInit, SeenForm, NothingSeen
<1> QED
  BY <1>2, <1>3, <1>4, <1>5 DEF StateSupply, ShareStands, NoSpeed, WordTold, NoCall

(* The start-up sets a share of its own, without the map. *)
LEMMA ShareIsByte ==
  ASSUME NEW pct \in Nat
  PROVE  pct % 256 \in Byte
  BY DEF Byte

LEMMA ResourceInitSupply ==
  ASSUME StateSupply, NEW n, NEW f \in Fan, PmbusResourceInit(n, f)
  PROVE  StateSupply' /\ out'.call = "resource_init" /\ UNCHANGED conf
<1>1. /\ conf \in FanConf /\ ChipSupply(chip) /\ DrvSupply(drv) /\ SeenForm /\ Is("pmbus")
      /\ f = PsuFan
  BY DEF StateSupply, PmbusResourceInit, On
<1>2. PICK a : a = Begin(n)
  OBVIOUS
<1>3. Call(a) /\ a.chip = chip /\ a.drv = drv
  BY <1>2, Begun
<1>4. PICK d : d = [drv EXCEPT !.ready = {f}, !.max = conf.max]
  OBVIOUS
<1>5. DrvSupply(d) /\ d.max = conf.max /\ d.ready = {f}
  BY <1>1, <1>4 DEF DrvSupply
<1>6. PICK s : s = [a EXCEPT !.drv.ready = {f}, !.drv.max = conf.max]
  OBVIOUS
<1>7. Call(s) /\ s.chip = chip /\ s.drv = d
  BY <1>3, <1>4, <1>6 DEF Call
<1>8. PICK r : r = IF conf.default # 0 THEN PmbusSetSpeed(s, FALSE, conf.default) ELSE s
  OBVIOUS
<1>9. Finish("resource_init", r, 0, Forgotten(f))
  BY <1>2, <1>6, <1>8 DEF PmbusResourceInit
<1>10. r.drv = d /\ ChipSupply(r.chip)
  <2>1. CASE conf.default = 0
    BY <1>1, <1>7, <1>8, <2>1
  <2>2. CASE conf.default # 0
    <3>1. conf.default \in Nat /\ (conf.max = 0 \/ conf.max >= 100) /\ conf.max \in Nat
      BY <1>1, ConfiguredSupply, FanConfigured
    <3>2. FanSpeedRpmToPct(s.drv.max, FALSE, conf.default) \in Nat
      <4>1. PICK m \in Nat : m = s.drv.max /\ (m = 0 \/ m >= 100)
        BY <1>5, <1>7, <3>1
      <4>2. PICK v \in Nat : v = conf.default
        BY <3>1
      <4>3. PICK pct : pct = FanSpeedRpmToPct(m, FALSE, v)
        OBVIOUS
      <4>4. pct = IF m # 0 THEN v \div (m \div 100) ELSE 100
        BY <4>3 DEF FanSpeedRpmToPct
      <4>5. m # 0 => m \div 100 \in Nat \ {0}
        BY <4>1
      <4>6. pct \in Nat
        BY <4>4, <4>5, Division
      <4> QED
        BY <4>1, <4>2, <4>3, <4>6, Zenon
    <3>3. PICK p \in Byte : p = FanSpeedRpmToPct(s.drv.max, FALSE, conf.default) % 256
      BY <3>2, ShareIsByte
    <3>4. PICK c1 : c1 = [chip EXCEPT !.pct = p]
      OBVIOUS
    <3>5. ChipSupply(c1)
      BY <1>1, <3>4 DEF ChipSupply
    <3>6. PICK t : t = [s EXCEPT !.chip.pct = p]
      OBVIOUS
    <3>7. Call(t) /\ t.ok = s.ok /\ t.chip = c1 /\ t.drv = d
      BY <1>7, <3>4, <3>6 DEF Call
    <3>8. r = Access(s, t)
      BY <1>8, <2>2, <3>3, <3>6 DEF PmbusSetSpeed
    <3>9. (r.chip = c1 \/ r.chip = chip) /\ r.drv = d
      BY <1>7, <3>7, <3>8, Accessed
    <3> QED
      BY <1>1, <3>5, <3>9
  <2> QED
    BY <2>1, <2>2
<1>11. PICK z : z = Forgotten(f)
  OBVIOUS
<1>12. chip' = r.chip /\ drv' = d /\ seen' = z /\ conf' = conf /\ out'.call = "resource_init"
  BY <1>9, <1>10, <1>11 DEF Finish, Outcome
<1>13. SeenForm' /\ seen'.want = [seen.want EXCEPT ![f] = NoSpeed]
  BY <1>1, <1>11, <1>12, SpeedForgotten DEF SeenForm
<1>14. \A g \in Fan : seen'.want[g] = NoSpeed
  BY <1>1, <1>13 DEF StateSupply, ShareStands, DrvSupply, SeenForm
<1>15. ShareStands'
  BY <1>14 DEF ShareStands, NoSpeed
<1>16. DrvSupply(drv)'
  BY <1>5, <1>12, SameMap
<1> QED
  BY <1>1, <1>10, <1>12, <1>13, <1>15, <1>16 DEF StateSupply

LEMMA SpeedSetSupply ==
  ASSUME StateSupply, NEW n, NEW f \in Fan, NEW rpm \in Speed, PmbusSpeedSet(n, f, rpm)
  PROVE  StateSupply' /\ out'.call = "speed_set" /\ UNCHANGED conf
<1>1. /\ conf \in FanConf /\ ChipSupply(chip) /\ DrvSupply(drv) /\ SeenForm /\ Is("pmbus")
      /\ f \in drv.ready /\ rpm \in Nat /\ conf.map \in Seq(MapEntry)
      /\ conf.max = 0 \/ conf.max >= 100
      /\ conf.max \in Nat
  BY FanConfigured, ConfiguredSupply DEF StateSupply, PmbusSpeedSet, Usable, On, MapEntry
<1>2. f = PsuFan /\ \A g \in Fan \ {f} : seen.want[g] = NoSpeed
  BY <1>1 DEF StateSupply, ShareStands, DrvSupply
<1>3. PICK a : a = Begin(n)
  OBVIOUS
<1>4. Call(a) /\ a.chip = chip /\ a.drv = drv
  BY <1>3, Begun
<1>5. PICK pct : pct = FanSpeedRpmToPct(a.drv.max, TRUE, rpm)
  OBVIOUS
<1>6. conf.map # <<>> => /\ pct \in Byte
                         /\ MapStands(pct, rpm)
  <2> SUFFICES ASSUME conf.map # <<>> PROVE pct \in Byte /\ MapStands(pct, rpm)
    OBVIOUS
  <2>1. PICK map \in Seq(MapEntry) : map = conf.map /\ map # <<>>
    BY <1>1
  <2>2. PICK q : q = Nearest(S6kPsuSpeeds(map), "rpm", rpm)
    OBVIOUS
  <2>3. /\ q \in ToSet(map) /\ q \in MapEntry
        /\ \A r \in ToSet(map) : AbsDiff(rpm, q.rpm) <= AbsDiff(rpm, r.rpm)
    BY <1>1, <2>1, <2>2, FoundNearest
  <2>4. drv.map = S6kPsuSpeeds(map)
    BY <1>1, <2>1 DEF DrvSupply
  <2>5. S6kPsuSpeeds(map) # <<>>
    <3>1. Len(map) \in Nat \ {0} /\ Len(<<>>) = 0
      BY <2>1, EmptySeq
    <3>2. Len(S6kPsuSpeeds(map)) = Len(map)
      BY <3>1 DEF S6kPsuSpeeds, Reverse
    <3> QED
      BY <3>1, <3>2
  <2>6. pct = q.pct
    BY <1>5, <2>2, <2>4, <2>5 DEF FanSpeedRpmToPct
  <2> QED
    BY <2>1, <2>3, <2>6 DEF MapStands, MapEntry
<1>7. conf.map = <<>> => pct \in Nat
  <2> SUFFICES ASSUME conf.map = <<>> PROVE pct \in Nat
    OBVIOUS
  <2>1. drv.map = <<>>
    <3>1. Len(conf.map) = 0
      BY EmptySeq
    <3> QED
      BY <1>1, <3>1 DEF DrvSupply, S6kPsuSpeeds, Reverse
  <2>2. PICK m \in Nat : m = a.drv.max /\ (m = 0 \/ m >= 100)
    BY <1>1, <1>4 DEF DrvSupply
  <2>3. pct = IF m # 0 THEN rpm \div (m \div 100) ELSE 100
    BY <1>5, <2>1, <2>2 DEF FanSpeedRpmToPct
  <2>4. m # 0 => m \div 100 \in Nat \ {0}
    BY <2>2
  <2> QED
    BY <1>1, <2>3, <2>4, Division
<1>8. pct \in Nat
  <2>1. CASE conf.map # <<>>
    <3>1. pct \in Byte
      BY <1>6, <2>1
    <3> QED
      BY <3>1 DEF Byte
  <2> QED
    BY <1>7, <2>1
<1>9. PICK p \in Byte : p = pct % 256
  BY <1>8, ShareIsByte
<1>10. MapStands(p, rpm)
  <2>1. CASE conf.map # <<>>
    <3>1. p = pct
      <4>1. PICK b \in Byte : b = pct
        BY <1>6, <2>1
      <4>2. b % 256 = b
        BY DEF Byte
      <4> QED
        BY <1>9, <4>1, <4>2
    <3> QED
      BY <1>6, <2>1, <3>1
  <2>2. CASE conf.map = <<>>
    BY <2>2 DEF MapStands
  <2> QED
    BY <2>1, <2>2
<1>11. PICK c1 : c1 = [chip EXCEPT !.pct = p]
  OBVIOUS
<1>12. ChipSupply(c1) /\ c1.pct = p
  BY <1>1, <1>11 DEF ChipSupply
<1>13. PICK t : t = [a EXCEPT !.chip.pct = p]
  OBVIOUS
<1>14. Call(t) /\ t.ok = a.ok /\ t.chip = c1 /\ t.drv = drv
  BY <1>4, <1>11, <1>13 DEF Call
<1>15. PICK s : s = PmbusSetSpeed(Begin(n), TRUE, rpm)
  OBVIOUS
<1>16. s = Access(a, t)
  BY <1>3, <1>5, <1>9, <1>13, <1>15 DEF PmbusSetSpeed
<1>17. s.drv = drv /\ (s.ok => s.chip = c1) /\ (~s.ok => s.chip = chip)
  BY <1>4, <1>14, <1>16, Accessed
<1>18. Finish("speed_set", s, 0, IF s.ok THEN [seen EXCEPT !.want[f] = rpm] ELSE seen)
  BY <1>15 DEF PmbusSpeedSet
<1>19. /\ chip' = s.chip /\ drv' = drv /\ conf' = conf /\ out'.call = "speed_set"
       /\ seen' = IF s.ok THEN [seen EXCEPT !.want[f] = rpm] ELSE seen
  BY <1>17, <1>18 DEF Finish, Outcome
<1>20. CASE ~s.ok
  BY <1>1, <1>17, <1>19, <1>20, StandsSupply
<1>21. CASE s.ok
  <2>1. PICK z : z = [seen EXCEPT !.want[f] = rpm]
    OBVIOUS
  <2>2. SeenForm' /\ seen'.want = [seen.want EXCEPT ![f] = rpm]
    BY <1>1, <1>19, <1>21, <2>1, SpeedPromised DEF SeenForm
  <2>3. ASSUME NEW g \in Fan
        PROVE  /\ seen'.want[g] # NoSpeed => g \in drv'.ready
               /\ seen'.want[g] > 0 => MapStands(chip'.pct, seen'.want[g])
    <3>1. CASE g = f
      <4>1. seen'.want[g] = rpm /\ chip'.pct = p
        BY <1>1, <1>12, <1>17, <1>19, <1>21, <2>2, <3>1 DEF SeenForm
      <4> QED
        BY <1>1, <1>10, <1>19, <3>1, <4>1
    <3>2. CASE g # f
      <4>1. seen'.want[g] = NoSpeed
        BY <1>1, <1>2, <2>2, <3>2 DEF SeenForm
      <4> QED
        BY <4>1 DEF NoSpeed
    <3> QED
      BY <3>1, <3>2
  <2>4. ShareStands'
    BY <1>19, <2>3, SameMap DEF ShareStands
  <2>5. ChipSupply(chip') /\ DrvSupply(drv)'
    BY <1>1, <1>12, <1>17, <1>19, <1>21, SameMap
  <2> QED
    BY <1>1, <1>19, <2>2, <2>4, <2>5 DEF StateSupply
<1> QED
  BY <1>19, <1>20, <1>21

LEMMA WordGetSupply ==
  ASSUME StateSupply, NEW n, PmbusWordGet(n)
  PROVE  StateSupply' /\ WordTold' /\ out'.call = "word_get" /\ UNCHANGED conf
<1>1. ChipSupply(chip)
  BY DEF StateSupply
<1>2. PICK msb \in Byte : msb = chip.word[1]
  BY <1>1 DEF ChipSupply
<1>3. PICK lsb \in Byte : lsb = chip.word[2]
  BY <1>1 DEF ChipSupply
<1>4. PICK s : s = Access(Begin(n), Begin(n))
  OBVIOUS
<1>5. s.chip = chip /\ s.drv = drv
  BY <1>4, Begun, Accessed
<1>6. Finish("word_get", s, LinearDataToInt(msb, lsb), seen)
  BY <1>2, <1>3, <1>4 DEF PmbusWordGet
<1>7. /\ UNCHANGED <<conf, chip, drv, seen>> /\ out'.call = "word_get"
      /\ out'.res = "ok" => out'.val = LinearDataToInt(msb, lsb)
  BY <1>5, <1>6 DEF Finish, Outcome
<1>8. IsWord(Mantissa(msb * 256 + lsb), Exponent(msb * 256 + lsb), LinearDataToInt(msb, lsb))
  BY WordExact
<1>9. WordTold'
  BY <1>2, <1>3, <1>7, <1>8 DEF WordTold
<1>10. StateSupply'
  BY <1>1, <1>7, StandsSupply
<1> QED
  BY <1>7, <1>9, <1>10

LEMMA StatusGetSupply ==
  ASSUME StateSupply, NEW n, NEW f \in Fan, PmbusStatusGet(n, f)
  PROVE  StateSupply' /\ out'.call = "status_get" /\ UNCHANGED conf
<1>1. ChipSupply(chip)
  BY DEF StateSupply
<1>2. PICK s : s = Access(Begin(n), Begin(n))
  OBVIOUS
<1>3. s.chip = chip /\ s.drv = drv
  BY <1>2, Begun, Accessed
<1>4. PICK v : v = [fan |-> f, bad |-> chip.fault]
  OBVIOUS
<1>5. Finish("status_get", s, v, seen)
  BY <1>2, <1>4 DEF PmbusStatusGet
<1>6. UNCHANGED <<conf, chip, drv, seen>> /\ out'.call = "status_get"
  BY <1>3, <1>5 DEF Finish, Outcome
<1> QED
  BY <1>1, <1>6, StandsSupply

LEMMA WorldSupply ==
  ASSUME StateSupply, PmbusWorld
  PROVE  StateSupply' /\ out'.call = "none" /\ UNCHANGED conf
<1>1. /\ ChipSupply(chip) /\ UNCHANGED <<conf, drv, seen>> /\ out'.call = "none"
      /\ conf.words \subseteq Byte \X Byte
  BY ConfiguredSupply DEF StateSupply, PmbusWorld, On
<1>2. PICK b \in BOOLEAN, w \in conf.words : chip' = [chip EXCEPT !.fault = b, !.word = w]
  BY DEF PmbusWorld
<1>3. ChipSupply(chip') /\ chip'.pct = chip.pct
  <2>1. PICK c1 : c1 = [chip EXCEPT !.fault = b]
    OBVIOUS
  <2>2. DOMAIN c1 = DOMAIN chip /\ c1.pct = chip.pct
    BY <1>1, <2>1 DEF ChipSupply
  <2>3. chip' = [c1 EXCEPT !.word = w]
    BY <1>2, <2>1
  <2> QED
    BY <1>1, <2>2, <2>3 DEF ChipSupply
<1> QED
  BY <1>1, <1>3, StandsSupply

LEMMA KeptSupply ==
  ASSUME InvSupply, [Next]_device
  PROVE  InvSupply'
<1> SUFFICES ASSUME Is("pmbus")
             PROVE  StateSupply' /\ WordTold'
  BY Steps DEF InvSupply, Is
<1>1. StateSupply /\ WordTold
  BY DEF InvSupply
<1>2. ASSUME StateSupply', out'.call # "word_get"
      PROVE  StateSupply' /\ WordTold'
  BY <1>2 DEF WordTold
<1>3. CASE Quiet
  <2>1. UNCHANGED <<conf, chip, drv, seen>>
    BY <1>3 DEF Quiet
  <2>2. StateSupply'
    BY <1>1, <2>1, StandsSupply DEF StateSupply
  <2>3. CASE UNCHANGED out
    BY <1>1, <2>1, <2>2, <2>3 DEF WordTold
  <2> QED
    BY <1>2, <1>3, <2>2, <2>3 DEF Quiet
<1>4. ASSUME NEW n \in Fails, PmbusTemperatureGet(n)
      PROVE  StateSupply' /\ WordTold'
  BY <1>1, <1>4, WordGetSupply DEF PmbusTemperatureGet
<1>5. ASSUME NEW n \in Fails, NEW f \in Fan, CallSupply(n, f)
      PROVE  StateSupply' /\ WordTold'
  <2>1. CASE PmbusResourceInit(n, f)
    BY <1>1, <1>2, <2>1, ResourceInitSupply
  <2>2. CASE PmbusSpeedGet(n, f)
    BY <1>1, <2>2, WordGetSupply DEF PmbusSpeedGet
  <2>3. CASE PmbusStatusGet(n, f)
    BY <1>1, <1>2, <2>3, StatusGetSupply
  <2>4. ASSUME NEW rpm \in Speed, PmbusSpeedSet(n, f, rpm)
        PROVE  StateSupply' /\ WordTold'
    BY <1>1, <1>2, <2>4, SpeedSetSupply
  <2> QED
    BY <1>5, <2>1, <2>2, <2>3, <2>4 DEF CallSupply
<1>6. CASE PmbusWorld
  BY <1>1, <1>2, <1>6, WorldSupply
<1>7. conf.dev \in FanDevs
  BY DEF Is, FanDevs
<1> QED
  BY <1>3, <1>4, <1>5, <1>6, <1>7, Whose

--------------------------------------------------------------------------------
(* What the invariants say of every fan device. *)

FanInv == Inv6620 /\ Inv2305 /\ InvSupply

LEMMA FanStarts == Init => FanInv
  BY Starts6620, Starts2305, StartsSupply DEF FanInv

LEMMA FanKept ==
  ASSUME FanInv, [Next]_device
  PROVE  FanInv' /\ (Is("max6620") \/ Is("emc2305") => Tells \/ UNCHANGED device)
  BY Kept6620, Kept2305, KeptSupply DEF FanInv

LEMMA Honest6620 ==
  ASSUME FanInv, Is("max6620")
  PROVE  FansHonest
<1>1. /\ State6620 /\ SpeedReadsBack /\ Chip6620(chip) /\ Drv6620(drv) /\ SeenForm
      /\ conf \in FanConf
  BY DEF FanInv, Inv6620, State6620, Data6620
<1>2. ~Is("emc2305") /\ ~Is("pmbus")
  BY DEF Is
<1>8. Count11 = 0..2047
  <2>1. PICK h \in Nat : h = 2047
    OBVIOUS
  <2>2. 0..h = {n \in Nat : n < h + 1}
    OBVIOUS
  <2>3. 0..2047 = 0..h /\ h + 1 = 2048
    BY ONLY <2>1
  <2> QED
    BY ONLY <2>2, <2>3 DEF Count11
<1>3. FanTypeOK
  BY <1>1, <1>2, <1>8 DEF FanTypeOK, SeenForm, Chip6620, Drv6620, Periods
<1>4. FaultKept
  BY <1>1 DEF State6620, FaultsCovered, FaultKept
<1>5. ASSUME NEW f \in Fan, NEW w, w = seen.want[f], w > 0
      PROVE  CountStands(chip.count[f], drv.max[f], w)
  <2>1. w \in Nat \ {0}
    BY <1>1, <1>5, FanConfigured DEF SeenForm, NoSpeed
  <2>2. PICK np \in Nat \ {0} : np = conf.np
    BY <1>1, ConfiguredPulses
  <2>3. PICK p \in Nat : p = PeriodFor(drv.max[f])
    BY <1>1, PeriodIn DEF Drv6620
  <2>4. PICK k \in Nat : k = (p * 60 * 8192) \div np
    OBVIOUS
  <2>5. PICK c \in Nat : c = k \div w
    BY <2>1
  <2>6. CountFor(drv.max[f], w) = c
    BY <2>2, <2>3, <2>4, <2>5 DEF CountFor
  <2>7. Fits(c, 2046) => chip.count[f] = c
    BY <1>1, <1>5, <2>6 DEF State6620, CountsStand, TargetCount
  <2>8. c * w <= k /\ k < (c + 1) * w
    BY <2>1, <2>5, Division
  <2> QED
    BY <2>2, <2>3, <2>4, <2>5, <2>7, <2>8 DEF CountStands
<1>6. SpeedStands
  BY <1>2, <1>5 DEF SpeedStands
<1>7. LinearExact
  BY <1>2 DEF LinearExact
<1> QED
  BY <1>1, <1>3, <1>4, <1>6, <1>7 DEF FansHonest

LEMMA Honest2305 ==
  ASSUME FanInv, Is("emc2305")
  PROVE  FansHonest
<1>1. State2305 /\ Chip2305(chip) /\ Drv2305(drv) /\ SeenForm /\ conf \in FanConf
  BY DEF FanInv, Inv2305, State2305
<1>2. ~Is("max6620") /\ ~Is("pmbus")
  BY DEF Is
<1>3. FanTypeOK
  BY <1>1, <1>2 DEF FanTypeOK, SeenForm, Chip2305, Drv2305, Byte
<1>4. FaultKept /\ SpeedReadsBack /\ LinearExact
  BY <1>2 DEF FaultKept, SpeedReadsBack, LinearExact
<1>5. ASSUME NEW f \in Fan, NEW w, w = seen.want[f], w > 0
      PROVE  Drives(chip.hi[f], chip.lo[f], chip.setting[f], drv.max[f], w)
  BY <1>1, <1>5 DEF State2305, SpeedsDriven
<1>6. SpeedStands
  BY <1>2, <1>5 DEF SpeedStands
<1> QED
  BY <1>3, <1>4, <1>6 DEF FansHonest

LEMMA HonestSupply ==
  ASSUME FanInv, Is("pmbus")
  PROVE  FansHonest
<1>1. /\ StateSupply /\ ChipSupply(chip) /\ DrvSupply(drv) /\ SeenForm /\ conf \in FanConf
      /\ WordTold
  BY DEF FanInv, InvSupply, StateSupply
<1>2. ~Is("max6620") /\ ~Is("emc2305")
  BY DEF Is
<1>3. FanTypeOK
  BY <1>1, <1>2 DEF FanTypeOK, SeenForm, ChipSupply, DrvSupply, Byte
<1>4. FaultKept /\ SpeedReadsBack
  BY <1>2 DEF FaultKept, SpeedReadsBack
<1>5. LinearExact
  BY <1>1 DEF WordTold, LinearExact, IsWord, Mantissa, Exponent
<1>6. SpeedStands
  BY <1>1, <1>2 DEF StateSupply, ShareStands, SpeedStands
<1> QED
  BY <1>3, <1>4, <1>5, <1>6 DEF FansHonest

LEMMA HonestAtAll ==
  ASSUME FanInv
  PROVE  FansHonest
<1>1. CASE conf.dev \in FanDevs
  BY <1>1, Honest6620, Honest2305, HonestSupply DEF FanDevs, Is
<1>2. CASE conf.dev \notin FanDevs
  <2>1. ~Is("max6620") /\ ~Is("pmbus")
    BY <1>2 DEF Is, FanDevs
  <2> QED
    BY <1>2, <2>1 DEF FansHonest, FanTypeOK, FaultKept, SpeedStands, SpeedReadsBack, LinearExact
<1> QED
  BY <1>1, <1>2

(* Whatever sequence of calls and failing accesses came before: the registers of  *)
(* every fan device of every configuration keep their width, no fault that reading *)
(* cleared is lost, a fan is driven at the speed of the last accepted call within  *)
(* the step of its register or the map of its supply, and a speed read back is the *)
(* one that was asked for (sdi_max6620.c, sdi_emc2305.c, sdi_pmbus_dev.c).         *)
THEOREM FanSafety == Spec => []FansHonest
<1> QED
  BY FanStarts, FanKept, HonestAtAll, PTL DEF Spec

(* A poll of a fan that comes back without an error tells of every fault that the  *)
(* registers or the latch held of that fan: no fault of an earlier poll, of another *)
(* fan's poll or of a register that is read before the last one is dropped         *)
(* (sdi_max6620_fan_status_get, sdi_emc2305_fan_status_get).                       *)
THEOREM FaultSafety == Spec => FaultTold
<1> DEFINE Tell == \A f \in Fan : (out'.call = "status_get" /\ out'.res = "ok" /\ Noted(f))
                                    => (out'.val.fan = f => out'.val.bad)
<1>1. FanInv /\ [Next]_device => [Tell]_device
  <2> SUFFICES ASSUME FanInv, [Next]_device PROVE [Tell]_device
    OBVIOUS
  <2>1. CASE Is("max6620") \/ Is("emc2305")
    BY <2>1, FanKept DEF Tells
  <2>2. CASE ~(Is("max6620") \/ Is("emc2305"))
    BY <2>2 DEF Noted
  <2> QED
    BY <2>1, <2>2
<1>2. FaultTold <=> [][Tell]_device
  BY DEF FaultTold
<1> HIDE DEF Tell
<1> QED
  BY <1>1, <1>2, FanStarts, FanKept, PTL DEF Spec

--------------------------------------------------------------------------------
(* The boards. The registers of the measurements, those of the control and the  *)
(* ranges of the entity information do not overlap, the RAM has them all, what  *)
(* is set fits a word, and where there is entity information one thread calls.  *)

Measured(c) == {c.fan, c.fan + 1, c.temp, c.temp + 1}
Controls(c) == {c.ctrl, c.ctrl + c.step}
Offset == Nat \cup {-1}
Largest == 6553
RangeFits(c, f) ==
  /\ f.first \in Nat /\ f.last \in Nat /\ f.first <= f.last /\ f.room \in Nat \ {0}
  /\ \A a \in f.first..f.last : a \in DOMAIN c.ram /\ a \notin Measured(c) \cup Controls(c)
BoardFits(c) ==
  /\ c.fan \in Nat /\ c.temp \in Nat /\ c.ctrl \in Nat /\ c.step \in Nat \ {0} /\ c.width \in Nat
  /\ c.low \in Offset /\ c.high \in Offset /\ c.status \in Offset
  /\ c.ram = [a \in DOMAIN c.ram |-> c.ram[a]]
  /\ Controls(c) \subseteq DOMAIN c.ram /\ Controls(c) \cap Measured(c) = {}
  /\ c.values \subseteq 0..Largest
  /\ c.fields \in Seq(ToSet(c.fields)) /\ c.parts \in Seq(ToSet(c.parts))
  /\ \A f \in ToSet(c.fields) \cup ToSet(c.parts) \cup {c.ppid} : RangeFits(c, f)
  /\ "info" \in c.users => \E t \in Thread : c.callers = {t}
Boards == Nobody \notin Thread /\ \A c \in SfConf : BoardFits(c)

--------------------------------------------------------------------------------
(* Whose turn it is. A thread that is about a call is Active from the moment it  *)
(* may use the ports: with the lock, or, in the entity information, without it.  *)

Commands == {"fan", "temp", "threshold", "alarm", "ext_get", "ext_set", "info"}
Accessing == {"high", "low", "data"}
Active(r) == r.step \in Accessing \cup {"release"}
ReadOps == {Read(a) : a \in Nat}
WriteOps == {Write(a, v) : a \in Controls(conf), v \in 0..255}

Form(r) ==
  /\ r = [call |-> r.call, step |-> r.step, todo |-> r.todo, got |-> r.got, arg |-> r.arg]
  /\ r.todo \in Seq(ReadOps \cup WriteOps)
  /\ r.todo \in IF r.call = "ext_set" THEN Seq(WriteOps) ELSE Seq(ReadOps)
  /\ r.step \in Accessing => r.todo # <<>>
  /\ r.step = "release" => r.todo = <<>>
AtWork(t, r) ==
  /\ t \in conf.callers /\ r.call \in Commands
  /\ r.step \in Accessing \cup {"acquire", "release"}
  /\ r.call = "info" => "info" \in conf.users /\ r.step \in Accessing
OnPorts(r, hi, lo) ==
  /\ r.step \in {"low", "data"} => hi = Head(r.todo).addr \div 256
  /\ r.step = "data" => lo = Head(r.todo).addr % 256
Turn(t, r, lock, hi, lo) ==
  /\ Form(r)
  /\ r = Idle \/ AtWork(t, r)
  /\ lock = t <=> r.call # "info" /\ Active(r)
  /\ OnPorts(r, hi, lo)
SfShape ==
  /\ conf \in SfConf
  /\ chip = [hi |-> chip.hi, lo |-> chip.lo, ram |-> chip.ram]
  /\ chip.ram = [a \in DOMAIN conf.ram |-> chip.ram[a]]
  /\ drv = [lock |-> drv.lock, th |-> drv.th]
  /\ drv.th = [t \in Thread |-> drv.th[t]]
  /\ seen = [sets |-> seen.sets, info |-> seen.info]
Turns == \A t \in Thread : Turn(t, drv.th[t], drv.lock, chip.hi, chip.lo)

LEMMA Board1 ==
  ASSUME Boards, SfShape
  PROVE  BoardFits(conf) /\ Nobody \notin Thread
  BY DEF Boards, SfShape

LEMMA SplitAddress ==
  ASSUME NEW a \in Nat
  PROVE  /\ (a \div 256) * 256 + (a % 256) = a
         /\ a \div 256 \in Nat /\ a % 256 \in 0..255
  OBVIOUS

LEMMA OpAddress ==
  ASSUME Boards, SfShape, NEW op \in ReadOps \cup WriteOps
  PROVE  /\ op = [op |-> op.op, addr |-> op.addr, val |-> op.val] /\ op.addr \in Nat
         /\ op.op = "write" => op.addr \in Controls(conf) /\ op.val \in 0..255
         /\ op.op = "read" \/ op.op = "write"
         /\ op \in ReadOps => op.op = "read"
         /\ op \in WriteOps => op.op = "write"
<1>1. Controls(conf) \subseteq Nat
  BY Board1 DEF BoardFits, Controls
<1> QED
  BY <1>1 DEF ReadOps, WriteOps, Read, Write

(* A thread on the ports has them for itself. *)
LEMMA Alone ==
  ASSUME Boards, SfShape, Turns, NEW t \in Thread, NEW u \in Thread, t # u, Active(drv.th[t])
  PROVE  ~Active(drv.th[u])
<1> SUFFICES ASSUME Active(drv.th[u])
             PROVE  FALSE
  OBVIOUS
<1>1. /\ AtWork(t, drv.th[t]) /\ AtWork(u, drv.th[u])
      /\ drv.lock = t <=> drv.th[t].call # "info"
      /\ drv.lock = u <=> drv.th[u].call # "info"
  BY DEF Turns, Turn, Active, Accessing, Idle
<1>2. "info" \in conf.users => \E x \in Thread : conf.callers = {x}
  BY Board1 DEF BoardFits
<1> QED
  BY <1>1, <1>2 DEF AtWork

(* The step of a thread leaves the turns of the others alone. *)
LEMMA TurnsKept ==
  ASSUME Boards, SfShape, Turns, UNCHANGED conf, NEW t \in Thread, NEW q, NEW l,
         drv' = [lock |-> l, th |-> [drv.th EXCEPT ![t] = q]],
         Turn(t, q, l, chip'.hi, chip'.lo),
         \A u \in Thread \ {t} : l = u <=> drv.lock = u,
         (chip'.hi = chip.hi /\ chip'.lo = chip.lo) \/ Active(drv.th[t])
  PROVE  Turns'
<1> SUFFICES ASSUME NEW u \in Thread
             PROVE  Turn(u, drv.th[u], drv.lock, chip.hi, chip.lo)'
  BY DEF Turns
<1>1. \A r, k, h, w : Turn(u, r, k, h, w)' <=> Turn(u, r, k, h, w)
  BY DEF Turn, Form, AtWork, OnPorts, ReadOps, WriteOps, Controls, Active, Idle
<1>2. CASE u = t
  BY <1>1, <1>2 DEF SfShape
<1>3. CASE u # t
  <2>1. drv'.th[u] = drv.th[u] /\ (drv'.lock = u <=> drv.lock = u)
    BY <1>3 DEF SfShape
  <2>2. Turn(u, drv.th[u], drv.lock, chip.hi, chip.lo)
    BY DEF Turns
  <2>3. (chip'.hi = chip.hi /\ chip'.lo = chip.lo) \/ ~Active(drv.th[u])
    BY <1>3, Alone
  <2>4. Turn(u, drv.th[u], drv'.lock, chip'.hi, chip'.lo)
    BY <2>1, <2>2, <2>3 DEF Turn, OnPorts, Active, Accessing
  <2> QED
    BY <1>1, <2>1, <2>4
<1> QED
  BY <1>2, <1>3

(* The data port is at the address of the thread that is to use it. *)
LEMMA Addressed ==
  ASSUME Boards, SfShape, Turns, NEW t \in Thread, drv.th[t].step = "data"
  PROVE  /\ Latched = Access1(t).addr /\ Access1(t) \in ReadOps \cup WriteOps
         /\ Access1(t) \in IF drv.th[t].call = "ext_set" THEN WriteOps ELSE ReadOps
<1>1. Turn(t, drv.th[t], drv.lock, chip.hi, chip.lo)
  BY DEF Turns
<1>2. drv.th[t].todo # <<>> /\ drv.th[t].todo \in Seq(ReadOps \cup WriteOps)
  BY <1>1 DEF Turn, Form, Accessing
<1>3. Access1(t) \in ReadOps \cup WriteOps
  BY <1>2, HeadTailProperties DEF Access1
<1>4. Access1(t) \in IF drv.th[t].call = "ext_set" THEN WriteOps ELSE ReadOps
  BY <1>1, <1>2, HeadTailProperties DEF Access1, Turn, Form
<1>5. PICK a \in Nat : a = Access1(t).addr
  BY <1>3, OpAddress
<1>6. chip.hi = a \div 256 /\ chip.lo = a % 256
  BY <1>1, <1>5 DEF Turn, OnPorts, Access1
<1>7. Latched = a
  BY <1>6, SplitAddress DEF Latched
<1> QED
  BY <1>3, <1>4, <1>5, <1>7

--------------------------------------------------------------------------------
(* The control of two bytes: how far a call is that sets it or gets it, and the  *)
(* word between the calls.                                                       *)

HighByte(v) == ((v * 10) \div 256) % 256
LowByte(v) == (v * 10) % 256
TwoBytes == conf.width = 2 /\ conf.step = 1
SetFits(r, h, l) ==
  /\ r.arg \in 0..Largest
  /\ \/ r.todo = <<Write(conf.ctrl, HighByte(r.arg)), Write(conf.ctrl + 1, LowByte(r.arg))>>
     \/ /\ r.step # "acquire" /\ h = HighByte(r.arg)
        /\ \/ r.todo = <<Write(conf.ctrl + 1, LowByte(r.arg))>>
           \/ r.todo = <<>> /\ l = LowByte(r.arg)
GetFits(r, h, l) ==
  \/ r.todo = <<Read(conf.ctrl), Read(conf.ctrl + 1)>> /\ r.got = <<>>
  \/ r.step # "acquire" /\ r.todo = <<Read(conf.ctrl + 1)>> /\ r.got = <<h>>
  \/ r.step # "acquire" /\ r.todo = <<>> /\ r.got = <<h, l>>
ControlFits(r, h, l) ==
  /\ r.call = "ext_set" => SetFits(r, h, l)
  /\ r.call = "ext_get" => GetFits(r, h, l)
Midway(r) == r.call = "ext_set" /\ Len(r.todo) < 2 /\ r.step # "acquire"
HighOf(ram) == ram[conf.ctrl]
LowOf(ram) == ram[conf.ctrl + 1]
SfDelivered(o, sets) ==
  (o.call = "ext_get" /\ o.res = "ok") => \E w \in sets : o.val = w \div 10
ControlHolds ==
  TwoBytes =>
    /\ \A t \in Thread : ControlFits(drv.th[t], HighOf(chip.ram), LowOf(chip.ram))
    /\ (\A t \in Thread : ~Midway(drv.th[t])) =>
         HighOf(chip.ram) * 256 + LowOf(chip.ram) \in seen.sets
    /\ SfDelivered(out, seen.sets)

(* The step of a thread leaves the calls of the others alone. *)
LEMMA ControlKept ==
  ASSUME Boards, SfShape, Turns, ControlHolds, UNCHANGED conf, NEW t \in Thread, NEW q,
         drv'.th = [drv.th EXCEPT ![t] = q],
         NEW h, NEW l, h = HighOf(chip'.ram), l = LowOf(chip'.ram),
         TwoBytes => ControlFits(q, h, l),
         seen.sets \subseteq seen'.sets,
         \/ /\ h = HighOf(chip.ram) /\ l = LowOf(chip.ram)
            /\ TwoBytes => (Midway(q) <=> Midway(drv.th[t]))
         \/ TwoBytes => Active(drv.th[t]) /\ (Midway(q) \/ h * 256 + l \in seen'.sets),
         TwoBytes => out' = out \/ SfDelivered(out', seen'.sets)
  PROVE  ControlHolds'
<1> SUFFICES ASSUME TwoBytes
             PROVE  ControlHolds'
  BY DEF ControlHolds, TwoBytes
<1>1. \A r, x, y : ControlFits(r, x, y)' <=> ControlFits(r, x, y)
  BY DEF ControlFits, SetFits, GetFits
<1>2. drv'.th[t] = q /\ \A u \in Thread \ {t} : drv'.th[u] = drv.th[u]
  BY DEF SfShape
<1>3. ASSUME NEW u \in Thread \ {t}
      PROVE  ControlFits(drv.th[u], h, l)
  <2>1. ControlFits(drv.th[u], HighOf(chip.ram), LowOf(chip.ram))
    BY DEF ControlHolds
  <2>2. CASE h = HighOf(chip.ram) /\ l = LowOf(chip.ram)
    BY <2>1, <2>2
  <2>3. CASE Active(drv.th[t])
    <3>1. ~Active(drv.th[u])
      BY <2>3, Alone
    <3>2. drv.th[u] = Idle \/ drv.th[u].step = "acquire"
      BY <3>1 DEF Turns, Turn, AtWork, Active
    <3> QED
      BY <2>1, <3>2 DEF ControlFits, SetFits, GetFits, Idle
  <2> QED
    BY <2>2, <2>3
<1>4. ASSUME \A u \in Thread : ~Midway(drv'.th[u])
      PROVE  h * 256 + l \in seen'.sets
  <2>1. CASE /\ h = HighOf(chip.ram) /\ l = LowOf(chip.ram)
             /\ Midway(q) <=> Midway(drv.th[t])
    <3>1. \A u \in Thread : ~Midway(drv.th[u])
      BY <1>2, <1>4, <2>1
    <3> QED
      BY <2>1, <3>1 DEF ControlHolds
  <2>2. CASE Midway(q) \/ h * 256 + l \in seen'.sets
    BY <1>2, <1>4, <2>2
  <2> QED
    BY <2>1, <2>2
<1>5. SfDelivered(out', seen'.sets)
  BY DEF ControlHolds, SfDelivered
<1>6. ASSUME NEW u \in Thread
      PROVE  ControlFits(drv.th[u], HighOf(chip.ram), LowOf(chip.ram))'
  <2>1. PICK r : r = drv'.th[u]
    OBVIOUS
  <2>2. ControlFits(r, h, l)
    BY <1>2, <1>3, <2>1, TwoBytes
  <2>3. HighOf(chip.ram)' = h /\ LowOf(chip.ram)' = l
    BY DEF HighOf, LowOf
  <2> QED
    BY <1>1, <2>1, <2>2, <2>3
<1>7. (\A u \in Thread : ~Midway(drv.th[u])') => (HighOf(chip.ram) * 256 + LowOf(chip.ram) \in seen.sets)'
  BY <1>4 DEF HighOf, LowOf, Midway
<1> QED
  BY <1>5, <1>6, <1>7 DEF ControlHolds, SfDelivered, Midway

(* The high byte and the low byte of ten times a value. *)
LEMMA BytesOfWord ==
  ASSUME NEW v \in 0..Largest
  PROVE  HighByte(v) * 256 + LowByte(v) = v * 10
<1>1. v * 10 \in Nat /\ v * 10 < 256 * 256
  BY DEF Largest
<1>2. PICK w \in Nat : w = v * 10 /\ w < 256 * 256
  BY <1>1
<1>3. w \div 256 \in 0..255 /\ (w \div 256) * 256 + (w % 256) = w
  BY <1>2
<1>4. (w \div 256) % 256 = w \div 256
  BY <1>3
<1> QED
  BY <1>2, <1>3, <1>4 DEF HighByte, LowByte

--------------------------------------------------------------------------------
(* The entity information: how far a field is.                                   *)

RoomOf(f) == Min2(f.room, f.last - f.first + 1)
RangeText(f, ram) == [j \in 1..RoomOf(f) |-> ram[f.first + j - 1]]
GotSoFar(r, ram, n) ==
  LET f == Field(r.arg)
  IN /\ r.got = SubSeq(RangeText(f, ram), 1, n)
     /\ r.todo = SubSeq(FieldReads(r.arg), n + 1, RoomOf(f))
     /\ \A j \in 1..n : Printable(RangeText(f, ram)[j])
InfoFits(r, ram) ==
  r.call = "info" =>
    /\ r.arg \in 1..Len(Fields)
    /\ \E n \in 0..(RoomOf(Field(r.arg)) - 1) : GotSoFar(r, ram, n)
ToldText(info, ram) ==
  info # <<>> =>
    LET text == RangeText(Field(info[1]), ram)
        n == RoomOf(Field(info[1]))
        bad == {j \in 1..n : ~Printable(text[j])}
    IN /\ info[1] \in 1..Len(Fields)
       /\ info[2] = SubSeq(text, 1, IF bad = {} THEN n ELSE Min(bad) - 1)
InfoHolds ==
  /\ \A t \in Thread : InfoFits(drv.th[t], chip.ram)
  /\ ToldText(seen.info, chip.ram)
TextBytes == DOMAIN conf.ram \ (Measured(conf) \cup Controls(conf))

LEMMA FieldInRam ==
  ASSUME Boards, SfShape, NEW k \in 1..Len(Fields)
  PROVE  /\ Field(k).first \in Nat /\ Field(k).last \in Nat /\ RoomOf(Field(k)) \in Nat \ {0}
         /\ \A j \in 1..RoomOf(Field(k)) : Field(k).first + j - 1 \in TextBytes
<1>1. PICK R : R = ToSet(conf.fields) \cup ToSet(conf.parts) \cup {conf.ppid}
  OBVIOUS
<1>2. conf.fields \in Seq(R) /\ conf.parts \in Seq(R) /\ conf.ppid \in R
  BY <1>1, Board1, SeqMonotonic DEF BoardFits
<1>3. Append(conf.fields, conf.ppid) \in Seq(R) /\ conf.fields \o conf.parts \in Seq(R)
  BY <1>2, AppendProperties, ConcatProperties
<1>4. Fields \in Seq(R)
  BY <1>3, EmptySeq DEF Fields
<1>5. PICK f \in R : f = Field(k)
  BY <1>4, ElementOfSeq DEF Field
<1>6. RangeFits(conf, f)
  BY <1>1, Board1 DEF BoardFits
<1>7. RoomOf(f) \in Nat \ {0} /\ RoomOf(f) <= f.last - f.first + 1
  BY <1>6 DEF RangeFits, RoomOf, Min2
<1>8. ASSUME NEW j \in 1..RoomOf(f)
      PROVE  f.first + j - 1 \in TextBytes
  <2>1. f.first + j - 1 \in f.first..f.last
    BY <1>6, <1>7 DEF RangeFits
  <2> QED
    BY <1>6, <2>1 DEF RangeFits, TextBytes
<1> QED
  BY <1>5, <1>6, <1>7, <1>8 DEF RangeFits

LEMMA TextKept ==
  ASSUME Boards, SfShape, NEW ram, \A a \in TextBytes : ram[a] = chip.ram[a],
         NEW k \in 1..Len(Fields)
  PROVE  RangeText(Field(k), ram) = RangeText(Field(k), chip.ram)
  BY FieldInRam DEF RangeText

(* What touches no text leaves the fields as far as they are. *)
LEMMA InfoKept ==
  ASSUME Boards, SfShape, InfoHolds, UNCHANGED conf, NEW t \in Thread, NEW q,
         drv'.th = [drv.th EXCEPT ![t] = q],
         NEW ram, ram = chip'.ram, \A a \in TextBytes : ram[a] = chip.ram[a],
         InfoFits(q, chip.ram), ToldText(seen'.info, chip.ram)
  PROVE  InfoHolds'
<1>1. Fields' = Fields /\ (\A k : Field(k)' = Field(k)) /\ (\A k : FieldReads(k)' = FieldReads(k))
  BY DEF Fields, Field, FieldReads
<1>2. (\A r, m : InfoFits(r, m)' <=> InfoFits(r, m)) /\ (\A i, m : ToldText(i, m)' <=> ToldText(i, m))
  BY <1>1 DEF InfoFits, GotSoFar, ToldText
<1>3. ASSUME NEW r, InfoFits(r, chip.ram)
      PROVE  InfoFits(r, ram)
  <2> SUFFICES ASSUME r.call = "info"
               PROVE  /\ r.arg \in 1..Len(Fields)
                      /\ \E n \in 0..(RoomOf(Field(r.arg)) - 1) : GotSoFar(r, ram, n)
    BY DEF InfoFits
  <2>1. r.arg \in 1..Len(Fields)
    BY <1>3 DEF InfoFits
  <2>2. PICK n \in 0..(RoomOf(Field(r.arg)) - 1) : GotSoFar(r, chip.ram, n)
    BY <1>3 DEF InfoFits
  <2>3. RangeText(Field(r.arg), ram) = RangeText(Field(r.arg), chip.ram)
    BY <2>1, TextKept
  <2>4. GotSoFar(r, ram, n)
    BY <2>2, <2>3 DEF GotSoFar
  <2> QED
    BY <2>1, <2>4
<1>4. ASSUME NEW i, ToldText(i, chip.ram)
      PROVE  ToldText(i, ram)
  <2>1. CASE i = <<>>
    BY <2>1 DEF ToldText
  <2>2. CASE i # <<>>
    <3>1. PICK k \in 1..Len(Fields) : k = i[1]
      BY <1>4, <2>2 DEF ToldText
    <3>2. RangeText(Field(k), ram) = RangeText(Field(k), chip.ram)
      BY TextKept
    <3> QED
      BY <1>4, <2>2, <3>1, <3>2 DEF ToldText
  <2> QED
    BY <2>1, <2>2
<1>5. ASSUME NEW u \in Thread
      PROVE  InfoFits(drv'.th[u], ram)
  <2>1. PICK r : r = drv'.th[u]
    OBVIOUS
  <2>2. InfoFits(r, chip.ram)
    BY <2>1 DEF InfoHolds, SfShape
  <2> QED
    BY <1>3, <2>1, <2>2
<1> QED
  BY <1>2, <1>4, <1>5 DEF InfoHolds

--------------------------------------------------------------------------------
(* The inductive invariant of the bus, and its steps.                            *)

SfHolds == SfShape /\ Turns /\ ControlHolds /\ InfoHolds
SfInv == Is("sf") => SfHolds

(* A step of a thread that leaves the RAM and the words of the control. *)
LEMMA ThreadStep ==
  ASSUME Boards, SfHolds, UNCHANGED <<conf, out>>, NEW t \in Thread, NEW q, NEW l,
         seen' = [sets |-> seen.sets, info |-> seen'.info], ToldText(seen'.info, chip.ram),
         drv' = [lock |-> l, th |-> [drv.th EXCEPT ![t] = q]],
         chip' = [hi |-> chip'.hi, lo |-> chip'.lo, ram |-> chip.ram],
         Turn(t, q, l, chip'.hi, chip'.lo),
         \A u \in Thread \ {t} : l = u <=> drv.lock = u,
         (chip'.hi = chip.hi /\ chip'.lo = chip.lo) \/ Active(drv.th[t]),
         TwoBytes => ControlFits(q, HighOf(chip.ram), LowOf(chip.ram)),
         TwoBytes => (Midway(q) <=> Midway(drv.th[t])), InfoFits(q, chip.ram)
  PROVE  SfHolds'
<1>1. SfShape /\ Turns /\ ControlHolds /\ InfoHolds
  BY DEF SfHolds
<1>2. chip'.ram = chip.ram /\ drv'.th = [drv.th EXCEPT ![t] = q] /\ drv'.lock = l
  OBVIOUS
<1>3. SfShape'
  BY <1>1, <1>2 DEF SfShape
<1>4. Turns'
  BY <1>1, TurnsKept
<1>5. ControlHolds'
  <2>0. seen.sets \subseteq seen'.sets
    OBVIOUS
  <2>1. PICK h, w : h = HighOf(chip.ram) /\ w = LowOf(chip.ram)
    OBVIOUS
  <2>2. h = HighOf(chip'.ram) /\ w = LowOf(chip'.ram)
    BY <1>2, <2>1
  <2> QED
    BY <1>1, <1>2, <2>0, <2>1, <2>2, ControlKept
<1>6. InfoHolds'
  <2>2. PICK ram : ram = chip'.ram
    OBVIOUS
  <2>3. \A a \in TextBytes : ram[a] = chip.ram[a]
    BY <1>2, <2>2
  <2> QED
    BY <1>1, <1>2, <2>2, <2>3, InfoKept
<1> QED
  BY <1>3, <1>4, <1>5, <1>6 DEF SfHolds

(* A step of a thread that leaves the RAM and what callers know. *)
LEMMA QuietStep ==
  ASSUME Boards, SfHolds, UNCHANGED <<conf, seen, out>>, NEW t \in Thread, NEW q, NEW l,
         drv' = [lock |-> l, th |-> [drv.th EXCEPT ![t] = q]],
         chip' = [hi |-> chip'.hi, lo |-> chip'.lo, ram |-> chip.ram],
         Turn(t, q, l, chip'.hi, chip'.lo),
         \A u \in Thread \ {t} : l = u <=> drv.lock = u,
         (chip'.hi = chip.hi /\ chip'.lo = chip.lo) \/ Active(drv.th[t]),
         TwoBytes => ControlFits(q, HighOf(chip.ram), LowOf(chip.ram)),
         TwoBytes => (Midway(q) <=> Midway(drv.th[t])), InfoFits(q, chip.ram)
  PROVE  SfHolds'
<1>1. UNCHANGED <<conf, out>>
  OBVIOUS
<1>2. seen' = [sets |-> seen.sets, info |-> seen'.info] /\ ToldText(seen'.info, chip.ram)
  BY DEF SfHolds, SfShape, InfoHolds
<1> QED
  BY <1>1, <1>2, ThreadStep

(* A call starts with the bytes it is to move. *)
LEMMA SfCallStarts ==
  ASSUME Boards, SfHolds, NEW t \in Thread, NEW call \in Commands, NEW todo, NEW arg,
         Start(t, call, todo, arg), todo \in Seq(ReadOps \cup WriteOps),
         todo \in IF call = "ext_set" THEN Seq(WriteOps) ELSE Seq(ReadOps),
         call = "info" => todo # <<>> /\ "info" \in conf.users,
         TwoBytes /\ call = "ext_set" =>
           /\ arg \in 0..Largest
           /\ todo = <<Write(conf.ctrl, HighByte(arg)), Write(conf.ctrl + 1, LowByte(arg))>>,
         TwoBytes /\ call = "ext_get" => todo = <<Read(conf.ctrl), Read(conf.ctrl + 1)>>,
         NEW q, q = [call |-> call, step |-> FirstStep(call), todo |-> todo, got |-> <<>>, arg |-> arg],
         InfoFits(q, chip.ram)
  PROVE  SfHolds'
<1>1. SfShape /\ Turns /\ ControlHolds /\ InfoHolds
  BY DEF SfHolds
<1>2. PICK l : l = drv.lock
  OBVIOUS
<1>3. /\ drv' = [lock |-> l, th |-> [drv.th EXCEPT ![t] = q]] /\ drv.th[t] = Idle /\ t \in conf.callers
      /\ UNCHANGED <<conf, chip, out, seen>>
  BY <1>1, <1>2 DEF Start, MayCall, SfShape
<1>4. l # t
  BY <1>1, <1>2, <1>3 DEF Turns, Turn, Active, Accessing, Idle
<1>5. /\ q.call = call /\ q.todo = todo /\ q.got = <<>> /\ q.arg = arg
      /\ q.step = IF call = "info" THEN "high" ELSE "acquire"
  BY DEF FirstStep
<1>6. Form(q) /\ AtWork(t, q)
  BY <1>3, <1>5 DEF Form, AtWork, Accessing
<1>7. Turn(t, q, l, chip.hi, chip.lo)
  BY <1>4, <1>5, <1>6 DEF Turn, Active, Accessing, OnPorts
<1>8. TwoBytes => ControlFits(q, HighOf(chip.ram), LowOf(chip.ram))
  BY <1>5 DEF ControlFits, SetFits, GetFits
<1>9. ~Midway(q) /\ ~Midway(drv.th[t])
  BY <1>3, <1>5 DEF Midway, Idle
<1>10. chip' = [hi |-> chip'.hi, lo |-> chip'.lo, ram |-> chip.ram]
  BY <1>1, <1>3 DEF SfShape
<1>11. Turn(t, q, l, chip'.hi, chip'.lo)
  BY <1>3, <1>7
<1> QED
  BY <1>2, <1>3, <1>8, <1>9, <1>10, <1>11, QuietStep

(* The first field of the entity information, from its first byte. *)
LEMMA FieldBegins ==
  ASSUME Boards, SfShape, NEW k \in 1..Len(Fields), NEW r,
         r.arg = k, r.got = <<>>, r.todo = FieldReads(k)
  PROVE  /\ InfoFits(r, chip.ram) /\ r.todo \in Seq(ReadOps) /\ r.todo # <<>>
         /\ Len(r.todo) = RoomOf(Field(k))
         /\ \A j \in 1..RoomOf(Field(k)) : r.todo[j] = Read(Field(k).first + j - 1)
<1>1. PICK n \in Nat \ {0} : n = RoomOf(Field(k))
  BY FieldInRam
<1>2. FieldReads(k) = [j \in 1..n |-> Read(Field(k).first + j - 1)]
  BY <1>1 DEF FieldReads, RoomOf
<1>3. \A j \in 1..n : Read(Field(k).first + j - 1) \in ReadOps
  BY <1>1, FieldInRam DEF ReadOps
<1>4. FieldReads(k) \in Seq(ReadOps) /\ Len(FieldReads(k)) = n
  <2>1. FieldReads(k) \in [1..n -> ReadOps]
    BY <1>2, <1>3
  <2> QED
    BY <1>2, <2>1, SeqDef, LenProperties
<1>5. SubSeq(FieldReads(k), 1, n) = FieldReads(k)
  BY <1>4, SubSeqFull
<1>6. SubSeq(RangeText(Field(k), chip.ram), 1, 0) = <<>>
  BY SubSeqEmpty
<1>7. GotSoFar(r, chip.ram, 0)
  BY <1>1, <1>5, <1>6 DEF GotSoFar
<1>8. 0 \in 0..(RoomOf(Field(k)) - 1)
  BY <1>1
<1>9. FieldReads(k) # <<>>
  BY <1>1, <1>4, EmptySeq
<1> QED
  BY <1>1, <1>2, <1>4, <1>7, <1>8, <1>9 DEF InfoFits

(* An answer that does not come from the control moves nothing. *)
LEMMA NothingMoves ==
  ASSUME SfHolds, UNCHANGED <<conf, chip, drv, seen>>, out' = out \/ SfDelivered(out', seen.sets)
  PROVE  SfHolds'
<1>1. SfShape /\ Turns /\ ControlHolds /\ InfoHolds
  BY DEF SfHolds
<1>2. SfShape'
  BY <1>1 DEF SfShape
<1>3. Turns'
  <2>1. \A t, r, k, h, w : Turn(t, r, k, h, w)' <=> Turn(t, r, k, h, w)
    BY DEF Turn, Form, AtWork, OnPorts, ReadOps, WriteOps, Controls, Active, Idle
  <2> QED
    BY <1>1, <2>1 DEF Turns
<1>4. ControlHolds'
  BY <1>1 DEF ControlHolds, TwoBytes, ControlFits, SetFits, GetFits, HighOf, LowOf, Midway, SfDelivered
<1>5. InfoHolds'
  <2>1. Fields' = Fields /\ (\A k : Field(k)' = Field(k)) /\ (\A k : FieldReads(k)' = FieldReads(k))
    BY DEF Fields, Field, FieldReads
  <2> QED
    BY <1>1, <2>1 DEF InfoHolds, InfoFits, GotSoFar, ToldText
<1> QED
  BY <1>2, <1>3, <1>4, <1>5 DEF SfHolds

LEMMA CallsHold ==
  ASSUME Boards, SfHolds, NEW t \in Thread, SfCall(t)
  PROVE  SfHolds'
<1>1. SfShape /\ BoardFits(conf)
  BY Board1 DEF SfHolds
<1>2. \A a \in Nat : <<Read(a), Read(a + 1)>> \in Seq(ReadOps) /\ <<Read(a)>> \in Seq(ReadOps)
  <2> SUFFICES ASSUME NEW a \in Nat
               PROVE  <<Read(a), Read(a + 1)>> \in Seq(ReadOps) /\ <<Read(a)>> \in Seq(ReadOps)
    OBVIOUS
  <2>1. Read(a) \in ReadOps /\ Read(a + 1) \in ReadOps
    BY DEF ReadOps
  <2> QED
    BY <2>1
<1>3. \A s \in Seq(ReadOps) : s \in Seq(ReadOps \cup WriteOps)
  BY SeqMonotonic
<1>4. ASSUME NEW call \in Commands \ {"ext_set", "ext_get", "info"}, NEW todo \in Seq(ReadOps),
             Start(t, call, todo, 0)
      PROVE  SfHolds'
  <2>1. PICK q : q = [call |-> call, step |-> FirstStep(call), todo |-> todo, got |-> <<>>, arg |-> 0]
    OBVIOUS
  <2>2. InfoFits(q, chip.ram)
    BY <1>4, <2>1 DEF InfoFits
  <2>3. todo \in Seq(ReadOps \cup WriteOps)
    BY <1>3
  <2>4. call \in Commands /\ call # "ext_set" /\ call # "ext_get" /\ call # "info"
    BY <1>4
  <2> QED
    BY <1>4, <2>1, <2>2, <2>3, <2>4, SfCallStarts
<1>5. ASSUME NEW call, NEW res, Refuse(call, res), call # "ext_get"
      PROVE  SfHolds'
  BY <1>5, NothingMoves DEF Refuse, Outcome, SfDelivered
<1>6. CASE SfFanSpeedGet(t) \/ SfTmpTemperatureGet(t) \/ SfTmpThresholdSet(t) \/ ExtCtrlApiRefuses(t)
  <2>1. conf.fan \in Nat /\ conf.temp \in Nat
    BY <1>1 DEF BoardFits
  <2>2. PICK f \in Seq(ReadOps), m \in Seq(ReadOps) : f = ReadWord(conf.fan) /\ m = ReadWord(conf.temp)
    BY <1>2, <2>1 DEF ReadWord
  <2> QED
    BY <1>4, <1>5, <1>6, <2>2 DEF SfFanSpeedGet, SfTmpTemperatureGet, SfTmpThresholdSet, ExtCtrlApiRefuses, Commands
<1>7. ASSUME NEW o \in Offset, SfTmpThresholdGet(t, o)
      PROVE  SfHolds'
  <2>1. CASE o = -1
    BY <1>5, <1>7, <2>1 DEF SfTmpThresholdGet
  <2>2. CASE o # -1
    <3>1. o \in Nat
      BY <2>2 DEF Offset
    <3>2. PICK w \in Seq(ReadOps) : w = ReadWord(o)
      BY <1>2, <3>1 DEF ReadWord
    <3> QED
      BY <1>4, <1>7, <2>2, <3>2 DEF SfTmpThresholdGet, Commands
  <2> QED
    BY <2>1, <2>2
<1>8. CASE SfTmpStatusGet(t)
  <2>1. CASE conf.status = -1
    BY <1>5, <1>8, <2>1 DEF SfTmpStatusGet
  <2>2. CASE conf.status # -1
    <3>1. conf.status \in Nat
      BY <1>1, <2>2 DEF Offset, BoardFits
    <3>2. PICK w \in Seq(ReadOps) : w = <<Read(conf.status)>>
      BY <1>2, <3>1
    <3> QED
      BY <1>4, <1>8, <2>2, <3>2 DEF SfTmpStatusGet, Commands
  <2> QED
    BY <2>1, <2>2
<1>9. CASE SfExtCtrlGet(t)
  <2>1. PICK todo : todo = IF conf.width = 2 THEN <<Read(conf.ctrl), Read(conf.ctrl + conf.step)>>
                           ELSE <<Read(conf.ctrl)>>
    OBVIOUS
  <2>2. todo \in Seq(ReadOps)
    <3>1. conf.ctrl \in Nat /\ conf.ctrl + conf.step \in Nat
      BY <1>1 DEF BoardFits
    <3>2. Read(conf.ctrl) \in ReadOps /\ Read(conf.ctrl + conf.step) \in ReadOps
      BY <3>1 DEF ReadOps
    <3> QED
      BY <2>1, <3>2
  <2>3. PICK q : q = [call |-> "ext_get", step |-> FirstStep("ext_get"), todo |-> todo, got |-> <<>>, arg |-> 0]
    OBVIOUS
  <2>4. InfoFits(q, chip.ram)
    BY <2>3 DEF InfoFits
  <2>5. Start(t, "ext_get", todo, 0)
    BY <1>9, <2>1 DEF SfExtCtrlGet
  <2>6. TwoBytes => todo = <<Read(conf.ctrl), Read(conf.ctrl + 1)>>
    BY <2>1 DEF TwoBytes
  <2> QED
    BY <1>3, <2>2, <2>3, <2>4, <2>5, <2>6, SfCallStarts DEF Commands
<1>10. CASE SfExtCtrlSet(t)
  <2>1. PICK v \in conf.values : Start(t, "ext_set", ExtBytes(v), v)
    BY <1>10 DEF SfExtCtrlSet
  <2>2. v \in 0..Largest
    BY <1>1 DEF BoardFits
  <2>3. PICK todo : todo = ExtBytes(v)
    OBVIOUS
  <2>4. HighByte(v) \in 0..255 /\ LowByte(v) \in 0..255
    BY <2>2 DEF HighByte, LowByte, Largest
  <2>5. \A a \in Controls(conf), b \in 0..255 : Write(a, b) \in WriteOps
    BY DEF WriteOps
  <2>6. conf.ctrl \in Controls(conf) /\ conf.ctrl + conf.step \in Controls(conf)
    BY DEF Controls
  <2>7. todo \in Seq(WriteOps) /\ todo \in Seq(ReadOps \cup WriteOps)
    <3>1. \/ todo = <<>>
          \/ todo = <<Write(conf.ctrl, HighByte(v)), Write(conf.ctrl + conf.step, LowByte(v))>>
          \/ todo = <<Write(conf.ctrl, LowByte(v))>>
      BY <2>3 DEF ExtBytes, HighByte, LowByte
    <3>2. PICK S : S = WriteOps
      OBVIOUS
    <3>3. PICK a \in S, b \in S, c \in S :
            /\ a = Write(conf.ctrl, HighByte(v)) /\ b = Write(conf.ctrl, LowByte(v))
            /\ c = Write(conf.ctrl + conf.step, LowByte(v))
      BY <2>4, <2>5, <2>6, <3>2
    <3>4. <<>> \in Seq(S) /\ <<a, c>> \in Seq(S) /\ <<b>> \in Seq(S)
      OBVIOUS
    <3>5. todo \in Seq(WriteOps)
      BY <3>1, <3>2, <3>3, <3>4
    <3> QED
      BY <3>5, SeqMonotonic
  <2>8. TwoBytes => todo = <<Write(conf.ctrl, HighByte(v)), Write(conf.ctrl + 1, LowByte(v))>>
    BY <2>3 DEF TwoBytes, ExtBytes, HighByte, LowByte
  <2>9. PICK q : q = [call |-> "ext_set", step |-> FirstStep("ext_set"), todo |-> todo, got |-> <<>>, arg |-> v]
    OBVIOUS
  <2>10. InfoFits(q, chip.ram)
    BY <2>9 DEF InfoFits
  <2> QED
    BY <2>1, <2>2, <2>3, <2>7, <2>8, <2>9, <2>10, SfCallStarts DEF Commands
<1>11. CASE SfEntityInfoGet(t)
  <2>1. PICK k : k = Min(FieldsFrom(1))
    OBVIOUS
  <2>2. Start(t, "info", FieldReads(k), k) /\ FieldsFrom(1) # {} /\ "info" \in conf.users
    BY <1>11, <2>1 DEF SfEntityInfoGet, OnSf
  <2>3. k \in 1..Len(Fields)
    <3>1. FieldsFrom(1) \in SUBSET Nat
      BY DEF FieldsFrom
    <3> QED
      BY <2>1, <2>2, <3>1, LeastNatural DEF FieldsFrom
  <2>4. PICK todo : todo = FieldReads(k)
    OBVIOUS
  <2>5. PICK q : q = [call |-> "info", step |-> FirstStep("info"), todo |-> todo, got |-> <<>>, arg |-> k]
    OBVIOUS
  <2>6. InfoFits(q, chip.ram) /\ todo \in Seq(ReadOps) /\ todo # <<>>
    BY <1>1, <2>3, <2>4, <2>5, FieldBegins
  <2> QED
    BY <1>3, <2>2, <2>4, <2>5, <2>6, SfCallStarts DEF Commands
<1>12. conf.low \in Offset /\ conf.high \in Offset
  BY <1>1 DEF BoardFits
<1> QED
  BY <1>6, <1>7, <1>8, <1>9, <1>10, <1>11, <1>12 DEF SfCall

(* The lock is taken: the thread that has it is the only one that may use the *)
(* ports.                                                                      *)
LEMMA AcquireHolds ==
  ASSUME Boards, SfHolds, NEW t \in Thread, SfAcquireBus(t)
  PROVE  SfHolds'
<1>1. SfShape /\ Turns /\ ControlHolds /\ InfoHolds /\ Nobody \notin Thread
  BY Board1 DEF SfHolds
<1>2. PICK r : r = drv.th[t]
  OBVIOUS
<1>3. PICK q : q = [r EXCEPT !.step = IF r.todo = <<>> THEN "release" ELSE "high"]
  OBVIOUS
<1>4. /\ r.step = "acquire" /\ drv.lock = Nobody /\ UNCHANGED <<conf, chip, out, seen>>
      /\ drv' = [lock |-> t, th |-> [drv.th EXCEPT ![t] = q]]
  BY <1>1, <1>2, <1>3 DEF SfAcquireBus, SfShape
<1>5. Turn(t, r, drv.lock, chip.hi, chip.lo)
  BY <1>1, <1>2 DEF Turns
<1>6. Form(r) /\ AtWork(t, r) /\ r.call # "info"
  BY <1>4, <1>5 DEF Turn, Idle, AtWork, Accessing
<1>7. /\ q = [call |-> r.call, step |-> q.step, todo |-> r.todo, got |-> r.got, arg |-> r.arg]
      /\ q.step = IF r.todo = <<>> THEN "release" ELSE "high"
      /\ q.call = r.call /\ q.todo = r.todo /\ q.got = r.got /\ q.arg = r.arg
  BY <1>3, <1>6 DEF Form
<1>8. Form(q) /\ AtWork(t, q)
  BY <1>6, <1>7 DEF Form, AtWork, Accessing
<1>9. Turn(t, q, t, chip'.hi, chip'.lo)
  BY <1>4, <1>6, <1>7, <1>8 DEF Turn, OnPorts, Active, Accessing
<1>10. \A u \in Thread \ {t} : t = u <=> drv.lock = u
  BY <1>1, <1>4
<1>11. TwoBytes => ControlFits(q, HighOf(chip.ram), LowOf(chip.ram)) /\ ~Midway(q) /\ ~Midway(r)
  <2> SUFFICES ASSUME TwoBytes
               PROVE  ControlFits(q, HighOf(chip.ram), LowOf(chip.ram)) /\ ~Midway(q) /\ ~Midway(r)
    OBVIOUS
  <2>1. ControlFits(r, HighOf(chip.ram), LowOf(chip.ram))
    BY <1>1, <1>2 DEF ControlHolds
  <2>2. r.call = "ext_set" => Len(r.todo) = 2
    <3>1. PICK a, b : a = Write(conf.ctrl, HighByte(r.arg)) /\ b = Write(conf.ctrl + 1, LowByte(r.arg))
      OBVIOUS
    <3>2. r.call = "ext_set" => r.todo = <<a, b>>
      BY <1>4, <2>1, <3>1 DEF ControlFits, SetFits
    <3>3. Len(<<a, b>>) = 2
      OBVIOUS
    <3> QED
      BY <3>2, <3>3
  <2> QED
    BY <1>4, <1>7, <2>1, <2>2 DEF ControlFits, SetFits, GetFits, Midway
<1>12. chip' = [hi |-> chip'.hi, lo |-> chip'.lo, ram |-> chip.ram]
  BY <1>1, <1>4 DEF SfShape
<1>13. InfoFits(q, chip.ram)
  BY <1>6, <1>7 DEF InfoFits
<1>14. chip'.hi = chip.hi /\ chip'.lo = chip.lo
  BY <1>4
<1>15. TwoBytes => (Midway(q) <=> Midway(drv.th[t]))
  BY <1>2, <1>11
<1> QED
  BY <1>4, <1>9, <1>10, <1>11, <1>12, <1>13, <1>14, <1>15, QuietStep

(* The two bytes of the address go to their ports. *)
LEMMA PortHolds ==
  ASSUME Boards, SfHolds, NEW t \in Thread, PortHigh(t) \/ PortLow(t)
  PROVE  SfHolds'
<1>1. SfShape /\ Turns /\ ControlHolds /\ InfoHolds
  BY DEF SfHolds
<1>2. PICK r, l : r = drv.th[t] /\ l = drv.lock
  OBVIOUS
<1>3. PICK q : q = [r EXCEPT !.step = IF r.step = "high" THEN "low" ELSE "data"]
  OBVIOUS
<1>4. /\ r.step \in {"high", "low"} /\ UNCHANGED <<conf, out, seen>>
      /\ drv' = [lock |-> l, th |-> [drv.th EXCEPT ![t] = q]]
      /\ chip' = [hi |-> chip'.hi, lo |-> chip'.lo, ram |-> chip.ram]
      /\ r.step = "high" => chip'.hi = Head(r.todo).addr \div 256
      /\ r.step = "low" => chip'.hi = chip.hi /\ chip'.lo = Head(r.todo).addr % 256
  BY <1>1, <1>2, <1>3 DEF PortHigh, PortLow, Access1, SfShape
<1>5. Turn(t, r, l, chip.hi, chip.lo)
  BY <1>1, <1>2 DEF Turns
<1>6. Form(r) /\ AtWork(t, r)
  BY <1>4, <1>5 DEF Turn, Idle, AtWork
<1>7. /\ q = [call |-> r.call, step |-> q.step, todo |-> r.todo, got |-> r.got, arg |-> r.arg]
      /\ q.step = IF r.step = "high" THEN "low" ELSE "data"
      /\ q.call = r.call /\ q.todo = r.todo /\ q.got = r.got /\ q.arg = r.arg
  BY <1>3, <1>6 DEF Form
<1>8. Form(q) /\ AtWork(t, q)
  BY <1>4, <1>6, <1>7 DEF Form, AtWork, Accessing
<1>9. Turn(t, q, l, chip'.hi, chip'.lo)
  <2>1. OnPorts(q, chip'.hi, chip'.lo)
    BY <1>4, <1>5, <1>7 DEF Turn, OnPorts
  <2>2. l = t <=> q.call # "info" /\ Active(q)
    BY <1>4, <1>5, <1>7 DEF Turn, Active, Accessing
  <2> QED
    BY <1>8, <2>1, <2>2 DEF Turn
<1>10. TwoBytes => ControlFits(q, HighOf(chip.ram), LowOf(chip.ram))
  <2>1. TwoBytes => ControlFits(r, HighOf(chip.ram), LowOf(chip.ram))
    BY <1>1, <1>2 DEF ControlHolds
  <2> QED
    BY <1>4, <1>7, <2>1 DEF ControlFits, SetFits, GetFits
<1>11. Midway(q) <=> Midway(drv.th[t])
  BY <1>2, <1>4, <1>7 DEF Midway
<1>12. InfoFits(q, chip.ram)
  <2>1. InfoFits(r, chip.ram)
    BY <1>1, <1>2 DEF InfoHolds
  <2> QED
    BY <1>7, <2>1 DEF InfoFits, GotSoFar
<1>13. \A u \in Thread \ {t} : l = u <=> drv.lock = u
  BY <1>2
<1>14. Active(drv.th[t])
  BY <1>2, <1>4 DEF Active, Accessing
<1> QED
  BY <1>4, <1>9, <1>10, <1>11, <1>12, <1>13, <1>14, QuietStep

LEMMA LastOne ==
  ASSUME NEW S, NEW s \in Seq(S), s # <<>>
  PROVE  Len(s) \in Nat \ {0} /\ (Tail(s) = <<>> <=> Len(s) = 1)
<1>1. Len(s) \in Nat \ {0} /\ Tail(s) \in Seq(S) /\ Len(Tail(s)) = Len(s) - 1
  BY EmptySeq, HeadTailProperties
<1>2. Tail(s) # <<>> => Len(Tail(s)) \in Nat \ {0}
  BY <1>1, EmptySeq
<1>3. Tail(s) = <<>> => Len(Tail(s)) = 0
  BY EmptySeq
<1> QED
  BY <1>1, <1>2, <1>3

(* What a thread has left after a byte that it moved. *)
StepAfter(todo) == IF Len(todo) = 1 THEN "release" ELSE "high"
ByteDone(r, got) ==
  [r EXCEPT !.todo = Tail(r.todo), !.got = got, !.step = StepAfter(r.todo)]

LEMMA ByteMoved ==
  ASSUME Boards, SfHolds, NEW t \in Thread, NEW r, r = drv.th[t], r.step = "data", r.call # "info",
         NEW q, NEW got, NEW hi, NEW lo, q = ByteDone(r, got)
  PROVE  /\ q.call = r.call /\ q.got = got /\ q.arg = r.arg /\ q.todo = Tail(r.todo)
         /\ q.step = StepAfter(r.todo)
         /\ Turn(t, q, drv.lock, hi, lo)
         /\ Active(r) /\ r.todo # <<>>
<1>1. Turn(t, r, drv.lock, chip.hi, chip.lo)
  BY DEF SfHolds, Turns
<1>2. Form(r) /\ AtWork(t, r) /\ r.todo # <<>> /\ r.todo \in Seq(ReadOps \cup WriteOps)
  BY <1>1 DEF Turn, Idle, Form, Accessing
<1>3. /\ q = [call |-> r.call, step |-> q.step, todo |-> q.todo, got |-> got, arg |-> r.arg]
      /\ q.todo = Tail(r.todo) /\ q.step = StepAfter(r.todo)
  BY <1>2 DEF Form, ByteDone
<1>4. /\ q.todo \in Seq(ReadOps \cup WriteOps) /\ Len(q.todo) = Len(r.todo) - 1
      /\ q.todo \in IF r.call = "ext_set" THEN Seq(WriteOps) ELSE Seq(ReadOps)
  BY <1>2, <1>3, HeadTailProperties DEF Form
<1>5. Len(r.todo) \in Nat \ {0} /\ (q.todo = <<>> <=> Len(r.todo) = 1)
  BY <1>2, <1>3, LastOne
<1>6. Form(q) /\ AtWork(t, q)
  <2>1. /\ q.call = r.call /\ q.got = got /\ q.arg = r.arg
        /\ q.step = "release" <=> q.todo = <<>>
        /\ q.step \in {"high", "release"}
    BY <1>3, <1>5 DEF StepAfter
  <2>2. Form(q)
    BY <1>3, <1>4, <2>1 DEF Form, Accessing
  <2>3. AtWork(t, q)
    BY <1>2, <2>1 DEF AtWork, Accessing
  <2> QED
    BY <2>2, <2>3
<1>7. drv.lock = t <=> q.call # "info" /\ Active(q)
  BY <1>1, <1>3 DEF Turn, Active, Accessing, StepAfter
<1>8. OnPorts(q, hi, lo)
  BY <1>3 DEF OnPorts, StepAfter
<1> QED
  BY <1>2, <1>3, <1>6, <1>7, <1>8 DEF Turn, Active, Accessing

LEMMA WriteHolds ==
  ASSUME Boards, SfHolds, NEW t \in Thread, PortWrite(t)
  PROVE  SfHolds'
<1>1. SfShape /\ Turns /\ ControlHolds /\ InfoHolds /\ BoardFits(conf)
  BY Board1 DEF SfHolds
<1>2. PICK r, l : r = drv.th[t] /\ l = drv.lock
  OBVIOUS
<1>3. PICK q : q = ByteDone(r, r.got)
  OBVIOUS
<1>4. PICK op : op = Head(r.todo)
  OBVIOUS
<1>5. r.step = "data" /\ op.op = "write" /\ Access1(t) = op
  BY <1>2, <1>4 DEF PortWrite, Access1
<1>6. /\ Latched = op.addr /\ op \in ReadOps \cup WriteOps
      /\ op.addr \in Controls(conf) /\ r.call = "ext_set"
  BY <1>1, <1>2, <1>5, Addressed, OpAddress
<1>7. /\ UNCHANGED <<conf, out, seen>>
      /\ drv' = [lock |-> l, th |-> [drv.th EXCEPT ![t] = q]]
      /\ chip' = [hi |-> chip.hi, lo |-> chip.lo, ram |-> chip'.ram]
      /\ chip'.ram = [a \in DOMAIN conf.ram |-> IF a = op.addr THEN op.val ELSE chip.ram[a]]
  <2>1. op.addr \in DOMAIN conf.ram /\ DOMAIN chip.ram = DOMAIN conf.ram
    BY <1>1, <1>6 DEF BoardFits, SfShape
  <2>2. Form(r)
    BY <1>1, <1>2 DEF Turns, Turn
  <2>3. q = [r EXCEPT !.todo = Tail(r.todo), !.step = IF Len(r.todo) = 1 THEN "release" ELSE "high"]
    BY <1>3, <2>2 DEF Form, ByteDone, StepAfter
  <2>4. /\ chip' = [chip EXCEPT !.ram = [@ EXCEPT ![op.addr] = op.val]]
        /\ UNCHANGED <<conf, out, seen>>
    BY <1>5, <1>6, <2>1 DEF PortWrite
  <2>5. drv' = [drv EXCEPT !.th = [drv.th EXCEPT ![t] = q]]
    BY <1>1, <1>2, <2>3 DEF PortWrite, SfShape
  <2> QED
    BY <1>1, <1>2, <2>1, <2>4, <2>5 DEF SfShape
<1>8. /\ q.call = r.call /\ q.got = r.got /\ q.arg = r.arg /\ q.todo = Tail(r.todo)
      /\ q.step = StepAfter(r.todo)
      /\ Turn(t, q, l, chip'.hi, chip'.lo) /\ Active(drv.th[t])
  <2>0. PICK hi, lo : hi = chip'.hi /\ lo = chip'.lo
    OBVIOUS
  <2>1. PICK got : got = r.got
    OBVIOUS
  <2>2. q = ByteDone(r, got)
    BY <1>3, <2>1
  <2>3. /\ q.call = r.call /\ q.got = got /\ q.arg = r.arg /\ q.todo = Tail(r.todo)
        /\ q.step = StepAfter(r.todo)
        /\ Turn(t, q, drv.lock, hi, lo) /\ Active(r)
    BY <1>2, <1>5, <1>6, <2>2, ByteMoved
  <2> QED
    BY <1>2, <2>0, <2>1, <2>3
<1>9. PICK ram : ram = chip'.ram
  OBVIOUS
<1>10. SfShape'
  BY <1>1, <1>7 DEF SfShape
<1>11. Turns'
  BY <1>1, <1>2, <1>7, <1>8, TurnsKept
<1>12. PICK h, w : h = HighOf(ram) /\ w = LowOf(ram)
  OBVIOUS
<1>13. TwoBytes => ControlFits(q, h, w) /\ Midway(q)
  <2> SUFFICES ASSUME TwoBytes
               PROVE  ControlFits(q, h, w) /\ Midway(q)
    OBVIOUS
  <2>1. SetFits(r, HighOf(chip.ram), LowOf(chip.ram))
    BY <1>1, <1>2, <1>6 DEF ControlHolds, ControlFits
  <2>2. /\ conf.ctrl \in Nat /\ conf.ctrl \in DOMAIN conf.ram /\ conf.ctrl + 1 \in DOMAIN conf.ram
    BY <1>1 DEF BoardFits, Controls, TwoBytes
  <2>3. PICK v : v = r.arg /\ v \in 0..Largest
    BY <2>1 DEF SetFits
  <2>4. PICK o1, o2 : o1 = Write(conf.ctrl, HighByte(v)) /\ o2 = Write(conf.ctrl + 1, LowByte(v))
    OBVIOUS
  <2>5. CASE r.todo = <<o1, o2>>
    <3>1. op = o1 /\ q.todo = <<o2>> /\ Len(q.todo) = 1 /\ q.step = "high"
      BY <1>4, <1>8, <2>5 DEF StepAfter
    <3>2. h = HighByte(v)
      BY <1>7, <1>9, <1>12, <2>2, <2>4, <3>1 DEF HighOf, Write
    <3>3. q.call = "ext_set" /\ q.arg = v
      BY <1>6, <1>8, <2>3
    <3>4. SetFits(q, h, w)
      BY <2>3, <2>4, <3>1, <3>2, <3>3 DEF SetFits
    <3> QED
      BY <3>1, <3>3, <3>4 DEF ControlFits, Midway
  <2>6. CASE r.todo = <<o2>> /\ HighOf(chip.ram) = HighByte(v)
    <3>1. op = o2 /\ q.todo = <<>> /\ Len(q.todo) = 0 /\ q.step = "release"
      BY <1>4, <1>8, <2>6 DEF StepAfter
    <3>2. h = HighByte(v) /\ w = LowByte(v)
      BY <1>7, <1>9, <1>12, <2>2, <2>4, <2>6, <3>1 DEF HighOf, LowOf, Write
    <3>3. q.call = "ext_set" /\ q.arg = v
      BY <1>6, <1>8, <2>3
    <3>4. SetFits(q, h, w)
      BY <2>3, <3>1, <3>2, <3>3 DEF SetFits
    <3> QED
      BY <3>1, <3>3, <3>4 DEF ControlFits, Midway
  <2>7. r.todo # <<>>
    <3>1. Form(r)
      BY <1>1, <1>2 DEF Turns, Turn
    <3> QED
      BY <1>5, <3>1 DEF Form, Accessing
  <2> QED
    BY <2>1, <2>3, <2>4, <2>5, <2>6, <2>7 DEF SetFits
<1>14. ControlHolds'
  <2>1. h = HighOf(chip'.ram) /\ w = LowOf(chip'.ram)
    BY <1>9, <1>12
  <2>2. seen.sets \subseteq seen'.sets /\ out' = out /\ drv'.th = [drv.th EXCEPT ![t] = q]
    BY <1>7
  <2>3. UNCHANGED conf
    BY <1>7
  <2> QED
    BY <1>1, <1>8, <1>13, <2>1, <2>2, <2>3, ControlKept
<1>15. InfoHolds'
  <2>1. \A a \in TextBytes : ram[a] = chip.ram[a]
    BY <1>6, <1>7, <1>9 DEF TextBytes
  <2>2. ToldText(seen'.info, chip.ram)
    BY <1>1, <1>7 DEF InfoHolds
  <2>3. InfoFits(q, chip.ram)
    BY <1>6, <1>8 DEF InfoFits
  <2>4. drv'.th = [drv.th EXCEPT ![t] = q]
    BY <1>7
  <2>5. UNCHANGED conf
    BY <1>7
  <2> QED
    BY <1>1, <1>9, <2>1, <2>2, <2>3, <2>4, <2>5, InfoKept
<1> QED
  BY <1>10, <1>11, <1>14, <1>15 DEF SfHolds

LEMMA TwoElements ==
  ASSUME NEW x, NEW y
  PROVE  Append(<<x>>, y) = <<x, y>>
<1>1. PICK S : S = {x, y}
  OBVIOUS
<1>2. x \in S /\ y \in S
  BY <1>1
<1>3. <<x>> \in Seq(S) /\ <<x, y>> \in Seq(S)
  BY <1>2
<1>4. PICK s \in Seq(S), u \in Seq(S) : s = <<x>> /\ u = <<x, y>>
  BY <1>3
<1>5. Len(s) = 1 /\ s[1] = x /\ Len(u) = 2 /\ u[1] = x /\ u[2] = y
  BY <1>4
<1>6. PICK a : a = Append(s, y)
  OBVIOUS
<1>7. /\ a \in Seq(S) /\ Len(a) = Len(s) + 1 /\ a[Len(s) + 1] = y
      /\ \A i \in 1..Len(s) : a[i] = s[i]
  BY <1>2, <1>6, AppendProperties
<1>8. Len(a) = 2 /\ a[1] = x /\ a[2] = y
  BY <1>5, <1>7
<1>9. \A i \in 1..2 : a[i] = u[i]
  BY <1>5, <1>8
<1>10. a = u
  BY <1>4, <1>5, <1>7, <1>8, <1>9, SeqEqual
<1> QED
  BY <1>4, <1>6, <1>10

(* A byte of a measurement or of a control is read. *)
LEMMA ReadHolds ==
  ASSUME Boards, SfHolds, NEW t \in Thread, PortRead(t), drv.th[t].call # "info"
  PROVE  SfHolds'
<1>1. SfShape /\ Turns /\ ControlHolds /\ InfoHolds /\ BoardFits(conf)
  BY Board1 DEF SfHolds
<1>2. PICK r, l, op : r = drv.th[t] /\ l = drv.lock /\ op = Head(r.todo)
  OBVIOUS
<1>3. PICK byte : byte = IF Latched \in DOMAIN chip.ram THEN chip.ram[Latched] ELSE Blank
  OBVIOUS
<1>4. PICK got : got = Append(r.got, byte)
  OBVIOUS
<1>5. PICK q : q = ByteDone(r, got)
  OBVIOUS
<1>6. r.step = "data" /\ op.op = "read" /\ r.call # "info" /\ Access1(t) = op
  BY <1>2 DEF PortRead, Access1
<1>7. Latched = op.addr /\ r.call # "ext_set"
  BY <1>1, <1>2, <1>6, Addressed, OpAddress
<1>8. /\ UNCHANGED <<conf, chip, out, seen>>
      /\ drv' = [lock |-> l, th |-> [drv.th EXCEPT ![t] = q]]
  <2>1. UNCHANGED <<conf, chip, out, seen>>
    BY <1>2, <1>6 DEF PortRead
  <2>2. drv' = [drv EXCEPT !.th[t].todo = Tail(@), !.th[t].got = Append(@, byte),
                           !.th[t].step = IF Len(drv.th[t].todo) = 1 THEN "release" ELSE "high"]
    BY <1>2, <1>3, <1>6 DEF PortRead
  <2>3. Form(r)
    BY <1>1, <1>2 DEF Turns, Turn
  <2>4. q = [r EXCEPT !.todo = Tail(@), !.got = Append(@, byte),
                      !.step = IF Len(r.todo) = 1 THEN "release" ELSE "high"]
    BY <1>4, <1>5, <2>3 DEF Form, ByteDone, StepAfter
  <2>5. drv' = [drv EXCEPT !.th = [drv.th EXCEPT ![t] = q]]
    BY <1>1, <1>2, <2>2, <2>4 DEF SfShape
  <2> QED
    BY <1>1, <1>2, <2>1, <2>5 DEF SfShape
<1>9. PICK hi, lo : hi = chip'.hi /\ lo = chip'.lo
  OBVIOUS
<1>10. /\ q.call = r.call /\ q.got = got /\ q.arg = r.arg /\ q.todo = Tail(r.todo)
       /\ q.step = StepAfter(r.todo)
       /\ Turn(t, q, drv.lock, hi, lo) /\ Active(r) /\ r.todo # <<>>
  <2>1. r = drv.th[t] /\ r.step = "data" /\ r.call # "info"
    BY <1>2, <1>6
  <2>2. /\ q.call = r.call /\ q.got = got /\ q.arg = r.arg /\ q.todo = Tail(r.todo)
        /\ q.step = StepAfter(r.todo)
        /\ Turn(t, q, drv.lock, hi, lo) /\ Active(r) /\ r.todo # <<>>
    BY ONLY Boards, SfHolds, t \in Thread, <1>5, <2>1, ByteMoved
  <2> QED
    BY <2>2
<1>11. PICK h, w : h = HighOf(chip.ram) /\ w = LowOf(chip.ram)
  OBVIOUS
<1>12. TwoBytes => ControlFits(q, h, w)
  <2> SUFFICES ASSUME TwoBytes, r.call = "ext_get"
               PROVE  GetFits(q, h, w)
    BY <1>7, <1>10 DEF ControlFits
  <2>1. GetFits(r, h, w)
    BY <1>1, <1>2, <1>11 DEF ControlHolds, ControlFits
  <2>2. /\ conf.ctrl \in DOMAIN chip.ram /\ conf.ctrl + 1 \in DOMAIN chip.ram
    BY <1>1 DEF BoardFits, Controls, TwoBytes, SfShape
  <2>3. PICK o1, o2 : o1 = Read(conf.ctrl) /\ o2 = Read(conf.ctrl + 1)
    OBVIOUS
  <2>4. o1.addr = conf.ctrl /\ o2.addr = conf.ctrl + 1
    BY <2>3 DEF Read
  <2>5. CASE r.todo = <<o1, o2>> /\ r.got = <<>>
    <3>1. op = o1 /\ q.todo = <<o2>> /\ q.step = "high"
      BY <1>2, <1>10, <2>5 DEF StepAfter
    <3>2. byte = h
      BY <1>3, <1>7, <1>11, <2>2, <2>4, <3>1 DEF HighOf
    <3>3. q.got = <<h>>
      BY <1>4, <1>10, <2>5, <3>2
    <3> QED
      BY <2>3, <3>1, <3>3 DEF GetFits
  <2>6. CASE r.todo = <<o2>> /\ r.got = <<h>>
    <3>1. op = o2 /\ q.todo = <<>> /\ q.step = "release"
      BY <1>2, <1>10, <2>6 DEF StepAfter
    <3>2. byte = w
      BY <1>3, <1>7, <1>11, <2>2, <2>4, <3>1 DEF LowOf
    <3>3. q.got = <<h, w>>
      BY <1>4, <1>10, <2>6, <3>2, TwoElements
    <3> QED
      BY <2>3, <3>1, <3>3 DEF GetFits
  <2> QED
    BY <1>10, <2>1, <2>3, <2>5, <2>6 DEF GetFits
<1>13. ~Midway(q) /\ ~Midway(drv.th[t])
  BY <1>2, <1>7, <1>10 DEF Midway
<1>14. InfoFits(q, chip.ram)
  BY <1>6, <1>10 DEF InfoFits
<1>15. chip' = [hi |-> chip'.hi, lo |-> chip'.lo, ram |-> chip.ram]
  BY <1>1, <1>8 DEF SfShape
<1>16. Turn(t, q, l, chip'.hi, chip'.lo) /\ chip'.hi = chip.hi /\ chip'.lo = chip.lo
  BY <1>2, <1>8, <1>9, <1>10
<1>17. TwoBytes => ControlFits(q, HighOf(chip.ram), LowOf(chip.ram))
  BY <1>11, <1>12
<1> QED
  BY <1>2, <1>8, <1>13, <1>14, <1>15, <1>16, <1>17, QuietStep

(* The byte that is read next of a field, and what is left of it afterwards. *)
LEMMA FieldGoesOn ==
  ASSUME Boards, SfShape, NEW k \in 1..Len(Fields), NEW n \in 0..(RoomOf(Field(k)) - 1),
         NEW r, r.arg = k, GotSoFar(r, chip.ram, n)
  PROVE  /\ Head(r.todo) = Read(Field(k).first + n)
         /\ Len(r.todo) = RoomOf(Field(k)) - n
         /\ Tail(r.todo) = SubSeq(FieldReads(k), n + 2, RoomOf(Field(k)))
         /\ Field(k).first + n \in DOMAIN chip.ram
         /\ RangeText(Field(k), chip.ram)[n + 1] = chip.ram[Field(k).first + n]
         /\ Append(r.got, RangeText(Field(k), chip.ram)[n + 1])
              = SubSeq(RangeText(Field(k), chip.ram), 1, n + 1)
<1>1. PICK m, f, text, reads :
         /\ m = RoomOf(Field(k)) /\ f = Field(k) /\ text = RangeText(Field(k), chip.ram)
         /\ reads = FieldReads(k) /\ m \in Nat \ {0}
  BY FieldInRam
<1>2. /\ reads \in Seq(ReadOps) /\ Len(reads) = m
      /\ \A j \in 1..m : reads[j] = Read(f.first + j - 1)
  <2>1. PICK o : o = [arg |-> k, got |-> <<>>, todo |-> FieldReads(k)]
    OBVIOUS
  <2>2. o.arg = k /\ o.got = <<>> /\ o.todo = FieldReads(k)
    BY <2>1
  <2> QED
    BY <1>1, <2>2, FieldBegins
<1>3. /\ r.todo = SubSeq(reads, n + 1, m) /\ r.got = SubSeq(text, 1, n)
  BY <1>1 DEF GotSoFar
<1>4. n \in 0..(m - 1) /\ n + 1 \in 1..m
  BY <1>1
<1>5. Head(r.todo) = reads[n + 1] /\ Tail(r.todo) = SubSeq(reads, n + 2, m)
  <2>1. n + 1 \in 1..Len(reads) /\ m \in (n + 1)..Len(reads) /\ (n + 1) + 1 = n + 2
    BY <1>2, <1>4
  <2> QED
    BY <1>2, <1>3, <2>1, HeadTailOfSubSeq
<1>6. Len(r.todo) = m - n
  <2>1. n + 1 \in Int /\ m \in Int /\ \A i \in (n + 1)..m : reads[i] \in ReadOps
    BY <1>2, <1>4, ElementOfSeq
  <2>2. PICK a, b : a = n + 1 /\ b = m
    OBVIOUS
  <2>3. a \in Int /\ b \in Int /\ \A i \in a..b : reads[i] \in ReadOps
    BY <2>1, <2>2
  <2>4. Len(SubSeq(reads, a, b)) = IF a <= b THEN b - a + 1 ELSE 0
    BY <2>3, SubSeqProperties
  <2> QED
    BY <1>1, <1>3, <1>4, <2>2, <2>4
<1>7. text = [j \in 1..m |-> chip.ram[f.first + j - 1]] /\ f.first \in Nat
  BY <1>1, FieldInRam DEF RangeText
<1>8. text[n + 1] = chip.ram[f.first + n] /\ f.first + n \in DOMAIN chip.ram
  <2>1. f.first + (n + 1) - 1 = f.first + n
    BY <1>4, <1>7
  <2>2. f.first + n \in TextBytes
    BY <1>1, <1>4, <2>1, FieldInRam
  <2> QED
    BY <1>4, <1>7, <2>1, <2>2 DEF TextBytes, SfShape
<1>9. Append(r.got, text[n + 1]) = SubSeq(text, 1, n + 1)
  <2>1. PICK S : S = {text[j] : j \in 1..m}
    OBVIOUS
  <2>2. text \in Seq(S) /\ Len(text) = m
    <3>1. text \in [1..m -> S]
      BY <1>7, <2>1
    <3>2. text \in Seq(S)
      BY <1>1, <3>1, SeqDef
    <3>3. Len(text) = m
      BY <1>1, <1>7
    <3> QED
      BY <3>2, <3>3
  <2>3. SubSeq(text, 1, n + 1) = SubSeq(text, 1, n) \o <<text[n + 1]>>
    <3>1. 1 \in 1..Len(text) /\ n + 1 \in 1..Len(text) /\ (n + 1) - 1 = n
      BY <1>4, <2>2
    <3> QED
      BY <2>2, <3>1, SubSeqRecursiveSecond
  <2>4. SubSeq(text, 1, n) \in Seq(S)
    <3>1. \A i \in 1..n : text[i] \in S
      BY <1>1, <1>4, <2>1
    <3> QED
      BY <3>1, SubSeqProperties
  <2>5. PICK e \in S : e = text[n + 1]
    BY <1>4, <2>1
  <2> QED
    BY <1>3, <2>3, <2>4, <2>5, AppendIsConcat
<1>10. reads[n + 1] = Read(f.first + n)
  BY <1>2, <1>4, <1>7
<1> QED
  BY <1>1, <1>5, <1>6, <1>8, <1>9, <1>10

(* The field that ends tells what its range holds. *)
LEMMA FieldTold ==
  ASSUME Boards, SfShape, NEW k \in 1..Len(Fields), NEW n \in 0..(RoomOf(Field(k)) - 1),
         NEW r, r.arg = k, GotSoFar(r, chip.ram, n), NEW text, NEW byte, NEW info,
         text = RangeText(Field(k), chip.ram), byte = text[n + 1],
         ~Printable(byte) \/ n + 1 = RoomOf(Field(k)),
         info = <<k, IF Printable(byte) THEN Append(r.got, byte) ELSE r.got>>
  PROVE  ToldText(info, chip.ram)
<1>1. PICK m, bad : /\ m = RoomOf(Field(k)) /\ bad = {j \in 1..m : ~Printable(text[j])}
                    /\ m \in Nat \ {0}
  BY FieldInRam
<1>2. /\ \A j \in 1..n : Printable(text[j])
      /\ r.got = SubSeq(text, 1, n) /\ Append(r.got, byte) = SubSeq(text, 1, n + 1)
  BY FieldGoesOn DEF GotSoFar
<1>3. info[1] = k /\ info[2] = IF Printable(byte) THEN Append(r.got, byte) ELSE r.got
  OBVIOUS
<1>4. info[2] = SubSeq(text, 1, IF bad = {} THEN m ELSE Min(bad) - 1)
  <2>1. CASE Printable(byte)
    <3>1. n + 1 = m
      BY <1>1, <2>1
    <3>2. bad = {}
      <4>1. \A j \in 1..m : j \in 1..n \/ j = n + 1
        BY <1>1, <3>1
      <4> QED
        BY <1>1, <1>2, <2>1, <4>1
    <3> QED
      BY <1>2, <1>3, <2>1, <3>1, <3>2
  <2>2. CASE ~Printable(byte)
    <3>1. n + 1 \in bad /\ bad \in SUBSET Nat
      BY <1>1, <2>2
    <3>2. PICK b : b = Min(bad)
      OBVIOUS
    <3>3. b \in bad /\ \A y \in bad : b <= y
      BY <3>1, <3>2, LeastNatural
    <3>4. b <= n + 1 /\ b \in 1..m /\ b \notin 1..n
      BY <1>1, <1>2, <3>1, <3>3
    <3>5. b - 1 = n
      BY <1>1, <3>4
    <3> QED
      BY <1>2, <1>3, <2>2, <3>1, <3>2, <3>5
  <2> QED
    BY <2>1, <2>2
<1>5. info # <<>>
  OBVIOUS
<1> QED
  BY <1>1, <1>3, <1>4, <1>5 DEF ToldText

LEMMA InfoHoldsRead ==
  ASSUME Boards, SfHolds, NEW t \in Thread, PortRead(t), drv.th[t].call = "info"
  PROVE  SfHolds'
<1>1. SfShape /\ Turns /\ ControlHolds /\ InfoHolds
  BY Board1 DEF SfHolds
<1>2. PICK r, l, op : r = drv.th[t] /\ l = drv.lock /\ op = Head(r.todo)
  OBVIOUS
<1>3. r.step = "data" /\ r.call = "info" /\ Access1(t) = op
  BY <1>2 DEF PortRead, Access1
<1>4. Turn(t, r, l, chip.hi, chip.lo) /\ Form(r) /\ AtWork(t, r) /\ l # t
  BY <1>1, <1>2, <1>3 DEF Turns, Turn, Idle
<1>5. Latched = op.addr
  BY <1>1, <1>2, <1>3, Addressed
<1>6. PICK k, n : /\ k = r.arg /\ k \in 1..Len(Fields) /\ n \in 0..(RoomOf(Field(k)) - 1)
                  /\ GotSoFar(r, chip.ram, n)
  BY <1>1, <1>2, <1>3 DEF InfoHolds, InfoFits
<1>7. PICK m, f, text, byte :
        /\ m = RoomOf(Field(k)) /\ f = Field(k) /\ text = RangeText(Field(k), chip.ram)
        /\ byte = text[n + 1] /\ m \in Nat \ {0}
  BY <1>1, <1>6, FieldInRam
<1>8. /\ op = Read(f.first + n) /\ Len(r.todo) = m - n
      /\ Tail(r.todo) = SubSeq(FieldReads(k), n + 2, m)
      /\ f.first + n \in DOMAIN chip.ram /\ byte = chip.ram[f.first + n]
      /\ Append(r.got, byte) = SubSeq(text, 1, n + 1)
  <2>1. /\ Head(r.todo) = Read(Field(k).first + n)
        /\ Len(r.todo) = RoomOf(Field(k)) - n
        /\ Tail(r.todo) = SubSeq(FieldReads(k), n + 2, RoomOf(Field(k)))
        /\ Field(k).first + n \in DOMAIN chip.ram
        /\ RangeText(Field(k), chip.ram)[n + 1] = chip.ram[Field(k).first + n]
        /\ Append(r.got, RangeText(Field(k), chip.ram)[n + 1])
             = SubSeq(RangeText(Field(k), chip.ram), 1, n + 1)
    BY <1>1, <1>6, FieldGoesOn
  <2> QED
    BY <1>2, <1>7, <2>1
<1>9. Latched \in DOMAIN chip.ram /\ chip.ram[Latched] = byte
  BY <1>5, <1>8 DEF Read
<1>10. AfterInfoByte(t, byte) /\ UNCHANGED <<conf, chip, out>>
  BY <1>2, <1>3, <1>9 DEF PortRead
<1>11. PICK got, field : /\ got = IF Printable(byte) THEN Append(r.got, byte) ELSE r.got
                         /\ field = <<k, got>>
  OBVIOUS
<1>12. \A u \in Thread \ {t} : l = u <=> drv.lock = u
  BY <1>2
<1>13. chip' = [hi |-> chip'.hi, lo |-> chip'.lo, ram |-> chip.ram] /\ chip'.hi = chip.hi /\ chip'.lo = chip.lo
  BY <1>1, <1>10 DEF SfShape
<1>14. ASSUME NEW q, q.call = "info" \/ q = Idle
       PROVE  /\ TwoBytes => ControlFits(q, HighOf(chip.ram), LowOf(chip.ram))
              /\ Midway(q) <=> Midway(drv.th[t])
  BY <1>2, <1>3, <1>14 DEF ControlFits, Midway, Idle
<1>15. ASSUME NEW q, q = [call |-> "info", step |-> "high", todo |-> q.todo, got |-> q.got, arg |-> q.arg],
              q.todo \in Seq(ReadOps), q.todo # <<>>
       PROVE  Turn(t, q, l, chip'.hi, chip'.lo) /\ q.call = "info"
  <2>1. q.todo \in Seq(ReadOps \cup WriteOps)
    <3>1. PICK s \in Seq(ReadOps) : s = q.todo
      BY <1>15
    <3> QED
      BY <3>1, SeqMonotonic
  <2>2. q.call = "info" /\ q.step = "high"
    BY <1>15
  <2>3. Form(q)
    BY <1>15, <2>1, <2>2 DEF Form
  <2>4. AtWork(t, q) /\ OnPorts(q, chip'.hi, chip'.lo)
    BY <1>3, <1>4, <2>2 DEF AtWork, OnPorts, Accessing
  <2> QED
    BY <1>4, <2>2, <2>3, <2>4 DEF Turn
<1>16. CASE ~FieldEnds(r, byte)
  <2>1. PICK q : q = [r EXCEPT !.got = got, !.todo = Tail(@), !.step = "high"]
    OBVIOUS
  <2>2. seen' = seen /\ drv' = [lock |-> l, th |-> [drv.th EXCEPT ![t] = q]]
    BY <1>1, <1>2, <1>10, <1>11, <1>16, <2>1 DEF AfterInfoByte, SfShape
  <2>3. /\ q = [call |-> "info", step |-> "high", todo |-> q.todo, got |-> q.got, arg |-> q.arg]
        /\ q.todo = Tail(r.todo) /\ q.got = got /\ q.arg = k
    BY <1>3, <1>4, <1>6, <2>1 DEF Form
  <2>4. Printable(byte) /\ n + 1 \in 0..(m - 1) /\ Len(r.todo) # 1
    BY <1>6, <1>7, <1>8, <1>16 DEF FieldEnds
  <2>5. q.todo \in Seq(ReadOps) /\ q.todo # <<>>
    <3>1. r.todo \in Seq(ReadOps) /\ r.todo # <<>>
      BY <1>3, <1>4 DEF Form, Accessing
    <3>2. PICK s \in Seq(ReadOps) : s = r.todo /\ s # <<>>
      BY <3>1
    <3> QED
      BY <2>3, <2>4, <3>2, HeadTailProperties, LastOne
  <2>6. GotSoFar(q, chip.ram, n + 1)
    <3>1. \A j \in 1..(n + 1) : j \in 1..n \/ j = n + 1
      BY <1>6, <1>7
    <3>2. \A j \in 1..(n + 1) : Printable(text[j])
      BY <1>6, <1>7, <2>4, <3>1 DEF GotSoFar
    <3>3. (n + 1) + 1 = n + 2
      BY <1>6, <1>7
    <3> QED
      BY <1>6, <1>7, <1>8, <1>11, <2>3, <2>4, <3>2, <3>3 DEF GotSoFar
  <2>7. InfoFits(q, chip.ram)
    BY <1>6, <1>7, <2>3, <2>4, <2>6 DEF InfoFits
  <2>8. Turn(t, q, l, chip'.hi, chip'.lo) /\ q.call = "info"
    BY <1>15, <2>3, <2>5
  <2> QED
    BY <1>10, <1>12, <1>13, <1>14, <2>2, <2>7, <2>8, QuietStep
<1>17. CASE FieldEnds(r, byte)
  <2>1. PICK next : next = FieldsFrom(r.arg + 1)
    OBVIOUS
  <2>2. PICK q : q = IF next = {} THEN Idle
                     ELSE [r EXCEPT !.got = <<>>, !.todo = FieldReads(Min(next)),
                                    !.arg = Min(next), !.step = "high"]
    OBVIOUS
  <2>3. /\ seen' = [sets |-> seen.sets, info |-> field]
        /\ drv' = [lock |-> l, th |-> [drv.th EXCEPT ![t] = q]]
    BY <1>1, <1>2, <1>6, <1>10, <1>11, <1>17, <2>1, <2>2 DEF AfterInfoByte, SfShape
  <2>4. ~Printable(byte) \/ n + 1 = m
    BY <1>6, <1>7, <1>8, <1>17 DEF FieldEnds
  <2>5. ToldText(field, chip.ram)
    BY <1>1, <1>6, <1>7, <1>11, <2>4, FieldTold
  <2>6. CASE next = {}
    <3>1. q = Idle
      BY <2>2, <2>6
    <3>2. Turn(t, q, l, chip'.hi, chip'.lo)
      <4>1. PICK S : S = ReadOps
        OBVIOUS
      <4>2. <<>> \in Seq(ReadOps) /\ <<>> \in Seq(ReadOps \cup WriteOps)
        OBVIOUS
      <4> QED
        BY <1>4, <3>1, <4>2 DEF Idle, Turn, Form, OnPorts, Active, Accessing
    <3>3. InfoFits(q, chip.ram)
      BY <3>1 DEF InfoFits, Idle
    <3> QED
      BY <1>10, <1>12, <1>13, <1>14, <2>3, <2>5, <3>1, <3>2, <3>3, ThreadStep
  <2>7. CASE next # {}
    <3>1. PICK k2 : k2 = Min(next)
      OBVIOUS
    <3>2. k2 \in 1..Len(Fields)
      <4>1. next \in SUBSET Nat /\ \A j \in next : j \in 1..Len(Fields)
        BY <1>6, <2>1 DEF FieldsFrom
      <4> QED
        BY <2>7, <3>1, <4>1, LeastNatural
    <3>3. /\ q = [call |-> "info", step |-> "high", todo |-> q.todo, got |-> q.got, arg |-> q.arg]
          /\ q.todo = FieldReads(k2) /\ q.got = <<>> /\ q.arg = k2
      BY <1>3, <1>4, <2>2, <2>7, <3>1 DEF Form
    <3>4. InfoFits(q, chip.ram) /\ q.todo \in Seq(ReadOps) /\ q.todo # <<>>
      BY <1>1, <3>2, <3>3, FieldBegins
    <3>5. Turn(t, q, l, chip'.hi, chip'.lo) /\ q.call = "info"
      BY <1>15, <3>3, <3>4
    <3> QED
      BY <1>10, <1>12, <1>13, <1>14, <2>3, <2>5, <3>4, <3>5, ThreadStep
  <2> QED
    BY <2>6, <2>7
<1> QED
  BY <1>16, <1>17

(* The end of a call: the lock goes back and the bytes are given their meaning. *)
LEMMA ReleaseHolds ==
  ASSUME Boards, SfHolds, NEW t \in Thread, SfReleaseBus(t)
  PROVE  SfHolds'
<1>1. SfShape /\ Turns /\ ControlHolds /\ InfoHolds /\ Nobody \notin Thread
  BY Board1 DEF SfHolds
<1>2. PICK r, q, m : r = drv.th[t] /\ q = Idle /\ m = Meaning(r.call, r.got)
  OBVIOUS
<1>3. /\ r.step = "release" /\ UNCHANGED <<conf, chip>>
      /\ drv' = [lock |-> Nobody, th |-> [drv.th EXCEPT ![t] = q]]
      /\ out' = [call |-> r.call, res |-> m.res, val |-> m.val]
      /\ seen' = [seen EXCEPT !.sets = IF r.call = "ext_set" THEN @ \cup {r.arg * 10} ELSE @]
  <2>1. /\ r.step = "release" /\ UNCHANGED <<conf, chip>>
        /\ drv' = [drv EXCEPT !.lock = Nobody, !.th[t] = Idle]
        /\ Outcome(r.call, m.res, m.val)
        /\ seen' = [seen EXCEPT !.sets = IF r.call = "ext_set" THEN @ \cup {r.arg * 10} ELSE @]
    BY <1>2 DEF SfReleaseBus, LockAfter
  <2> QED
    BY <1>1, <1>2, <2>1 DEF SfShape, Outcome
<1>4. Turn(t, r, drv.lock, chip.hi, chip.lo)
  BY <1>1, <1>2 DEF Turns
<1>5. Form(r) /\ AtWork(t, r) /\ r.todo = <<>> /\ drv.lock = t /\ Active(r)
  BY <1>3, <1>4 DEF Turn, Idle, Form, AtWork, Active, Accessing
<1>6. Turn(t, q, Nobody, chip'.hi, chip'.lo)
  <2>1. <<>> \in Seq(ReadOps) /\ <<>> \in Seq(ReadOps \cup WriteOps)
    OBVIOUS
  <2> QED
    BY <1>1, <1>2, <2>1 DEF Idle, Turn, Form, OnPorts, Active, Accessing
<1>7. Turns'
  <2>1. UNCHANGED conf /\ (chip'.hi = chip.hi /\ chip'.lo = chip.lo)
    BY <1>3
  <2>2. \A u \in Thread \ {t} : Nobody = u <=> drv.lock = u
    BY <1>1, <1>5
  <2> QED
    BY <1>1, <1>3, <1>6, <2>1, <2>2, TurnsKept
<1>8. SfShape'
  BY <1>1, <1>3 DEF SfShape
<1>9. PICK h, w : h = HighOf(chip.ram) /\ w = LowOf(chip.ram)
  OBVIOUS
<1>10. TwoBytes => ControlFits(r, h, w)
  BY <1>1, <1>2, <1>9 DEF ControlHolds
<1>11. ControlFits(q, h, w) /\ ~Midway(q) /\ InfoFits(q, chip.ram)
  BY <1>2 DEF ControlFits, Midway, InfoFits, Idle
<1>12. seen.sets \subseteq seen'.sets /\ seen'.info = seen.info
       /\ (r.call = "ext_set" => r.arg * 10 \in seen'.sets)
       /\ (r.call # "ext_set" => seen'.sets = seen.sets)
  BY <1>1, <1>3 DEF SfShape
<1>13. TwoBytes => h * 256 + w \in seen'.sets
  <2> SUFFICES ASSUME TwoBytes
               PROVE  h * 256 + w \in seen'.sets
    OBVIOUS
  <2>1. CASE r.call = "ext_set"
    <3>1. SetFits(r, h, w)
      BY <1>10, <2>1 DEF ControlFits
    <3>2. PICK v \in 0..Largest : v = r.arg /\ h = HighByte(v) /\ w = LowByte(v)
      BY <1>5, <3>1 DEF SetFits
    <3>3. h * 256 + w = v * 10
      BY <3>2, BytesOfWord
    <3> QED
      BY <1>12, <2>1, <3>2, <3>3
  <2>2. CASE r.call # "ext_set"
    <3>1. ASSUME NEW u \in Thread
          PROVE  ~Midway(drv.th[u])
      <4>1. CASE u = t
        BY <1>2, <2>2, <4>1 DEF Midway
      <4>2. CASE u # t
        <5>1. ~Active(drv.th[u])
          BY <1>1, <1>2, <1>5, <4>2, Alone
        <5> QED
          BY <1>1, <5>1 DEF Turns, Turn, AtWork, Active, Idle, Midway
      <4> QED
        BY <4>1, <4>2
    <3> QED
      BY <1>1, <1>9, <1>12, <2>2, <3>1 DEF ControlHolds
  <2> QED
    BY <2>1, <2>2
<1>14. TwoBytes => SfDelivered(out', seen'.sets)
  <2> SUFFICES ASSUME TwoBytes, r.call = "ext_get", m.res = "ok"
               PROVE  \E x \in seen'.sets : m.val = x \div 10
    BY <1>3 DEF SfDelivered
  <2>1. r.got = <<h, w>>
    BY <1>5, <1>10 DEF ControlFits, GetFits
  <2>2. m.val = Word(r.got) \div 10
    BY <1>2 DEF Meaning
  <2>3. Word(r.got) = h * 256 + w
    BY <2>1 DEF Word
  <2> QED
    BY <1>13, <2>2, <2>3
<1>15. ControlHolds'
  <2>1. h = HighOf(chip'.ram) /\ w = LowOf(chip'.ram)
    BY <1>3, <1>9
  <2>2. UNCHANGED conf /\ drv'.th = [drv.th EXCEPT ![t] = q] /\ Active(drv.th[t])
    BY <1>2, <1>3, <1>5
  <2> QED
    BY <1>1, <1>11, <1>12, <1>13, <1>14, <2>1, <2>2, ControlKept
<1>16. InfoHolds'
  <2>1. PICK ram : ram = chip'.ram
    OBVIOUS
  <2>2. \A a \in TextBytes : ram[a] = chip.ram[a]
    BY <1>3, <2>1
  <2>3. ToldText(seen'.info, chip.ram)
    BY <1>1, <1>12 DEF InfoHolds
  <2>4. UNCHANGED conf /\ drv'.th = [drv.th EXCEPT ![t] = q]
    BY <1>3
  <2> QED
    BY <1>1, <1>11, <2>1, <2>2, <2>3, <2>4, InfoKept
<1> QED
  BY <1>7, <1>8, <1>15, <1>16 DEF SfHolds

LEMMA TwoPut ==
  ASSUME NEW D, NEW r, r = [a \in D |-> r[a]], NEW x, NEW y, NEW v, NEW w, NEW q,
         q = [r EXCEPT ![x] = v, ![y] = w]
  PROVE  q = [a \in D |-> q[a]] /\ \A a \in D : a \notin {x, y} => q[a] = r[a]
  OBVIOUS

(* The world writes the measurements and nothing else. *)
LEMMA MeasuresHold ==
  ASSUME Boards, SfHolds, SfMeasures
  PROVE  SfHolds'
<1>1. SfShape /\ Turns /\ ControlHolds /\ InfoHolds /\ BoardFits(conf)
  BY Board1 DEF SfHolds
<1>2. PICK ram, old, D : ram = chip'.ram /\ old = chip.ram /\ D = DOMAIN conf.ram
  OBVIOUS
<1>3. PICK w, r1, r2 :
        /\ r1 = [old EXCEPT ![conf.fan] = w[1], ![conf.fan + 1] = w[2]]
        /\ r2 = [r1 EXCEPT ![conf.temp] = w[1], ![conf.temp + 1] = w[2]]
        /\ chip' = [chip EXCEPT !.ram = r2]
  BY <1>2 DEF SfMeasures
<1>4. /\ UNCHANGED <<conf, drv, out, seen>>
      /\ ram = r2 /\ chip' = [hi |-> chip.hi, lo |-> chip.lo, ram |-> ram]
  BY <1>1, <1>2, <1>3 DEF SfMeasures, SfShape
<1>5. old = [a \in D |-> old[a]]
  BY <1>1, <1>2 DEF SfShape
<1>6. r1 = [a \in D |-> r1[a]] /\ \A a \in D : a \notin {conf.fan, conf.fan + 1} => r1[a] = old[a]
  BY <1>3, <1>5, TwoPut
<1>7. r2 = [a \in D |-> r2[a]] /\ \A a \in D : a \notin {conf.temp, conf.temp + 1} => r2[a] = r1[a]
  BY <1>3, <1>6, TwoPut
<1>8. \A a \in D : a \notin Measured(conf) => ram[a] = chip.ram[a]
  BY <1>2, <1>4, <1>6, <1>7 DEF Measured
<1>9. SfShape'
  BY <1>1, <1>2, <1>4, <1>7 DEF SfShape
<1>10. Turns'
  <2>1. \A t, r, k, h, v : Turn(t, r, k, h, v)' <=> Turn(t, r, k, h, v)
    BY <1>4 DEF Turn, Form, AtWork, OnPorts, ReadOps, WriteOps, Controls, Active, Idle
  <2> QED
    BY <1>1, <1>4, <2>1 DEF Turns
<1>11. TwoBytes => HighOf(ram) = HighOf(chip.ram) /\ LowOf(ram) = LowOf(chip.ram)
  <2> SUFFICES ASSUME TwoBytes
               PROVE  HighOf(ram) = HighOf(chip.ram) /\ LowOf(ram) = LowOf(chip.ram)
    OBVIOUS
  <2>1. /\ conf.ctrl \in D /\ conf.ctrl + 1 \in D
        /\ conf.ctrl \notin Measured(conf) /\ conf.ctrl + 1 \notin Measured(conf)
    BY <1>1, <1>2 DEF BoardFits, Controls, TwoBytes
  <2> QED
    BY <1>8, <2>1 DEF HighOf, LowOf
<1>12. ControlHolds'
  <2> SUFFICES ASSUME TwoBytes
               PROVE  ControlHolds'
    BY <1>4 DEF ControlHolds, TwoBytes
  <2>1. \A r, x, y : ControlFits(r, x, y)' <=> ControlFits(r, x, y)
    BY <1>4 DEF ControlFits, SetFits, GetFits
  <2>2. HighOf(chip.ram)' = HighOf(chip.ram) /\ LowOf(chip.ram)' = LowOf(chip.ram)
    BY <1>2, <1>4, <1>11 DEF HighOf, LowOf
  <2> QED
    BY <1>1, <1>4, <2>1, <2>2 DEF ControlHolds, TwoBytes, Midway, SfDelivered
<1>13. InfoHolds'
  <2>1. \A a \in TextBytes : ram[a] = chip.ram[a]
    BY <1>2, <1>8 DEF TextBytes
  <2>2. Fields' = Fields /\ (\A k : Field(k)' = Field(k)) /\ (\A k : FieldReads(k)' = FieldReads(k))
    BY <1>4 DEF Fields, Field, FieldReads
  <2>3. (\A r, m : InfoFits(r, m)' <=> InfoFits(r, m)) /\ (\A i, m : ToldText(i, m)' <=> ToldText(i, m))
    BY <2>2 DEF InfoFits, GotSoFar, ToldText
  <2>4. \A k \in 1..Len(Fields) : RangeText(Field(k), ram) = RangeText(Field(k), chip.ram)
    BY <1>1, <2>1, TextKept
  <2>5. ASSUME NEW r, InfoFits(r, chip.ram)
        PROVE  InfoFits(r, ram)
    BY <2>4, <2>5 DEF InfoFits, GotSoFar
  <2>6. ASSUME NEW i, ToldText(i, chip.ram)
        PROVE  ToldText(i, ram)
    <3>1. CASE i = <<>>
      BY <3>1 DEF ToldText
    <3>2. CASE i # <<>>
      <4>1. PICK k \in 1..Len(Fields) : k = i[1]
        BY <2>6, <3>2 DEF ToldText
      <4> QED
        BY <2>4, <2>6, <3>2, <4>1 DEF ToldText
    <3> QED
      BY <3>1, <3>2
  <2> QED
    BY <1>1, <1>2, <1>4, <2>3, <2>5, <2>6 DEF InfoHolds
<1> QED
  BY <1>9, <1>10, <1>12, <1>13 DEF SfHolds

--------------------------------------------------------------------------------
LEMMA SfStarts == Boards /\ Init => SfInv
<1> SUFFICES ASSUME Boards, Init, Is("sf")
             PROVE  SfHolds
  BY DEF SfInv
<1>1. SfInit
  BY Starts
<1>2. SfShape /\ BoardFits(conf) /\ Nobody \notin Thread
  <2>1. conf \in SfConf
    BY <1>1 DEF SfInit
  <2>2. BoardFits(conf) /\ Nobody \notin Thread
    BY <2>1 DEF Boards
  <2>3. conf.ram = [a \in DOMAIN conf.ram |-> conf.ram[a]]
    BY <2>2 DEF BoardFits
  <2> QED
    BY <1>1, <2>2, <2>3 DEF SfInit, SfShape
<1>3. \A t \in Thread : drv.th[t] = Idle /\ drv.lock # t
  BY <1>1, <1>2 DEF SfInit
<1>4. Turns
  <2>1. <<>> \in Seq(ReadOps) /\ <<>> \in Seq(ReadOps \cup WriteOps)
    OBVIOUS
  <2>2. PICK r : r = Idle
    OBVIOUS
  <2>3. Form(r) /\ OnPorts(r, chip.hi, chip.lo) /\ ~Active(r)
    BY <2>1, <2>2 DEF Form, OnPorts, Active, Accessing, Idle
  <2>4. \A t \in Thread : Turn(t, r, drv.lock, chip.hi, chip.lo)
    BY <1>3, <2>2, <2>3 DEF Turn
  <2> QED
    BY <1>3, <2>2, <2>4 DEF Turns
<1>5. ControlHolds
  BY <1>1, <1>3 DEF SfInit, ControlHolds, TwoBytes, ControlFits, HighOf, LowOf, SfDelivered, NoCall, Idle
<1>6. InfoHolds
  BY <1>1, <1>3 DEF SfInit, InfoHolds, InfoFits, ToldText, Idle
<1> QED
  BY <1>2, <1>4, <1>5, <1>6 DEF SfHolds

LEMMA SfKept == Boards /\ SfInv /\ [Next]_device => SfInv'
<1> SUFFICES ASSUME Boards, SfInv, [Next]_device, Is("sf")'
             PROVE  SfHolds'
  BY DEF SfInv
<1>1. conf' = conf /\ Is("sf") /\ SfHolds
  BY Steps DEF SfInv, Is
<1>2. SfNext \/ Taken \/ UNCHANGED device
  BY <1>1, Steps
<1>3. CASE Taken \/ UNCHANGED device
  BY <1>1, <1>3, NothingMoves DEF Taken, device, NoCall, SfDelivered
<1>4. CASE SfFanStatusGet
  <2>1. UNCHANGED <<conf, chip, drv, seen>> /\ out'.call = "fan_status"
    BY <1>4 DEF SfFanStatusGet, Outcome
  <2> QED
    BY <1>1, <2>1, NothingMoves DEF SfDelivered
<1>5. CASE SfMeasures
  BY <1>1, <1>5, MeasuresHold
<1>6. ASSUME NEW t \in Thread, SfCall(t) \/ SfStep(t)
      PROVE  SfHolds'
  BY <1>1, <1>6, CallsHold, AcquireHolds, PortHolds, WriteHolds, ReadHolds, InfoHoldsRead, ReleaseHolds
     DEF SfStep
<1> QED
  BY <1>2, <1>3, <1>4, <1>5, <1>6 DEF SfNext

(* What is seen of the invariant. *)
LEMMA SfSeen ==
  ASSUME Boards, SfInv
  PROVE  SfWhole
<1> SUFFICES ASSUME Is("sf")
             PROVE  SfWhole
  BY DEF SfWhole, OwnRegister, ControlWhole, LockReturned, InfoExact
<1>1. SfShape /\ Turns /\ ControlHolds /\ InfoHolds /\ Nobody \notin Thread
  BY Board1 DEF SfInv, SfHolds
<1>2. OwnRegister
  <2> SUFFICES ASSUME NEW t \in Thread
               PROVE  /\ drv.th[t].step = "data" => Latched = Access1(t).addr
                      /\ drv.th[t].step = "low" => chip.hi = Access1(t).addr \div 256
    BY DEF OwnRegister
  <2>1. drv.th[t].step = "data" => Latched = Access1(t).addr
    BY <1>1, Addressed
  <2>2. drv.th[t].step = "low" => chip.hi = Access1(t).addr \div 256
    BY <1>1 DEF Turns, Turn, OnPorts, Access1
  <2> QED
    BY <2>1, <2>2
<1>3. ControlWhole
  <2> SUFFICES ASSUME TwoBytes
               PROVE  ControlWhole
    BY DEF ControlWhole, TwoBytes
  <2>1. ASSUME drv.lock = Nobody, NEW t \in Thread
        PROVE  ~Midway(drv.th[t])
    BY <1>1, <2>1 DEF Turns, Turn, AtWork, Active, Midway, Idle
  <2>2. drv.lock = Nobody => HighOf(chip.ram) * 256 + LowOf(chip.ram) \in seen.sets
    BY <1>1, <2>1 DEF ControlHolds
  <2> QED
    BY <1>1, <2>2 DEF ControlHolds, ControlWhole, SfDelivered, HighOf, LowOf
<1>4. LockReturned
  BY <1>1 DEF LockReturned, Turns, Turn, Active, Accessing
<1>5. InfoExact
  <2> SUFFICES ASSUME seen.info # <<>>
               PROVE  InfoExact
    BY DEF InfoExact
  <2>1. PICK k, f, n, text, bad :
          /\ k = seen.info[1] /\ f = Field(k) /\ n = RoomOf(f) /\ text = RangeText(f, chip.ram)
          /\ bad = {j \in 1..n : ~Printable(text[j])}
    OBVIOUS
  <2>2. seen.info[2] = SubSeq(text, 1, IF bad = {} THEN n ELSE Min(bad) - 1)
    BY <1>1, <2>1 DEF InfoHolds, ToldText
  <2>3. n = Min2(f.room, f.last - f.first + 1) /\ text = [j \in 1..n |-> chip.ram[f.first + j - 1]]
    BY <2>1 DEF RoomOf, RangeText
  <2> QED
    BY <2>1, <2>2, <2>3 DEF InfoExact
<1> QED
  BY <1>2, <1>3, <1>4, <1>5 DEF SfWhole

(* Whatever threads share the SmartFusion bus, and however their accesses come   *)
(* between each other, every byte moves at the address its thread put on the     *)
(* ports, a control of two bytes is never a mixture of two settings, no call     *)
(* keeps the lock, and a field of the entity information is the text of its      *)
(* range (sdi_sf_io_bus.c, sdi_smartfusion_io.h:75).                           *)
THEOREM SfSafety == Boards => (Spec => []SfWhole)
<1> SUFFICES ASSUME Boards
             PROVE  Spec => []SfWhole
  OBVIOUS
<1>1. Init => SfInv
  BY SfStarts
<1>2. SfInv /\ [Next]_device => SfInv'
  BY SfKept
<1>3. SfInv => SfWhole
  BY SfSeen
<1> QED
  BY <1>1, <1>2, <1>3, PTL DEF Spec
================================================================================
