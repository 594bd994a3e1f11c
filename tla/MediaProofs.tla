------------------------------ MODULE MediaProofs ------------------------------
(* The media ports. Every operation of the media API is a sequence of steps; its *)
(* steps are put into phases (which pin groups are held, which are written), a   *)
(* failed step is followed to where the code goes on, and every operation is     *)
(* shown to begin and to end with no group held. From that: every access of      *)
(* every thread reaches the module of its own port, a call that returned holds   *)
(* nothing, and the success of a call hides no failed access.                    *)
EXTENDS MediaAccess, SequenceTheorems, TLAPS

--------------------------------------------------------------------------------
(* Steps, and the bodies of sections: accesses to the module and decisions, a    *)
(* failure of which stays inside the body unless it is a return that leaks.      *)

Pages == {0, 2, 3, 16} \cup (GenericPages \ {Ignore, Invalid})
Verbs == EepromSteps \cup PinSteps \cup AcquireSteps \cup SelectSteps \cup DropSteps \cup
         {"check", "refused", "jump", "wason", "done", "stray",
          "asked", "forgetpower", "forgetversion", "absent"}
Signed == Lanes \cup {-n : n \in Lanes}
Steps == {s \in [do : Verbs, n : Int, skip : Int, quiet : BOOLEAN] :
            /\ s.do = "page" => s.n \in Pages
            /\ s.do \in {"writetx", "txpin"} => s.n \in Signed}

Inner(s) == s.do \in EepromSteps \cup {"check", "refused", "wason", "asked", "jump"}
Fits(s, r) == /\ s.skip \in {Open} \cup 0..r \/ Leaks(s)
              /\ s.do = "jump" => s.n \in 0..r
Bodies == {b \in Seq(Steps) : \A i \in 1..Len(b) : Inner(b[i]) /\ Fits(b[i], Len(b) - i)}
Plain  == {s \in Steps : Inner(s) /\ s.do # "jump" /\ (s.skip \in {Open, 0} \/ Leaks(s))}

LEMMA Made ==
  ASSUME NEW do \in Verbs, NEW n \in Int,
         do = "page" => n \in Pages, do \in {"writetx", "txpin"} => n \in Signed
  PROVE  S(do, n) \in Steps /\ S(do, n).do = do /\ S(do, n).n = n
         /\ S(do, n).skip = Open /\ S(do, n).quiet = FALSE
BY DEF S, Steps, Open

LEMMA PlainMade ==
  ASSUME NEW do \in EepromSteps \cup {"check", "refused", "wason", "asked"}, NEW n \in Int,
         do = "page" => n \in Pages, do \in {"writetx", "txpin"} => n \in Signed
  PROVE  S(do, n) \in Plain
<1>1. do \in Verbs
  BY DEF Verbs
<1> QED
  BY <1>1, Made DEF Plain, Inner, EepromSteps

LEMMA PlainVariants ==
  ASSUME NEW s \in Plain
  PROVE  /\ GoOn(s) \in Plain
         /\ s.do \in EepromSteps => Leave(s) \in Plain
         /\ [s EXCEPT !.quiet = TRUE] \in Plain /\ [s EXCEPT !.quiet = TRUE].do = s.do
<1>1. GoOn(s) \in Steps /\ GoOn(s).do = s.do /\ GoOn(s).skip = 0
  BY DEF GoOn, Plain, Steps
<1>2. Leave(s) \in Steps /\ Leave(s).do = s.do /\ Leave(s).skip = Everything
  BY DEF Leave, Plain, Steps, Everything
<1>3. PICK w : w = [s EXCEPT !.quiet = TRUE]
  OBVIOUS
<1>4. w \in Steps /\ w.do = s.do /\ w.skip = s.skip
  BY <1>3 DEF Plain, Steps
<1> QED
  BY <1>1, <1>2, <1>3, <1>4 DEF Plain, Inner, Leaks

LEMMA Bodies0 == << >> \in Bodies
BY DEF Bodies
LEMMA Bodies1 == \A a \in Plain : << a >> \in Bodies
<1> SUFFICES ASSUME NEW a \in Plain PROVE << a >> \in Bodies
  OBVIOUS
<1>1. a \in Steps /\ Inner(a) /\ Fits(a, 0)
  BY DEF Plain, Fits
<1>2. << a >> \in Seq(Steps) /\ Len(<< a >>) = 1 /\ << a >>[1] = a
  BY <1>1
<1> QED
  BY <1>1, <1>2 DEF Bodies

LEMMA BodiesCat == \A a, b \in Bodies : a \o b \in Bodies
<1> SUFFICES ASSUME NEW a \in Bodies, NEW b \in Bodies PROVE a \o b \in Bodies
  OBVIOUS
<1>1. a \in Seq(Steps) /\ b \in Seq(Steps) /\ Len(a) \in Nat /\ Len(b) \in Nat
  BY DEF Bodies
<1>2. /\ a \o b \in Seq(Steps) /\ Len(a \o b) = Len(a) + Len(b)
      /\ \A i \in 1..(Len(a) + Len(b)) : (a \o b)[i] = IF i <= Len(a) THEN a[i] ELSE b[i - Len(a)]
  BY <1>1, ConcatProperties
<1>3. ASSUME NEW i \in 1..(Len(a) + Len(b))
      PROVE  Inner((a \o b)[i]) /\ Fits((a \o b)[i], Len(a) + Len(b) - i)
  <2>1. CASE i <= Len(a)
    <3>1. (a \o b)[i] = a[i] /\ Inner(a[i]) /\ Fits(a[i], Len(a) - i)
      BY <1>1, <1>2, <2>1 DEF Bodies
    <3>2. 0..(Len(a) - i) \subseteq 0..(Len(a) + Len(b) - i)
      BY <1>1
    <3> QED
      BY <3>1, <3>2 DEF Fits
  <2>2. CASE i > Len(a)
    <3>1. (a \o b)[i] = b[i - Len(a)] /\ i - Len(a) \in 1..Len(b)
      BY <1>1, <1>2, <2>2
    <3>2. Inner(b[i - Len(a)]) /\ Fits(b[i - Len(a)], Len(b) - (i - Len(a)))
      BY <3>1 DEF Bodies
    <3>3. Len(b) - (i - Len(a)) = Len(a) + Len(b) - i
      BY <1>1
    <3> QED
      BY <3>1, <3>2, <3>3
  <2> QED
    BY <1>1, <2>1, <2>2
<1>4. \A i \in 1..Len(a \o b) : Inner((a \o b)[i]) /\ Fits((a \o b)[i], Len(a \o b) - i)
  BY <1>2, <1>3
<1> QED
  BY <1>2, <1>4 DEF Bodies

LEMMA PlainFits == \A a \in Plain, r \in Nat : a \in Steps /\ Inner(a) /\ Fits(a, r)
BY DEF Plain, Fits

LEMMA Bodies2 == \A a, b \in Plain : << a, b >> \in Bodies
<1> SUFFICES ASSUME NEW a \in Plain, NEW b \in Plain
             PROVE  << a, b >> \in Bodies
  OBVIOUS
<1> DEFINE t == << a, b >>
<1>1. t \in Seq(Steps) /\ Len(t) = 2
  BY PlainFits
<1>2. t[1] = a /\ t[2] = b
  OBVIOUS
<1>3. \A i \in 1..2 : i = 1 \/ i = 2
  OBVIOUS
<1> HIDE DEF t
<1>4. \A i \in 1..2 : t[i] \in Plain /\ 2 - i \in Nat
  BY <1>2, <1>3
<1> QED
  BY <1>1, <1>4, PlainFits DEF Bodies, t

LEMMA Bodies3 == \A a, b, c \in Plain : << a, b, c >> \in Bodies
<1> SUFFICES ASSUME NEW a \in Plain, NEW b \in Plain, NEW c \in Plain
             PROVE  << a, b, c >> \in Bodies
  OBVIOUS
<1> DEFINE t == << a, b, c >>
<1>1. t \in Seq(Steps) /\ Len(t) = 3
  BY PlainFits
<1>2. t[1] = a /\ t[2] = b /\ t[3] = c
  OBVIOUS
<1>3. \A i \in 1..3 : i = 1 \/ i = 2 \/ i = 3
  OBVIOUS
<1> HIDE DEF t
<1>4. \A i \in 1..3 : t[i] \in Plain /\ 3 - i \in Nat
  BY <1>2, <1>3
<1> QED
  BY <1>1, <1>4, PlainFits DEF Bodies, t

LEMMA Bodies4 == \A a, b, c, d \in Plain : << a, b, c, d >> \in Bodies
<1> SUFFICES ASSUME NEW a \in Plain, NEW b \in Plain, NEW c \in Plain, NEW d \in Plain
             PROVE  << a, b, c, d >> \in Bodies
  OBVIOUS
<1> DEFINE t == << a, b, c, d >>
<1>1. t \in Seq(Steps) /\ Len(t) = 4
  BY PlainFits
<1>2. t[1] = a /\ t[2] = b /\ t[3] = c /\ t[4] = d
  OBVIOUS
<1>3. \A i \in 1..4 : i = 1 \/ i = 2 \/ i = 3 \/ i = 4
  OBVIOUS
<1> HIDE DEF t
<1>4. \A i \in 1..4 : t[i] \in Plain /\ 4 - i \in Nat
  BY <1>2, <1>3
<1> QED
  BY <1>1, <1>4, PlainFits DEF Bodies, t

LEMMA Bodies5 == \A a, b, c, d, e \in Plain : << a, b, c, d, e >> \in Bodies
<1> SUFFICES ASSUME NEW a \in Plain, NEW b \in Plain, NEW c \in Plain, NEW d \in Plain, NEW e \in Plain
             PROVE  << a, b, c, d, e >> \in Bodies
  OBVIOUS
<1> DEFINE t == << a, b, c, d, e >>
<1>1. t \in Seq(Steps) /\ Len(t) = 5
  BY PlainFits
<1>2. t[1] = a /\ t[2] = b /\ t[3] = c /\ t[4] = d /\ t[5] = e
  OBVIOUS
<1>3. \A i \in 1..5 : i = 1 \/ i = 2 \/ i = 3 \/ i = 4 \/ i = 5
  OBVIOUS
<1> HIDE DEF t
<1>4. \A i \in 1..5 : t[i] \in Plain /\ 5 - i \in Nat
  BY <1>2, <1>3
<1> QED
  BY <1>1, <1>4, PlainFits DEF Bodies, t

LEMMA Bodies6 == \A a, b, c, d, e, f \in Plain : << a, b, c, d, e, f >> \in Bodies
<1> SUFFICES ASSUME NEW a \in Plain, NEW b \in Plain, NEW c \in Plain, NEW d \in Plain, NEW e \in Plain, NEW f \in Plain
             PROVE  << a, b, c, d, e, f >> \in Bodies
  OBVIOUS
<1> DEFINE t == << a, b, c, d, e, f >>
<1>1. t \in Seq(Steps) /\ Len(t) = 6
  BY PlainFits
<1>2. t[1] = a /\ t[2] = b /\ t[3] = c /\ t[4] = d /\ t[5] = e /\ t[6] = f
  OBVIOUS
<1>3. \A i \in 1..6 : i = 1 \/ i = 2 \/ i = 3 \/ i = 4 \/ i = 5 \/ i = 6
  OBVIOUS
<1> HIDE DEF t
<1>4. \A i \in 1..6 : t[i] \in Plain /\ 6 - i \in Nat
  BY <1>2, <1>3
<1> QED
  BY <1>1, <1>4, PlainFits DEF Bodies, t

LEMMA BodiesBlock == \A b \in Bodies : Block(b) \in Bodies
<1> SUFFICES ASSUME NEW b \in Bodies PROVE Block(b) \in Bodies
  OBVIOUS
<1>1. b \in Seq(Steps) /\ Len(b) \in Nat /\ DOMAIN b = 1..Len(b)
  BY LenProperties DEF Bodies
<1> DEFINE e(i) == IF b[i].skip = Open THEN [b[i] EXCEPT !.skip = Len(b) - i] ELSE b[i]
<1>2. Block(b) = [i \in 1..Len(b) |-> e(i)]
  BY <1>1 DEF Block
<1>3. ASSUME NEW i \in 1..Len(b)
      PROVE  e(i) \in Steps /\ Inner(e(i)) /\ Fits(e(i), Len(b) - i)
  <2>1. b[i] \in Steps /\ Inner(b[i]) /\ Fits(b[i], Len(b) - i) /\ Len(b) - i \in Nat
    BY <1>1 DEF Bodies
  <2>2. CASE b[i].skip = Open
    <3>1. e(i) = [b[i] EXCEPT !.skip = Len(b) - i]
      BY <2>2
    <3>2. e(i) \in Steps /\ e(i).do = b[i].do /\ e(i).n = b[i].n /\ e(i).skip = Len(b) - i
      BY <2>1, <3>1 DEF Steps
    <3> QED
      BY <2>1, <3>2 DEF Inner, Fits
  <2>3. CASE b[i].skip # Open
    BY <2>1, <2>3
  <2> QED
    BY <2>2, <2>3
<1> HIDE DEF e
<1>4. Block(b) \in Seq(Steps)
  BY <1>1, <1>2, <1>3, IsASeq
<1>5. Len(Block(b)) = Len(b) /\ \A i \in 1..Len(b) : Block(b)[i] = e(i)
  BY <1>1, <1>2
<1> QED
  BY <1>3, <1>4, <1>5 DEF Bodies

LEMMA BodiesIf == \A c \in BOOLEAN, b \in Bodies : If(c, b) \in Bodies
BY Bodies0 DEF If

LEMMA BodiesQuiet == \A b \in Bodies : Quiet(b) \in Bodies
<1> SUFFICES ASSUME NEW b \in Bodies PROVE Quiet(b) \in Bodies
  OBVIOUS
<1>1. b \in Seq(Steps) /\ Len(b) \in Nat /\ DOMAIN b = 1..Len(b)
  BY LenProperties DEF Bodies
<1> DEFINE e(i) == [b[i] EXCEPT !.quiet = TRUE]
<1>2. Quiet(b) = [i \in 1..Len(b) |-> e(i)]
  BY <1>1 DEF Quiet
<1>3. ASSUME NEW i \in 1..Len(b)
      PROVE  e(i) \in Steps /\ Inner(e(i)) /\ Fits(e(i), Len(b) - i)
  <2>1. b[i] \in Steps /\ Inner(b[i]) /\ Fits(b[i], Len(b) - i)
    BY <1>1 DEF Bodies
  <2>2. e(i) \in Steps /\ e(i).do = b[i].do /\ e(i).n = b[i].n /\ e(i).skip = b[i].skip
    BY <2>1 DEF Steps
  <2> QED
    BY <2>1, <2>2 DEF Inner, Fits, Leaks
<1> HIDE DEF e
<1>4. Quiet(b) \in Seq(Steps)
  BY <1>1, <1>2, <1>3, IsASeq
<1>5. Len(Quiet(b)) = Len(b) /\ \A i \in 1..Len(b) : Quiet(b)[i] = e(i)
  BY <1>1, <1>2
<1> QED
  BY <1>3, <1>4, <1>5 DEF Bodies

(* The question leads past the answer it skips, the jump past the other. *)
LEMMA BodiesBranch ==
  ASSUME NEW q \in Plain, q.do \in EepromSteps, NEW yes \in Bodies, NEW no \in Bodies
  PROVE  Branch(q, yes, no) \in Bodies
<1>1. /\ yes \in Seq(Steps) /\ no \in Seq(Steps) /\ Len(yes) \in Nat /\ Len(no) \in Nat
      /\ q \in Steps /\ Inner(q)
  BY DEF Bodies, Plain
<1> DEFINE ask == [q EXCEPT !.skip = Len(yes) + 1]
           hop == S("jump", Len(no))
           l == << ask >> \o yes
           m == << hop >> \o no
<1>2. ask \in Steps /\ ask.do = q.do /\ ask.skip = Len(yes) + 1 /\ Inner(ask)
  <2>1. PICK r \in Int : r = Len(yes) + 1
    BY <1>1
  <2>2. q \in Steps
    BY <1>1
  <2>3. PICK w : w = [q EXCEPT !.skip = r]
    OBVIOUS
  <2>4. w \in Steps /\ w.do = q.do /\ w.skip = r
    BY <2>2, <2>3 DEF Steps
  <2> QED
    BY <1>1, <2>1, <2>3, <2>4 DEF Inner
<1>3. hop \in Steps /\ hop.do = "jump" /\ hop.n = Len(no) /\ hop.skip = Open
  <2>1. "jump" \in Verbs
    BY DEF Verbs
  <2>2. PICK n \in Int : n = Len(no)
    BY <1>1
  <2>3. S("jump", n) \in Steps /\ S("jump", n).do = "jump" /\ S("jump", n).n = n /\ S("jump", n).skip = Open
    BY <2>1 DEF S, Steps, Open
  <2> QED
    BY <2>2, <2>3
<1> HIDE DEF ask, hop
<1>4. /\ << ask >> \in Seq(Steps) /\ Len(<< ask >>) = 1 /\ << ask >>[1] = ask
      /\ << hop >> \in Seq(Steps) /\ Len(<< hop >>) = 1 /\ << hop >>[1] = hop
  BY <1>2, <1>3
<1>5. /\ l \in Seq(Steps) /\ Len(l) = 1 + Len(yes)
      /\ \A i \in 1..(1 + Len(yes)) : l[i] = IF i <= 1 THEN ask ELSE yes[i - 1]
  BY <1>1, <1>4, ConcatProperties
<1>6. m \in Bodies
  <2>1. /\ m \in Seq(Steps) /\ Len(m) = 1 + Len(no)
        /\ \A i \in 1..(1 + Len(no)) : m[i] = IF i <= 1 THEN hop ELSE no[i - 1]
    BY <1>1, <1>4, ConcatProperties
  <2>2. ASSUME NEW i \in 1..(1 + Len(no)) PROVE Inner(m[i]) /\ Fits(m[i], 1 + Len(no) - i)
    <3>1. CASE i = 1
      BY <1>1, <1>3, <2>1, <3>1 DEF Inner, Fits
    <3>2. CASE i > 1
      <4>1. m[i] = no[i - 1] /\ i - 1 \in 1..Len(no)
        BY <1>1, <2>1, <3>2
      <4>2. Inner(no[i - 1]) /\ Fits(no[i - 1], Len(no) - (i - 1))
        BY <4>1 DEF Bodies
      <4>3. Len(no) - (i - 1) = 1 + Len(no) - i
        BY <1>1
      <4> QED
        BY <4>1, <4>2, <4>3
    <3> QED
      BY <1>1, <3>1, <3>2
  <2> HIDE DEF m
  <2>3. \A i \in 1..Len(m) : Inner(m[i]) /\ Fits(m[i], Len(m) - i)
    BY <2>1, <2>2
  <2> QED
    BY <2>1, <2>3 DEF Bodies
<1> HIDE DEF l, m
<1>7. m \in Seq(Steps) /\ Len(m) \in Nat /\ Len(m) >= 1
  <2>1. Len(m) = 1 + Len(no)
    BY <1>1, <1>4, ConcatProperties DEF m
  <2> QED
    BY <1>1, <1>6, <2>1 DEF Bodies
<1>8. /\ l \o m \in Seq(Steps) /\ Len(l \o m) = Len(l) + Len(m)
      /\ \A i \in 1..(Len(l) + Len(m)) : (l \o m)[i] = IF i <= Len(l) THEN l[i] ELSE m[i - Len(l)]
  BY <1>5, <1>7, ConcatProperties
<1>9. ASSUME NEW i \in 1..(Len(l) + Len(m))
      PROVE  Inner((l \o m)[i]) /\ Fits((l \o m)[i], Len(l) + Len(m) - i)
  <2>1. CASE i = 1
    <3>1. (l \o m)[i] = ask
      BY <1>1, <1>5, <1>7, <1>8, <2>1
    <3>2. Len(yes) + 1 \in 0..(Len(l) + Len(m) - i)
      BY <1>1, <1>5, <1>7, <2>1
    <3> QED
      BY <1>2, <3>1, <3>2 DEF Fits, Inner, EepromSteps
  <2>2. CASE i > 1 /\ i <= Len(l)
    <3>1. (l \o m)[i] = yes[i - 1] /\ i - 1 \in 1..Len(yes)
      BY <1>1, <1>5, <1>7, <1>8, <2>2
    <3>2. Inner(yes[i - 1]) /\ Fits(yes[i - 1], Len(yes) - (i - 1))
      BY <3>1 DEF Bodies
    <3>3. 0..(Len(yes) - (i - 1)) \subseteq 0..(Len(l) + Len(m) - i)
      BY <1>1, <1>5, <1>7
    <3> QED
      BY <3>1, <3>2, <3>3 DEF Fits
  <2>3. CASE i > Len(l)
    <3>1. (l \o m)[i] = m[i - Len(l)] /\ i - Len(l) \in 1..Len(m)
      BY <1>1, <1>5, <1>7, <1>8, <2>3
    <3>2. Inner(m[i - Len(l)]) /\ Fits(m[i - Len(l)], Len(m) - (i - Len(l)))
      BY <1>6, <3>1 DEF Bodies
    <3>3. Len(m) - (i - Len(l)) = Len(l) + Len(m) - i
      BY <1>1, <1>5, <1>7
    <3> QED
      BY <3>1, <3>2, <3>3
  <2> QED
    <3>1. i \in Nat /\ Len(l) \in Nat /\ i >= 1
      BY <1>1, <1>5, <1>7
    <3>2. i = 1 \/ (i > 1 /\ i <= Len(l)) \/ i > Len(l)
      BY <3>1
    <3> QED
      BY <2>1, <2>2, <2>3, <3>2
<1>10. \A i \in 1..Len(l \o m) : Inner((l \o m)[i]) /\ Fits((l \o m)[i], Len(l \o m) - i)
  BY <1>8, <1>9
<1>11. l \o m \in Bodies
  BY <1>8, <1>10 DEF Bodies
<1>12. Branch(q, yes, no) = << ask >> \o yes \o << hop >> \o no
  BY DEF Branch, ask, hop
<1>13. l \o << hop >> \o no = l \o m
  BY <1>1, <1>4, <1>5, ConcatAssociative DEF m
<1> QED
  BY <1>11, <1>12, <1>13 DEF l

LEMMA BodiesChoose ==
  ASSUME NEW q \in Plain, q.do \in EepromSteps, NEW yes \in Bodies, NEW no \in Bodies
  PROVE  Choose(q, yes, no) \in Bodies
<1>1. PICK w \in Plain : w = [q EXCEPT !.quiet = TRUE] /\ w.do = q.do
  BY PlainVariants
<1> QED
  BY <1>1, BodiesBranch DEF Choose

--------------------------------------------------------------------------------

LEMMA PlainSteps ==
  /\ \A n \in Int : /\ Read(n) \in Plain /\ GoOn(Read(n)) \in Plain /\ Leave(Read(n)) \in Plain
                    /\ Write(n) \in Plain /\ GoOn(Write(n)) \in Plain
                    /\ S("power", n) \in Plain
  /\ Refused \in Plain /\ Check \in Plain /\ S("wason", 0) \in Plain
  /\ S("pgread", Lower) \in Plain /\ S("readtx", Lower) \in Plain /\ S("readserdes", Lower) \in Plain
  /\ GoOn(S("learnversion", Lower)) \in Plain /\ Leave(S("learnpower", 0)) \in Plain
  /\ \A n \in Pages : n \in Int => S("page", n) \in Plain
  /\ \A n \in Signed : S("writetx", n) \in Plain /\ S("asked", n) \in Plain
  /\ Lower \in Int /\ 0 \in Int
<1>1. Lower \in Int /\ 0 \in Int
  BY DEF Lower
<1>2. ASSUME NEW n \in Int, NEW do \in {"read", "write", "power", "pgread", "readtx", "readserdes",
                                        "learnversion", "learnpower"}
      PROVE  S(do, n) \in Plain /\ S(do, n).do = do
  <2>1. do \in EepromSteps
    BY DEF EepromSteps
  <2>2. S(do, n) \in Plain
    BY <2>1, PlainMade
  <2> QED
    BY <2>2 DEF S
<1>3. ASSUME NEW n \in Int, NEW do \in {"read", "write", "learnversion", "learnpower"}
      PROVE  GoOn(S(do, n)) \in Plain /\ Leave(S(do, n)) \in Plain
  <2>1. S(do, n) \in Plain /\ S(do, n).do \in EepromSteps
    BY <1>2 DEF EepromSteps
  <2> QED
    BY <2>1, PlainVariants
<1>4. Refused \in Plain /\ Check \in Plain /\ S("wason", 0) \in Plain
  BY PlainMade DEF Refused, Check
<1>5. ASSUME NEW n \in Pages, n \in Int PROVE S("page", n) \in Plain
  BY <1>5, PlainMade DEF EepromSteps
<1>6. ASSUME NEW n \in Signed PROVE S("writetx", n) \in Plain /\ S("asked", n) \in Plain
  <2>1. n \in Int
    BY DEF Signed, Lanes, Serdes
  <2> QED
    BY <2>1, PlainMade DEF EepromSteps
<1> QED
  BY <1>1, <1>2, <1>3, <1>4, <1>5, <1>6 DEF Read, Write

LEMMA Closed ==
  /\ << >> \in Bodies
  /\ \A a \in Plain : << a >> \in Bodies
  /\ \A a, b \in Plain : << a, b >> \in Bodies
  /\ \A a, b, c \in Plain : << a, b, c >> \in Bodies
  /\ \A a, b \in Bodies : a \o b \in Bodies
  /\ \A c \in BOOLEAN, b \in Bodies : If(c, b) \in Bodies
  /\ \A b \in Bodies : Block(b) \in Bodies /\ Quiet(b) \in Bodies
BY Bodies0, Bodies1, Bodies2, Bodies3, BodiesCat, BodiesIf, BodiesBlock, BodiesQuiet

LEMMA Tx ==
  ASSUME NEW d, NEW f, NEW n \in Signed
  PROVE  Block(IsTxControlSupported \o
         IF "tx" \in f THEN << S("readtx", Lower), S("writetx", n), S("asked", n) >>
         ELSE << Refused >>) \in Bodies
BY PlainSteps, Closed DEF IsTxControlSupported

LEMMA Opt ==
  ASSUME NEW d, NEW f, NEW n \in Signed
  PROVE  SfpOptions(f,
              << S("readtx", Lower) >> \o
              IF "softtx" \in f
              THEN << S("writetx", n), S("asked", n) >>
              ELSE << Refused >>) \in Bodies
BY PlainSteps, Closed DEF SfpOptions, If

--------------------------------------------------------------------------------
(* The phases of a call. "out": nothing held; "mux" and "mod": a group taken but *)
(* not yet written; "in": both taken and written; "part": the first one given    *)
(* back; "pin": the group of the transceiver pins taken.                         *)
Phases == {"out", "mux", "muxset", "mod", "in", "part", "pin"}
Phased(s, a, b) ==
  /\ s.do = "acqmux"  => a = "out" /\ b = "mux"
  /\ s.do = "setmux"  => a = "mux" /\ b = "muxset"
  /\ s.do = "acqmod"  => a = "muxset" /\ b = "mod"
  /\ s.do = "setmod"  => a = "mod" /\ b = "in"
  /\ s.do = "dropmux" => a = "in" /\ b = "part"
  /\ s.do = "dropmod" => a = "part" /\ b = "out"
  /\ s.do = "acqpin"  => a = "out" /\ b = "pin"
  /\ s.do = "droppin" => a = "pin" /\ b = "out"
  /\ s.do \in EepromSteps => a = "in" /\ b = "in"
  /\ s.do \in PinSteps => a = "pin" /\ b = "pin"
  /\ s.do \in {"check", "wason", "stray", "asked", "forgetpower", "forgetversion", "absent"} => a = b
(* A step that may leave the sequence, how far, and in which phase. *)
Leaving(s) == s.do \notin DropSteps \cup {"asked", "forgetpower", "forgetversion", "absent"} /\ ~Leaks(s)
Far(s) == CASE s.do = "jump" -> s.n [] s.do = "done" -> Everything [] OTHER -> s.skip
Left(s, a) == IF s.do \in AcquireSteps \cup SelectSteps THEN "out" ELSE a
Lands(s, i) == i + 1 + IF Far(s) > 0 THEN Far(s) ELSE 0
Labels(s, lab) ==
  /\ lab \in [1..(Len(s) + 1) -> Phases]
  /\ \A i \in 1..Len(s) :
       /\ Phased(s[i], lab[i], lab[i + 1])
       /\ Leaving(s[i]) =>
            \/ Far(s[i]) = Everything /\ Left(s[i], lab[i]) = "out"
            \/ /\ Far(s[i]) # Everything /\ Lands(s[i], i) <= Len(s) + 1
               /\ lab[Lands(s[i], i)] = Left(s[i], lab[i])
Flows(s, a, z) == s \in Seq(Steps) /\ \E lab : Labels(s, lab) /\ lab[1] = a /\ lab[Len(s) + 1] = z
Calls == {s \in Seq(Steps) : Flows(s, "out", "out")}

LEMMA FarForm == \A e \in Steps : Far(e) \in Int
BY DEF Far, Steps, Everything

LEMMA LandsForm ==
  ASSUME NEW e \in Steps
  PROVE  \E r \in Nat : \A i \in Int : Lands(e, i) = i + 1 + r
<1>1. PICK n \in Int : n = Far(e)
  BY FarForm
<1>2. PICK r \in Nat : r = IF n > 0 THEN n ELSE 0
  OBVIOUS
<1> QED
  BY <1>1, <1>2 DEF Lands

LEMMA FlowsCat ==
  ASSUME NEW s, NEW u, NEW a, NEW b, NEW z, Flows(s, a, b), Flows(u, b, z)
  PROVE  Flows(s \o u, a, z)
<1>1. /\ s \in Seq(Steps) /\ u \in Seq(Steps) /\ Len(s) \in Nat /\ Len(u) \in Nat
      /\ \A i \in 1..Len(s) : s[i] \in Steps
      /\ \A i \in 1..Len(u) : u[i] \in Steps
  BY DEF Flows
<1>2. /\ s \o u \in Seq(Steps) /\ Len(s \o u) = Len(s) + Len(u)
      /\ \A i \in 1..(Len(s) + Len(u)) : (s \o u)[i] = IF i <= Len(s) THEN s[i] ELSE u[i - Len(s)]
  BY <1>1, ConcatProperties
<1>3. PICK l : Labels(s, l) /\ l[1] = a /\ l[Len(s) + 1] = b
  BY DEF Flows
<1>4. PICK m : Labels(u, m) /\ m[1] = b /\ m[Len(u) + 1] = z
  BY DEF Flows
<1>5. /\ l \in [1..(Len(s) + 1) -> Phases] /\ m \in [1..(Len(u) + 1) -> Phases]
  BY <1>3, <1>4 DEF Labels
<1> DEFINE k == [i \in 1..(Len(s) + Len(u) + 1) |-> IF i <= Len(s) THEN l[i] ELSE m[i - Len(s)]]
<1>6. /\ \A i \in 1..Len(s) : k[i] = l[i]
      /\ \A i \in 1..(Len(u) + 1) : k[Len(s) + i] = m[i]
      /\ k \in [1..(Len(s) + Len(u) + 1) -> Phases]
  BY <1>1, <1>5
<1> HIDE DEF k
<1>7. k[1] = a /\ k[Len(s) + Len(u) + 1] = z
  <2>1. k[Len(s) + (Len(u) + 1)] = z
    BY <1>1, <1>4, <1>6
  <2>2. CASE Len(s) = 0
    BY <1>1, <1>3, <1>4, <1>6, <2>1, <2>2
  <2>3. CASE Len(s) > 0
    BY <1>1, <1>3, <1>6, <2>1, <2>3
  <2> QED
    BY <1>1, <2>2, <2>3
<1>8. k[Len(s) + 1] = l[Len(s) + 1]
  BY <1>1, <1>3, <1>4, <1>6
<1>9. \A i \in 1..(Len(s) + 1) : k[i] = l[i]
  BY <1>1, <1>6, <1>8
<1>10. ASSUME NEW i \in 1..(Len(s) + Len(u))
       PROVE  /\ Phased((s \o u)[i], k[i], k[i + 1])
              /\ Leaving((s \o u)[i]) =>
                   \/ Far((s \o u)[i]) = Everything /\ Left((s \o u)[i], k[i]) = "out"
                   \/ /\ Far((s \o u)[i]) # Everything /\ Lands((s \o u)[i], i) <= Len(s) + Len(u) + 1
                      /\ k[Lands((s \o u)[i], i)] = Left((s \o u)[i], k[i])
  <2>1. CASE i <= Len(s)
    <3>1. (s \o u)[i] = s[i] /\ i \in 1..Len(s) /\ s[i] \in Steps
      BY <1>1, <1>2, <2>1
    <3>2. k[i] = l[i] /\ k[i + 1] = l[i + 1]
      BY <1>1, <1>9, <3>1
    <3>3. /\ Phased(s[i], l[i], l[i + 1])
          /\ Leaving(s[i]) =>
            \/ Far(s[i]) = Everything /\ Left(s[i], l[i]) = "out"
            \/ /\ Far(s[i]) # Everything /\ Lands(s[i], i) <= Len(s) + 1
               /\ l[Lands(s[i], i)] = Left(s[i], l[i])
      BY <1>3, <3>1 DEF Labels
    <3>4. Lands(s[i], i) \in Nat /\ Lands(s[i], i) >= 1
      <4>1. PICK r \in Nat : \A q \in Int : Lands(s[i], q) = q + 1 + r
        BY <3>1, LandsForm
      <4>2. i \in Int /\ i >= 1
        BY <1>1
      <4>3. Lands(s[i], i) = i + 1 + r
        BY <4>1, <4>2
      <4> QED
        BY <4>1, <4>2, <4>3
    <3>5. Lands(s[i], i) <= Len(s) + 1 =>
            Lands(s[i], i) <= Len(s) + Len(u) + 1 /\ k[Lands(s[i], i)] = l[Lands(s[i], i)]
      BY <1>1, <1>9, <3>4
    <3> QED
      BY <3>1, <3>2, <3>3, <3>5
  <2>2. CASE i > Len(s)
    <3>1. PICK j \in 1..Len(u) : i = Len(s) + j /\ (s \o u)[i] = u[j]
      <4>1. i - Len(s) \in 1..Len(u) /\ (s \o u)[i] = u[i - Len(s)] /\ i = Len(s) + (i - Len(s))
        BY <1>1, <1>2, <2>2
      <4> QED
        BY <4>1
    <3>2. k[i] = m[j] /\ k[i + 1] = m[j + 1]
      <4>1. i + 1 = Len(s) + (j + 1) /\ j + 1 \in 1..(Len(u) + 1)
        BY <1>1, <3>1
      <4> QED
        BY <1>6, <3>1, <4>1
    <3>3. /\ Phased(u[j], m[j], m[j + 1])
          /\ Leaving(u[j]) =>
            \/ Far(u[j]) = Everything /\ Left(u[j], m[j]) = "out"
            \/ /\ Far(u[j]) # Everything /\ Lands(u[j], j) <= Len(u) + 1
               /\ m[Lands(u[j], j)] = Left(u[j], m[j])
      BY <1>4, <3>1 DEF Labels
    <3>4. u[j] \in Steps
      BY <1>1
    <3>5. Lands(u[j], j) \in Nat /\ Lands(u[j], j) >= 1 /\ Lands(u[j], i) = Len(s) + Lands(u[j], j)
      <4>1. PICK r \in Nat : \A q \in Int : Lands(u[j], q) = q + 1 + r
        BY <3>4, LandsForm
      <4>2. i \in Int /\ j \in Int /\ j >= 1 /\ i = Len(s) + j
        BY <1>1, <3>1
      <4>3. Lands(u[j], i) = i + 1 + r /\ Lands(u[j], j) = j + 1 + r
        BY <4>1, <4>2
      <4> QED
        BY <1>1, <4>1, <4>2, <4>3
    <3>6. Lands(u[j], j) <= Len(u) + 1 =>
            Lands(u[j], i) <= Len(s) + Len(u) + 1 /\ k[Lands(u[j], i)] = m[Lands(u[j], j)]
      BY <1>1, <1>6, <3>5
    <3> QED
      BY <3>1, <3>2, <3>3, <3>6
  <2> QED
    BY <1>1, <2>1, <2>2
<1>11. Labels(s \o u, k)
  BY <1>2, <1>6, <1>10 DEF Labels
<1> QED
  BY <1>2, <1>7, <1>11 DEF Flows

(* What is left of a sequence flows on. *)
LEMMA FlowsOn ==
  ASSUME NEW s, NEW z, s \in Seq(Steps), NEW lab, Labels(s, lab), lab[Len(s) + 1] = z,
         NEW k \in 0..Len(s), NEW u \in Seq(Steps), Len(u) = Len(s) - k,
         \A i \in 1..Len(u) : u[i] = s[i + k]
  PROVE  Flows(u, lab[k + 1], z)
<1>1. Len(s) \in Nat /\ Len(u) \in Nat /\ k \in Nat /\ Len(s) = Len(u) + k
  OBVIOUS
<1> DEFINE m == [i \in 1..(Len(u) + 1) |-> lab[i + k]]
<1>2. lab \in [1..(Len(s) + 1) -> Phases]
  BY DEF Labels
<1>3. m \in [1..(Len(u) + 1) -> Phases] /\ \A i \in 1..(Len(u) + 1) : m[i] = lab[i + k]
  BY <1>1, <1>2
<1> HIDE DEF m
<1>4. ASSUME NEW i \in 1..Len(u)
      PROVE  /\ Phased(u[i], m[i], m[i + 1])
             /\ Leaving(u[i]) =>
                  \/ Far(u[i]) = Everything /\ Left(u[i], m[i]) = "out"
                  \/ /\ Far(u[i]) # Everything /\ Lands(u[i], i) <= Len(u) + 1
                     /\ m[Lands(u[i], i)] = Left(u[i], m[i])
  <2>1. PICK j \in 1..Len(s) : j = i + k /\ u[i] = s[j] /\ m[i] = lab[j] /\ m[i + 1] = lab[j + 1]
    <3>1. i + k \in 1..Len(s) /\ u[i] = s[i + k] /\ m[i] = lab[i + k] /\ m[i + 1] = lab[(i + 1) + k]
      BY <1>1, <1>3
    <3>2. (i + 1) + k = (i + k) + 1
      BY <1>1
    <3> QED
      BY <3>1, <3>2
  <2>2. /\ Phased(s[j], lab[j], lab[j + 1])
        /\ Leaving(s[j]) =>
             \/ Far(s[j]) = Everything /\ Left(s[j], lab[j]) = "out"
             \/ /\ Far(s[j]) # Everything /\ Lands(s[j], j) <= Len(s) + 1
                /\ lab[Lands(s[j], j)] = Left(s[j], lab[j])
    BY <2>1 DEF Labels
  <2>3. s[j] \in Steps
    BY <2>1
  <2>4. Lands(s[j], i) \in Nat /\ Lands(s[j], i) >= 1 /\ Lands(s[j], j) = Lands(s[j], i) + k
    <3>1. PICK r \in Nat : \A q \in Int : Lands(s[j], q) = q + 1 + r
      BY <2>3, LandsForm
    <3>2. i \in Int /\ j \in Int /\ i >= 1 /\ j = i + k
      BY <1>1, <2>1
    <3>3. Lands(s[j], i) = i + 1 + r /\ Lands(s[j], j) = j + 1 + r
      BY <3>1, <3>2
    <3> QED
      BY <1>1, <3>1, <3>2, <3>3
  <2>5. Lands(s[j], j) <= Len(s) + 1 =>
          Lands(s[j], i) <= Len(u) + 1 /\ m[Lands(s[j], i)] = lab[Lands(s[j], j)]
    BY <1>1, <1>3, <2>4
  <2> QED
    BY <2>1, <2>2, <2>5
<1>5. Labels(u, m)
  BY <1>3, <1>4 DEF Labels
<1>6. m[1] = lab[k + 1] /\ m[Len(u) + 1] = z
  <2>3. 1 \in 1..(Len(u) + 1) /\ Len(u) + 1 \in 1..(Len(u) + 1)
    BY <1>1
  <2>1. m[1] = lab[1 + k] /\ m[Len(u) + 1] = lab[(Len(u) + 1) + k]
    BY <1>3, <2>3
  <2>2. 1 + k = k + 1 /\ (Len(u) + 1) + k = Len(s) + 1
    BY <1>1
  <2> QED
    BY <2>1, <2>2
<1> QED
  BY <1>5, <1>6 DEF Flows

LEMMA FlowsTail ==
  ASSUME NEW s, NEW a, NEW z, Flows(s, a, z), s # << >>
  PROVE  /\ Head(s) \in Steps /\ Tail(s) \in Seq(Steps)
         /\ \E b \in Phases : Phased(Head(s), a, b) /\ Flows(Tail(s), b, z)
<1>1. s \in Seq(Steps) /\ Len(s) \in Nat /\ Len(s) >= 1
  BY DEF Flows
<1>6. PICK t : t = Tail(s)
  OBVIOUS
<1>2. /\ t \in Seq(Steps) /\ Len(t) = Len(s) - 1 /\ Head(s) = s[1] /\ Head(s) \in Steps
      /\ \A i \in 1..Len(t) : t[i] = s[i + 1]
  BY <1>1, <1>6, HeadTailProperties
<1>3. PICK lab : Labels(s, lab) /\ lab[1] = a /\ lab[Len(s) + 1] = z
  BY DEF Flows
<1>4. Flows(t, lab[1 + 1], z)
  <2>1. 1 \in 0..Len(s)
    BY <1>1
  <2> QED
    BY <1>1, <1>2, <1>3, <2>1, FlowsOn
<1>5. Phased(s[1], lab[1], lab[1 + 1]) /\ lab[1 + 1] \in Phases
  BY <1>1, <1>3 DEF Labels
<1> QED
  BY <1>2, <1>3, <1>4, <1>5, <1>6

LEMMA FlowsDrop ==
  ASSUME NEW s, NEW a, Flows(s, a, "out"), s # << >>, Leaving(Head(s))
  PROVE  /\ Drop(Tail(s), Far(Head(s))) \in Seq(Steps)
         /\ Flows(Drop(Tail(s), Far(Head(s))), Left(Head(s), a), "out")
<1>1. s \in Seq(Steps) /\ Len(s) \in Nat /\ Len(s) >= 1
  BY DEF Flows
<1>2. PICK t : t = Tail(s)
  OBVIOUS
<1>3. /\ t \in Seq(Steps) /\ Len(t) \in Nat /\ Len(t) = Len(s) - 1 /\ Head(s) = s[1] /\ Head(s) \in Steps
      /\ \A i \in 1..Len(t) : t[i] = s[i + 1]
  BY <1>1, <1>2, HeadTailProperties
<1>4. PICK lab : Labels(s, lab) /\ lab[1] = a /\ lab[Len(s) + 1] = "out"
  BY DEF Flows
<1>5. PICK n \in Int : n = Far(Head(s))
  BY <1>3, FarForm
<1>6. \/ n = Everything /\ Left(Head(s), a) = "out"
      \/ n # Everything /\ Lands(s[1], 1) <= Len(s) + 1 /\ lab[Lands(s[1], 1)] = Left(Head(s), a)
  BY <1>1, <1>3, <1>4, <1>5 DEF Labels
<1>7. Lands(s[1], 1) = 2 + IF n > 0 THEN n ELSE 0
  BY <1>3, <1>5 DEF Lands
<1>8. << >> \in Seq(Steps) /\ Flows(<< >>, "out", "out")
  <2>1. << >> \in Seq(Steps) /\ Len(<< >>) = 0
    OBVIOUS
  <2>2. Labels(<< >>, [i \in 1..1 |-> "out"])
    BY <2>1 DEF Labels, Phases
  <2>3. [i \in 1..1 |-> "out"][1] = "out"
    OBVIOUS
  <2> QED
    BY <2>1, <2>2, <2>3 DEF Flows
<1>9. CASE n = Everything
  BY <1>2, <1>5, <1>6, <1>8, <1>9 DEF Drop
<1>10. CASE n # Everything /\ n >= Len(t)
  <2>1. Drop(t, n) = << >>
    BY <1>10 DEF Drop
  <2>2. Lands(s[1], 1) = Len(s) + 1
    BY <1>1, <1>3, <1>6, <1>7, <1>10
  <2> QED
    BY <1>2, <1>4, <1>5, <1>6, <1>8, <1>10, <2>1, <2>2
<1>11. CASE n # Everything /\ n < Len(t)
  <2>1. PICK k \in 1..Len(s) : k = 1 + IF n > 0 THEN n ELSE 0
    BY <1>1, <1>3, <1>11
  <2>2. PICK u \in Seq(Steps) : u = Drop(t, n) /\ Len(u) = Len(s) - k /\ \A i \in 1..Len(u) : u[i] = s[i + k]
    <3>1. CASE n <= 0
      <4>1. Drop(t, n) = t
        BY <1>3, <1>5, <1>11, <3>1 DEF Drop
      <4>2. k = 1
        BY <2>1, <3>1
      <4> QED
        BY <1>3, <4>1, <4>2
    <3>2. CASE n > 0
      <4>1. Drop(t, n) = SubSeq(t, n + 1, Len(t))
        BY <1>3, <1>5, <1>11, <3>2 DEF Drop
      <4>2. PICK u : u = SubSeq(t, n + 1, Len(t))
        OBVIOUS
      <4>3. \A i \in (n + 1)..Len(t) : t[i] \in Steps
        BY <1>3, <3>2
      <4>4. /\ u \in Seq(Steps) /\ Len(u) = Len(t) - (n + 1) + 1
            /\ \A i \in 1..(Len(t) - (n + 1) + 1) : u[i] = t[(n + 1) + i - 1]
        BY <1>3, <1>11, <4>2, <4>3, SubSeqProperties
      <4>5. k = 1 + n
        BY <2>1, <3>2
      <4>6. \A i \in 1..Len(u) : u[i] = s[i + k]
        <5> TAKE i \in 1..Len(u)
        <5>1. u[i] = t[(n + 1) + i - 1] /\ (n + 1) + i - 1 \in 1..Len(t)
          BY <1>3, <3>2, <4>4
        <5>2. t[(n + 1) + i - 1] = s[((n + 1) + i - 1) + 1] /\ ((n + 1) + i - 1) + 1 = i + k
          BY <1>3, <4>5, <5>1
        <5> QED
          BY <5>1, <5>2
      <4>7. Len(u) = Len(s) - k
        BY <1>1, <1>3, <4>4, <4>5
      <4> QED
        BY <4>1, <4>2, <4>4, <4>6, <4>7
    <3> QED
      BY <3>1, <3>2
  <2>3. Flows(u, lab[k + 1], "out")
    <3>1. k \in 0..Len(s)
      BY <1>1
    <3> QED
      BY <1>1, <1>4, <2>2, <3>1, FlowsOn
  <2>4. Lands(s[1], 1) = k + 1
    BY <1>7, <2>1
  <2> QED
    BY <1>2, <1>5, <1>6, <1>11, <2>2, <2>3, <2>4
<1> QED
  BY <1>3, <1>9, <1>10, <1>11

--------------------------------------------------------------------------------
(* A body stays in the section, and a section around it brings the call back out.*)
LEMMA InnerFlows == \A b \in Bodies : Flows(b, "in", "in")
<1> SUFFICES ASSUME NEW b \in Bodies PROVE Flows(b, "in", "in")
  OBVIOUS
<1>1. b \in Seq(Steps) /\ Len(b) \in Nat
  BY DEF Bodies
<1> DEFINE l == [i \in 1..(Len(b) + 1) |-> "in"]
<1>2. l \in [1..(Len(b) + 1) -> Phases] /\ \A i \in 1..(Len(b) + 1) : l[i] = "in"
  BY DEF Phases
<1> HIDE DEF l
<1>3. ASSUME NEW i \in 1..Len(b)
      PROVE  /\ Phased(b[i], l[i], l[i + 1])
             /\ Leaving(b[i]) =>
                  \/ Far(b[i]) = Everything /\ Left(b[i], l[i]) = "out"
                  \/ /\ Far(b[i]) # Everything /\ Lands(b[i], i) <= Len(b) + 1
                     /\ l[Lands(b[i], i)] = Left(b[i], l[i])
  <2>1. b[i] \in Steps /\ Inner(b[i]) /\ Fits(b[i], Len(b) - i) /\ i + 1 \in 1..(Len(b) + 1) /\ i \in 1..(Len(b) + 1)
    BY <1>1 DEF Bodies
  <2>2. Phased(b[i], "in", "in") /\ Left(b[i], "in") = "in" /\ b[i].do # "done"
    BY <2>1 DEF Inner, Phased, Left, EepromSteps, PinSteps, AcquireSteps, SelectSteps
  <2>3. l[i] = "in" /\ l[i + 1] = "in"
    BY <1>2, <2>1
  <2>4. ASSUME Leaving(b[i])
        PROVE  Far(b[i]) \in {Open} \cup 0..(Len(b) - i)
    BY <2>1, <2>2, <2>4 DEF Leaving, Far, Fits
  <2>5. ASSUME Leaving(b[i])
        PROVE  Far(b[i]) # Everything /\ Lands(b[i], i) \in 1..(Len(b) + 1)
    <3>1. PICK n \in Int : n = Far(b[i])
      BY <2>1, FarForm
    <3>2. n = -1 \/ n \in 0..(Len(b) - i)
      BY <2>4, <2>5, <3>1 DEF Open
    <3>3. Lands(b[i], i) \in 1..(Len(b) + 1)
      BY <1>1, <2>1, <3>1, <3>2 DEF Lands
    <3>4. n # Everything
      BY <3>2 DEF Everything
    <3> QED
      BY <3>1, <3>3, <3>4
  <2> QED
    BY <1>2, <2>2, <2>3, <2>5
<1>4. Labels(b, l)
  BY <1>2, <1>3 DEF Labels
<1> QED
  BY <1>1, <1>2, <1>4 DEF Flows

(* A section has the module selected between its four first and two last steps. *)
Section(s, b) ==
  /\ s \in Seq(Steps) /\ Len(s) = Len(b) + 6
  /\ \A i \in 1..4 : s[i].skip \in {Len(s) - i, Everything}
  /\ s[1].do = "acqmux" /\ s[2].do = "setmux" /\ s[3].do = "acqmod" /\ s[4].do = "setmod"
  /\ ~s[1].quiet /\ ~s[2].quiet /\ ~s[3].quiet /\ ~s[4].quiet
  /\ \A i \in 1..Len(b) : s[4 + i] = b[i]
  /\ s[Len(b) + 5].do = "dropmux" /\ s[Len(b) + 6].do = "dropmod"

LEMMA SectionFlows ==
  ASSUME NEW b, Flows(b, "in", "in"), NEW s, Section(s, b)
  PROVE  Flows(s, "out", "out")
<1>1. b \in Seq(Steps) /\ Len(b) \in Nat /\ s \in Seq(Steps) /\ Len(s) = Len(b) + 6
  BY DEF Flows, Section
<1>2. PICK l : Labels(b, l) /\ l[1] = "in" /\ l[Len(b) + 1] = "in"
  BY DEF Flows
<1>3. l \in [1..(Len(b) + 1) -> Phases]
  BY <1>2 DEF Labels
<1> DEFINE k == [i \in 1..(Len(b) + 7) |->
                   IF i = 1 THEN "out" ELSE IF i = 2 THEN "mux" ELSE IF i = 3 THEN "muxset"
                   ELSE IF i = 4 THEN "mod" ELSE IF i <= Len(b) + 5 THEN l[i - 4]
                   ELSE IF i = Len(b) + 6 THEN "part" ELSE "out"]
<1>4. /\ k[1] = "out" /\ k[2] = "mux" /\ k[3] = "muxset" /\ k[4] = "mod"
      /\ \A i \in 1..(Len(b) + 1) : k[4 + i] = l[i]
      /\ k[Len(b) + 6] = "part" /\ k[Len(b) + 7] = "out"
  BY <1>1
<1>5. k \in [1..(Len(b) + 7) -> Phases]
  BY <1>1, <1>3 DEF Phases
<1> HIDE DEF k
<1>6. k[5] = "in" /\ k[Len(b) + 5] = "in"
  <2>1. k[4 + 1] = l[1] /\ k[4 + (Len(b) + 1)] = l[Len(b) + 1]
    BY <1>1, <1>4
  <2>2. 4 + 1 = 5 /\ 4 + (Len(b) + 1) = Len(b) + 5
    BY <1>1
  <2> QED
    BY <1>2, <2>1, <2>2
<1>7. ASSUME NEW i \in 1..(Len(b) + 6)
      PROVE  /\ Phased(s[i], k[i], k[i + 1])
             /\ Leaving(s[i]) =>
                  \/ Far(s[i]) = Everything /\ Left(s[i], k[i]) = "out"
                  \/ /\ Far(s[i]) # Everything /\ Lands(s[i], i) <= Len(b) + 6 + 1
                     /\ k[Lands(s[i], i)] = Left(s[i], k[i])
  <2>1. i \in 1..4 \/ (\E j \in 1..Len(b) : i = 4 + j) \/ i = Len(b) + 5 \/ i = Len(b) + 6
    <3>1. i \in 1..4 \/ i - 4 \in 1..Len(b) \/ i = Len(b) + 5 \/ i = Len(b) + 6
      BY <1>1
    <3> QED
      BY <3>1
  <2>2. CASE i \in 1..4
    <3>1. i + 1 \in 2..5 /\ s[i].do \in AcquireSteps \cup SelectSteps /\ Phased(s[i], k[i], k[i + 1])
      <4>1. i = 1 \/ i = 2 \/ i = 3 \/ i = 4
        BY <2>2
      <4>2. /\ Phased(s[1], "out", "mux") /\ Phased(s[2], "mux", "muxset")
            /\ Phased(s[3], "muxset", "mod") /\ Phased(s[4], "mod", "in")
        BY DEF Phased, Section, EepromSteps, PinSteps
      <4>3. /\ s[1].do \in AcquireSteps \cup SelectSteps /\ s[2].do \in AcquireSteps \cup SelectSteps
            /\ s[3].do \in AcquireSteps \cup SelectSteps /\ s[4].do \in AcquireSteps \cup SelectSteps
        BY DEF AcquireSteps, SelectSteps, Section
      <4>4. 1 + 1 = 2 /\ 2 + 1 = 3 /\ 3 + 1 = 4 /\ 4 + 1 = 5
        OBVIOUS
      <4> QED
        BY <1>4, <1>6, <4>1, <4>2, <4>3, <4>4
    <3>2. Left(s[i], k[i]) = "out" /\ Far(s[i]) = s[i].skip
      BY <3>1 DEF Left, Far, AcquireSteps, SelectSteps
    <3>3. s[i].skip \in {Len(b) + 6 - i, Everything}
      BY <1>1, <2>2 DEF Section
    <3>4. CASE s[i].skip # Everything
      <4>1. Lands(s[i], i) = Len(b) + 7
        BY <1>1, <2>2, <3>2, <3>3, <3>4 DEF Lands
      <4> QED
        BY <1>1, <1>4, <3>1, <3>2, <3>4, <4>1
    <3> QED
      BY <3>1, <3>2, <3>4
  <2>3. ASSUME NEW j \in 1..Len(b), i = 4 + j
        PROVE  /\ Phased(s[i], k[i], k[i + 1])
               /\ Leaving(s[i]) =>
                    \/ Far(s[i]) = Everything /\ Left(s[i], k[i]) = "out"
                    \/ /\ Far(s[i]) # Everything /\ Lands(s[i], i) <= Len(b) + 6 + 1
                       /\ k[Lands(s[i], i)] = Left(s[i], k[i])
    <3>1. s[i] = b[j] /\ k[i] = l[j]
      BY <1>1, <1>4, <2>3 DEF Section
    <3>2. k[i + 1] = l[j + 1]
      <4>1. i + 1 = 4 + (j + 1) /\ j + 1 \in 1..(Len(b) + 1)
        BY <1>1, <2>3
      <4> QED
        BY <1>4, <4>1
    <3>3. /\ Phased(b[j], l[j], l[j + 1])
          /\ Leaving(b[j]) =>
               \/ Far(b[j]) = Everything /\ Left(b[j], l[j]) = "out"
               \/ /\ Far(b[j]) # Everything /\ Lands(b[j], j) <= Len(b) + 1
                  /\ l[Lands(b[j], j)] = Left(b[j], l[j])
      BY <1>2 DEF Labels
    <3>4. b[j] \in Steps
      BY <1>1
    <3>5. PICK r \in Nat : \A q \in Int : Lands(b[j], q) = q + 1 + r
      BY <3>4, LandsForm
    <3>6. i \in Int /\ j \in Int /\ j >= 1
      BY <1>1
    <3>7. Lands(b[j], i) = i + 1 + r /\ Lands(b[j], j) = j + 1 + r
      BY <3>5, <3>6
    <3>8. Lands(b[j], j) <= Len(b) + 1 =>
            Lands(b[j], i) <= Len(b) + 6 + 1 /\ k[Lands(b[j], i)] = l[Lands(b[j], j)]
      <4> SUFFICES ASSUME Lands(b[j], j) <= Len(b) + 1
                   PROVE  Lands(b[j], i) <= Len(b) + 6 + 1 /\ k[Lands(b[j], i)] = l[Lands(b[j], j)]
        OBVIOUS
      <4>1. Lands(b[j], j) \in 1..(Len(b) + 1) /\ Lands(b[j], i) = 4 + Lands(b[j], j)
        BY <1>1, <2>3, <3>5, <3>6, <3>7
      <4> QED
        BY <1>1, <1>4, <4>1
    <3> QED
      BY <3>1, <3>2, <3>3, <3>8
  <2>4. CASE i = Len(b) + 5
    <3>1. s[i].do = "dropmux" /\ ~Leaving(s[i])
      BY <2>4 DEF Section, Leaving, DropSteps
    <3>2. i + 1 = Len(b) + 6
      BY <1>1, <2>4
    <3>3. Phased(s[i], "in", "part")
      BY <3>1 DEF Phased, EepromSteps, PinSteps
    <3> QED
      BY <1>4, <1>6, <2>4, <3>1, <3>2, <3>3
  <2>5. CASE i = Len(b) + 6
    <3>1. s[i].do = "dropmod" /\ ~Leaving(s[i])
      BY <2>5 DEF Section, Leaving, DropSteps
    <3>2. i + 1 = Len(b) + 7
      BY <1>1, <2>5
    <3>3. Phased(s[i], "part", "out")
      BY <3>1 DEF Phased, EepromSteps, PinSteps
    <3> QED
      BY <1>4, <1>6, <2>5, <3>1, <3>2, <3>3
  <2> QED
    BY <2>1, <2>2, <2>3, <2>4, <2>5
<1>8. Labels(s, k)
  <2>1. Len(s) + 1 = Len(b) + 7 /\ Len(b) + 6 + 1 = Len(b) + 7
    BY <1>1
  <2> QED
    BY <1>1, <1>5, <1>7, <2>1 DEF Labels
<1>9. k[Len(s) + 1] = "out"
  <2>1. Len(s) + 1 = Len(b) + 7
    BY <1>1
  <2> QED
    BY <1>4, <2>1
<1> QED
  BY <1>1, <1>4, <1>8, <1>9 DEF Flows

LEMMA Left1 ==
  \A e \in Steps : /\ Leave(e) \in Steps /\ Leave(e).skip = Everything
                   /\ Leave(e).do = e.do /\ Leave(e).n = e.n /\ Leave(e).quiet = e.quiet
BY DEF Leave, Steps, Everything

LEMMA AroundSection ==
  ASSUME NEW b \in Seq(Steps), NEW s, s = Around(QsfpSelect, b, QsfpDeselect)
  PROVE  Section(s, b) /\ Section(OrLeave(s), b)
<1>1. Len(b) \in Nat
  OBVIOUS
<1> DEFINE p1 == S("acqmux", 0)  p2 == S("setmux", 0)  p3 == S("acqmod", 0)  p4 == S("setmod", 0)
           q1 == S("dropmux", 0)  q2 == S("dropmod", 0)
<1>2. /\ p1 \in Steps /\ p2 \in Steps /\ p3 \in Steps /\ p4 \in Steps /\ q1 \in Steps /\ q2 \in Steps
      /\ p1.do = "acqmux" /\ p2.do = "setmux" /\ p3.do = "acqmod" /\ p4.do = "setmod"
      /\ q1.do = "dropmux" /\ q2.do = "dropmod"
      /\ p1.quiet = FALSE /\ p2.quiet = FALSE /\ p3.quiet = FALSE /\ p4.quiet = FALSE
  <2>1. {"acqmux", "setmux", "acqmod", "setmod", "dropmux", "dropmod"} \subseteq Verbs
    BY DEF Verbs, AcquireSteps, SelectSteps, DropSteps
  <2>2. ASSUME NEW do \in {"acqmux", "setmux", "acqmod", "setmod", "dropmux", "dropmod"}
        PROVE  S(do, 0) \in Steps /\ S(do, 0).do = do /\ S(do, 0).quiet = FALSE
    BY <2>1, <2>2 DEF S, Steps, Open
  <2> QED
    BY <2>2
<1> DEFINE ins == << p1, p2, p3, p4 >>
           des == << q1, q2 >>
<1> HIDE DEF p1, p2, p3, p4, q1, q2
<1>3. /\ ins \in Seq(Steps) /\ Len(ins) = 4
      /\ ins[1] = p1 /\ ins[2] = p2 /\ ins[3] = p3 /\ ins[4] = p4
      /\ des \in Seq(Steps) /\ Len(des) = 2 /\ des[1] = q1 /\ des[2] = q2
  BY <1>2
<1>4. QsfpSelect = ins /\ QsfpDeselect = des
  BY DEF QsfpSelect, QsfpDeselect, p1, p2, p3, p4, q1, q2
<1> HIDE DEF ins, des
<1>5. PICK x : x = ins \o b
  OBVIOUS
<1>6. /\ x \in Seq(Steps) /\ Len(x) = 4 + Len(b)
      /\ \A i \in 1..(4 + Len(b)) : x[i] = IF i <= 4 THEN ins[i] ELSE b[i - 4]
  <2>1. /\ ins \o b \in Seq(Steps) /\ Len(ins \o b) = Len(ins) + Len(b)
        /\ \A i \in 1..(Len(ins) + Len(b)) : (ins \o b)[i] = IF i <= Len(ins) THEN ins[i] ELSE b[i - Len(ins)]
    BY <1>3, ConcatProperties
  <2> QED
    BY <1>3, <1>5, <2>1
<1>7. PICK all : all = x \o des
  OBVIOUS
<1>8. /\ all \in Seq(Steps) /\ Len(all) = Len(x) + 2
      /\ \A i \in 1..(Len(x) + 2) : all[i] = IF i <= Len(x) THEN x[i] ELSE des[i - Len(x)]
  <2>1. /\ x \o des \in Seq(Steps) /\ Len(x \o des) = Len(x) + Len(des)
        /\ \A i \in 1..(Len(x) + Len(des)) : (x \o des)[i] = IF i <= Len(x) THEN x[i] ELSE des[i - Len(x)]
    BY <1>3, <1>6, ConcatProperties
  <2> QED
    BY <1>3, <1>7, <2>1
<1>9. Len(all) = Len(b) + 6 /\ Len(all) \in Nat
  BY <1>1, <1>6, <1>8
<1>10. /\ all[1] = p1 /\ all[2] = p2 /\ all[3] = p3 /\ all[4] = p4
       /\ \A i \in 1..Len(b) : all[4 + i] = b[i]
       /\ all[Len(b) + 5] = q1 /\ all[Len(b) + 6] = q2
  <2>1. \A i \in 1..(4 + Len(b)) : all[i] = x[i]
    BY <1>1, <1>6, <1>8
  <2>2. x[1] = p1 /\ x[2] = p2 /\ x[3] = p3 /\ x[4] = p4
    BY <1>1, <1>3, <1>6
  <2>3. \A i \in 1..Len(b) : x[4 + i] = b[i]
    BY <1>1, <1>6
  <2>4. all[Len(b) + 5] = des[1] /\ all[Len(b) + 6] = des[2]
    <3>1. Len(b) + 5 \in 1..(Len(x) + 2) /\ Len(b) + 6 \in 1..(Len(x) + 2)
      BY <1>1, <1>6
    <3>2. /\ ~(Len(b) + 5 <= Len(x)) /\ (Len(b) + 5) - Len(x) = 1
          /\ ~(Len(b) + 6 <= Len(x)) /\ (Len(b) + 6) - Len(x) = 2
      BY <1>1, <1>6
    <3> QED
      BY <1>8, <3>1, <3>2
  <2>5. all[1] = x[1] /\ all[2] = x[2] /\ all[3] = x[3] /\ all[4] = x[4]
    BY <1>1, <2>1
  <2>6. \A i \in 1..Len(b) : all[4 + i] = x[4 + i]
    BY <1>1, <2>1
  <2> QED
    BY <1>3, <2>2, <2>3, <2>4, <2>5, <2>6
<1> DEFINE e(i) == IF i <= 4 THEN [all[i] EXCEPT !.skip = Len(all) - i] ELSE all[i]
<1>11. s = [i \in 1..Len(all) |-> e(i)]
  <2>1. DOMAIN all = 1..Len(all)
    BY <1>8, LenProperties
  <2>2. s = [i \in DOMAIN all |-> IF i <= 4 THEN [all[i] EXCEPT !.skip = Len(all) - i] ELSE all[i]]
    BY <1>3, <1>4, <1>5, <1>7 DEF Around
  <2> QED
    BY <2>1, <2>2
<1>12. ASSUME NEW i \in 1..Len(all)
       PROVE  /\ e(i) \in Steps
              /\ i <= 4 => e(i).skip = Len(all) - i /\ e(i).do = all[i].do /\ e(i).quiet = all[i].quiet
              /\ i > 4 => e(i) = all[i]
  <2>1. all[i] \in Steps /\ Len(all) - i \in Int
    BY <1>8, <1>9
  <2>2. PICK n \in Int : n = Len(all) - i
    BY <2>1
  <2>3. CASE i <= 4
    <3>1. e(i) = [all[i] EXCEPT !.skip = n]
      BY <2>2, <2>3
    <3>2. [all[i] EXCEPT !.skip = n] \in Steps /\ [all[i] EXCEPT !.skip = n].skip = n
          /\ [all[i] EXCEPT !.skip = n].do = all[i].do /\ [all[i] EXCEPT !.skip = n].quiet = all[i].quiet
      BY <2>1 DEF Steps
    <3> QED
      BY <1>9, <2>2, <2>3, <3>1, <3>2
  <2>4. CASE i > 4
    BY <2>1, <2>4
  <2> QED
    BY <1>9, <2>3, <2>4
<1> HIDE DEF e
<1>13. /\ s \in Seq(Steps) /\ Len(s) = Len(all)
       /\ \A i \in 1..Len(all) : s[i] = e(i)
  <2>1. s \in Seq(Steps)
    BY <1>9, <1>11, <1>12, IsASeq
  <2> QED
    BY <1>9, <1>11, <2>1
<1>14. Section(s, b)
  <2>1. \A i \in 1..4 : i \in 1..Len(all) /\ s[i].skip = Len(s) - i /\ s[i].do = all[i].do /\ s[i].quiet = all[i].quiet
    <3>1. \A i \in 1..4 : i \in 1..Len(all) /\ i <= 4
      BY <1>1, <1>9
    <3> QED
      BY <1>12, <1>13, <3>1
  <2>2. /\ s[1].do = all[1].do /\ s[2].do = all[2].do /\ s[3].do = all[3].do /\ s[4].do = all[4].do
        /\ s[1].quiet = all[1].quiet /\ s[2].quiet = all[2].quiet
        /\ s[3].quiet = all[3].quiet /\ s[4].quiet = all[4].quiet
    BY <2>1
  <2>3. \A i \in 1..Len(b) : s[4 + i] = all[4 + i]
    <3>1. \A i \in 1..Len(b) : 4 + i \in 1..Len(all) /\ 4 + i > 4
      BY <1>1, <1>9
    <3> QED
      BY <1>12, <1>13, <3>1
  <2>4. s[Len(b) + 5] = all[Len(b) + 5] /\ s[Len(b) + 6] = all[Len(b) + 6]
    <3>1. /\ Len(b) + 5 \in 1..Len(all) /\ Len(b) + 5 > 4
          /\ Len(b) + 6 \in 1..Len(all) /\ Len(b) + 6 > 4
      BY <1>1, <1>9
    <3> QED
      BY <1>12, <1>13, <3>1
  <2> QED
    BY <1>2, <1>9, <1>10, <1>13, <2>1, <2>2, <2>3, <2>4 DEF Section
<1> DEFINE g(i) == IF i <= 4 THEN Leave(s[i]) ELSE s[i]
<1>15. OrLeave(s) = [i \in 1..Len(s) |-> g(i)]
  <2>1. DOMAIN s = 1..Len(s) /\ Len(QsfpSelect) = 4
    BY <1>3, <1>4, <1>13, LenProperties
  <2> QED
    BY <2>1 DEF OrLeave
<1>16. ASSUME NEW i \in 1..Len(s)
       PROVE  /\ g(i) \in Steps
              /\ i <= 4 => g(i).skip = Everything /\ g(i).do = s[i].do /\ g(i).quiet = s[i].quiet
              /\ i > 4 => g(i) = s[i]
  <2>1. s[i] \in Steps
    BY <1>13
  <2>2. /\ Leave(s[i]) \in Steps /\ Leave(s[i]).skip = Everything
        /\ Leave(s[i]).do = s[i].do /\ Leave(s[i]).quiet = s[i].quiet
    BY <2>1, Left1
  <2> QED
    BY <1>9, <1>13, <2>1, <2>2
<1> HIDE DEF g
<1>17. /\ OrLeave(s) \in Seq(Steps) /\ Len(OrLeave(s)) = Len(s)
       /\ \A i \in 1..Len(s) : OrLeave(s)[i] = g(i)
  <2>1. OrLeave(s) \in Seq(Steps)
    BY <1>9, <1>13, <1>15, <1>16, IsASeq
  <2> QED
    BY <1>9, <1>13, <1>15, <2>1
<1>18. PICK o : o = OrLeave(s)
  OBVIOUS
<1>19. Section(o, b)
  <2>0. o \in Seq(Steps) /\ Len(o) = Len(b) + 6 /\ Len(s) = Len(b) + 6
    BY <1>9, <1>13, <1>17, <1>18
  <2>1. \A i \in 1..4 : o[i].skip = Everything /\ o[i].do = s[i].do /\ o[i].quiet = s[i].quiet
    <3>1. \A i \in 1..4 : i \in 1..Len(s) /\ i <= 4
      BY <1>1, <2>0
    <3> QED
      BY <1>16, <1>17, <1>18, <3>1
  <2>2. /\ o[1].do = s[1].do /\ o[2].do = s[2].do /\ o[3].do = s[3].do /\ o[4].do = s[4].do
        /\ o[1].quiet = s[1].quiet /\ o[2].quiet = s[2].quiet
        /\ o[3].quiet = s[3].quiet /\ o[4].quiet = s[4].quiet
    BY <2>1
  <2>3. \A i \in 1..Len(b) : o[4 + i] = s[4 + i]
    <3>1. \A i \in 1..Len(b) : 4 + i \in 1..Len(s) /\ 4 + i > 4
      BY <1>1, <2>0
    <3> QED
      BY <1>16, <1>17, <1>18, <3>1
  <2>4. o[Len(b) + 5] = s[Len(b) + 5] /\ o[Len(b) + 6] = s[Len(b) + 6]
    <3>1. /\ Len(b) + 5 \in 1..Len(s) /\ Len(b) + 5 > 4
          /\ Len(b) + 6 \in 1..Len(s) /\ Len(b) + 6 > 4
      BY <1>1, <2>0
    <3> QED
      BY <1>16, <1>17, <1>18, <3>1
  <2> QED
    BY <1>14, <2>0, <2>1, <2>2, <2>3, <2>4 DEF Section
<1> QED
  BY <1>14, <1>18, <1>19

LEMMA SfpAround == \A b : Sfp(b) = Qsfp(b) /\ Qsfp(b) = Around(QsfpSelect, b, QsfpDeselect)
BY DEF Sfp, Qsfp, SfpSelect, QsfpSelect, SfpDeselect, QsfpDeselect

--------------------------------------------------------------------------------
(* The accesses to the pins of the presence, reset, low power and transmit lines. *)
PinPlain == {s \in Steps : s.do \in PinSteps \cup {"asked", "refused"} /\ s.skip = Open /\ ~s.quiet}
PinBodies == Seq(PinPlain)
PinSection(s, n) ==
  /\ s \in Seq(Steps) /\ n \in Nat /\ Len(s) = n + 2
  /\ s[1].do = "acqpin" /\ s[1].skip = n + 1 /\ ~s[1].quiet
  /\ \A i \in 2..(n + 1) : s[i].do \in PinSteps \cup {"asked", "refused"} /\ s[i].skip = n + 1 - i /\ ~s[i].quiet
  /\ s[n + 2].do = "droppin"

LEMMA PinPlainSteps ==
  /\ PinRead \in PinPlain /\ Refused \in PinPlain
  /\ \A n \in Int : PinWrite(n) \in PinPlain
  /\ \A n \in Signed : S("txpin", n) \in PinPlain /\ S("asked", n) \in PinPlain
<1>1. {"pinread", "pinwrite", "refused", "txpin", "asked"} \subseteq Verbs
  BY DEF Verbs, PinSteps
<1>2. PinRead \in PinPlain /\ Refused \in PinPlain
  BY <1>1 DEF PinRead, Refused, PinPlain, PinSteps, Steps, S, Open
<1>3. \A n \in Int : PinWrite(n) \in PinPlain
  BY <1>1 DEF PinWrite, PinPlain, PinSteps, Steps, S, Open
<1>4. Signed \subseteq Int
  BY DEF Signed, Lanes, Serdes
<1>5. \A n \in Signed : S("txpin", n) \in PinPlain /\ S("asked", n) \in PinPlain
  BY <1>1, <1>4 DEF PinPlain, PinSteps, Steps, S, Open
<1> QED
  BY <1>2, <1>3, <1>5

LEMMA PinClosed ==
  /\ \A a \in PinPlain : << a >> \in PinBodies
  /\ \A a, b \in PinPlain : << a, b >> \in PinBodies
  /\ \A a, b, c \in PinPlain : << a, b, c >> \in PinBodies
  /\ \A a, b \in PinBodies : a \o b \in PinBodies
<1>1. \A a, b \in PinBodies : a \o b \in PinBodies
  BY ConcatProperties DEF PinBodies
<1> QED
  BY <1>1 DEF PinBodies

LEMMA PinsShape ==
  ASSUME NEW b \in PinBodies
  PROVE  PinSection(Pins(b), Len(b))
<1>1. b \in Seq(PinPlain) /\ Len(b) \in Nat /\ DOMAIN b = 1..Len(b)
  BY LenProperties DEF PinBodies
<1> DEFINE e(i) == IF b[i].skip = Open THEN [b[i] EXCEPT !.skip = Len(b) - i] ELSE b[i]
<1>2. Block(b) = [i \in 1..Len(b) |-> e(i)]
  BY <1>1 DEF Block
<1>3. ASSUME NEW i \in 1..Len(b)
      PROVE  /\ e(i) \in Steps /\ e(i).do \in PinSteps \cup {"asked", "refused"}
             /\ e(i).skip = Len(b) - i /\ ~e(i).quiet
  <2>6. Len(b) - i \in Int
    BY <1>1
  <2>1. PICK r \in Int : r = Len(b) - i
    BY <2>6
  <2>2. PICK c : c = b[i]
    OBVIOUS
  <2>3. c \in PinPlain
    BY <1>1, <2>2
  <2>4. e(i) = [c EXCEPT !.skip = r]
    BY <2>1, <2>2, <2>3 DEF PinPlain
  <2> HIDE DEF e
  <2>5. /\ e(i) \in Steps /\ e(i).do = c.do /\ e(i).skip = r /\ e(i).quiet = c.quiet
    BY <2>3, <2>4 DEF PinPlain, Steps
  <2> QED
    BY <2>1, <2>3, <2>5 DEF PinPlain
<1> HIDE DEF e
<1>4. PICK k : k = Block(b)
  OBVIOUS
<1>5. k \in Seq(Steps) /\ Len(k) = Len(b) /\ \A i \in 1..Len(b) : k[i] = e(i)
  <2>1. k \in Seq(Steps)
    BY <1>1, <1>2, <1>3, <1>4, IsASeq
  <2> QED
    BY <1>1, <1>2, <1>4, <2>1
<1> DEFINE p == S("acqpin", 0)
           q == S("droppin", 0)
<1>6. p \in Steps /\ p.do = "acqpin" /\ p.quiet = FALSE /\ q \in Steps /\ q.do = "droppin"
  <2>1. "acqpin" \in Verbs /\ "droppin" \in Verbs
    BY DEF Verbs, AcquireSteps, DropSteps
  <2> QED
    BY <2>1 DEF S, Steps, Open
<1> HIDE DEF p, q
<1>7. PICK x : x = << p >> \o k
  OBVIOUS
<1>8. /\ x \in Seq(Steps) /\ Len(x) = 1 + Len(b)
      /\ \A i \in 1..(1 + Len(b)) : x[i] = IF i <= 1 THEN p ELSE k[i - 1]
  <2>1. << p >> \in Seq(Steps) /\ Len(<< p >>) = 1 /\ << p >>[1] = p
    BY <1>6
  <2>2. /\ << p >> \o k \in Seq(Steps) /\ Len(<< p >> \o k) = Len(<< p >>) + Len(k)
        /\ \A i \in 1..(Len(<< p >>) + Len(k)) :
             (<< p >> \o k)[i] = IF i <= Len(<< p >>) THEN << p >>[i] ELSE k[i - Len(<< p >>)]
    BY <1>5, <2>1, ConcatProperties
  <2>3. \A i \in 1..(1 + Len(b)) : i <= 1 => i = 1
    OBVIOUS
  <2> QED
    BY <1>5, <1>7, <2>1, <2>2, <2>3
<1>9. PICK all : all = x \o << q >>
  OBVIOUS
<1>10. /\ all \in Seq(Steps) /\ Len(all) = Len(b) + 2
       /\ \A i \in 1..(1 + Len(b)) : all[i] = x[i]
       /\ all[Len(b) + 2] = q
  <2>1. << q >> \in Seq(Steps) /\ Len(<< q >>) = 1 /\ << q >>[1] = q
    BY <1>6
  <2>2. /\ x \o << q >> \in Seq(Steps) /\ Len(x \o << q >>) = Len(x) + Len(<< q >>)
        /\ \A i \in 1..(Len(x) + Len(<< q >>)) :
             (x \o << q >>)[i] = IF i <= Len(x) THEN x[i] ELSE << q >>[i - Len(x)]
    BY <1>8, <2>1, ConcatProperties
  <2>3. Len(b) + 2 \in 1..(Len(x) + 1) /\ ~(Len(b) + 2 <= Len(x)) /\ (Len(b) + 2) - Len(x) = 1
    BY <1>1, <1>8
  <2>4. \A i \in 1..(1 + Len(b)) : i \in 1..(Len(x) + 1) /\ i <= Len(x)
    BY <1>1, <1>8
  <2> QED
    BY <1>1, <1>8, <1>9, <2>1, <2>2, <2>3, <2>4
<1>11. PICK s : s = Pins(b)
  OBVIOUS
<1>12. s = [all EXCEPT ![1].skip = Len(all) - 1]
  BY <1>4, <1>7, <1>9, <1>11 DEF Pins, p, q
<1>13. all[1] = p
  BY <1>1, <1>8, <1>10
<1>14. PICK r \in Int : r = Len(b) + 1
  BY <1>1
<1>15. PICK w : w = [p EXCEPT !.skip = r]
  OBVIOUS
<1>16. w \in Steps /\ w.do = "acqpin" /\ w.skip = r /\ ~w.quiet
  BY <1>6, <1>15 DEF Steps
<1>17. s = [all EXCEPT ![1] = w]
  <2>1. Len(all) - 1 = r
    BY <1>1, <1>10, <1>14
  <2> QED
    BY <1>12, <1>13, <1>15, <2>1
<1>18. /\ s \in Seq(Steps) /\ Len(s) = Len(b) + 2 /\ s[1] = w
       /\ \A i \in 2..(Len(b) + 2) : s[i] = all[i]
  <2>1. 1 \in 1..Len(all)
    BY <1>1, <1>10
  <2>2. /\ s \in Seq(Steps) /\ Len(s) = Len(all)
        /\ \A i \in 1..Len(all) : s[i] = IF i = 1 THEN w ELSE all[i]
    BY <1>10, <1>16, <1>17, <2>1, ExceptSeq
  <2>3. \A i \in 2..(Len(b) + 2) : i \in 1..Len(all) /\ i # 1
    BY <1>1, <1>10
  <2> QED
    BY <1>10, <2>1, <2>2, <2>3
<1>19. ASSUME NEW i \in 2..(Len(b) + 1)
       PROVE  s[i].do \in PinSteps \cup {"asked", "refused"} /\ s[i].skip = Len(b) + 1 - i /\ ~s[i].quiet
  <2>1. i \in 1..(1 + Len(b)) /\ i \in 2..(Len(b) + 2) /\ ~(i <= 1) /\ i - 1 \in 1..Len(b)
    BY <1>1
  <2>2. s[i] = e(i - 1)
    BY <1>5, <1>8, <1>10, <1>18, <2>1
  <2>3. Len(b) - (i - 1) = Len(b) + 1 - i
    BY <1>1
  <2> QED
    BY <1>3, <2>1, <2>2, <2>3
<1>20. s[Len(b) + 2] = q
  <2>1. Len(b) + 2 \in 2..(Len(b) + 2)
    BY <1>1
  <2> QED
    BY <1>10, <1>18, <2>1
<1> QED
  BY <1>1, <1>6, <1>11, <1>14, <1>16, <1>18, <1>19, <1>20 DEF PinSection

LEMMA PinFlows ==
  ASSUME NEW s, NEW n, PinSection(s, n)
  PROVE  Flows(s, "out", "out")
<1>1. s \in Seq(Steps) /\ n \in Nat /\ Len(s) = n + 2
  BY DEF PinSection
<1> DEFINE k == [i \in 1..(n + 3) |-> IF i = 1 \/ i = n + 3 THEN "out" ELSE "pin"]
<1>2. /\ k \in [1..(n + 3) -> Phases] /\ k[1] = "out" /\ k[n + 3] = "out"
      /\ \A i \in 2..(n + 2) : k[i] = "pin"
  BY <1>1 DEF Phases
<1> HIDE DEF k
<1>3. ASSUME NEW i \in 1..(n + 2)
      PROVE  /\ Phased(s[i], k[i], k[i + 1])
             /\ Leaving(s[i]) =>
                  \/ Far(s[i]) = Everything /\ Left(s[i], k[i]) = "out"
                  \/ /\ Far(s[i]) # Everything /\ Lands(s[i], i) <= n + 2 + 1
                     /\ k[Lands(s[i], i)] = Left(s[i], k[i])
  <2>1. i = 1 \/ i \in 2..(n + 1) \/ i = n + 2
    BY <1>1
  <2>2. CASE i = 1
    <3>1. s[i].do = "acqpin" /\ s[i].skip = n + 1
      BY <2>2 DEF PinSection
    <3>2. Phased(s[i], "out", "pin") /\ Left(s[i], "out") = "out" /\ Far(s[i]) = n + 1
      BY <3>1 DEF Phased, Left, Far, EepromSteps, PinSteps, AcquireSteps
    <3>3. k[i] = "out" /\ k[i + 1] = "pin"
      BY <1>1, <1>2, <2>2
    <3>4. Lands(s[i], i) = n + 3 /\ Far(s[i]) # Everything
      BY <1>1, <2>2, <3>2 DEF Lands, Everything
    <3> QED
      BY <1>1, <1>2, <3>2, <3>3, <3>4
  <2>3. CASE i \in 2..(n + 1)
    <3>1. s[i].do \in PinSteps \cup {"asked", "refused"} /\ s[i].skip = n + 1 - i
      BY <2>3 DEF PinSection
    <3>2. Phased(s[i], "pin", "pin") /\ Left(s[i], "pin") = "pin" /\ Far(s[i]) = n + 1 - i
      BY <3>1 DEF Phased, Left, Far, EepromSteps, PinSteps, AcquireSteps, SelectSteps
    <3>3. k[i] = "pin" /\ k[i + 1] = "pin" /\ k[n + 2] = "pin"
      BY <1>1, <1>2, <2>3
    <3>4. Lands(s[i], i) = n + 2 /\ Far(s[i]) # Everything
      BY <1>1, <2>3, <3>2 DEF Lands, Everything
    <3> QED
      BY <1>1, <1>2, <3>2, <3>3, <3>4
  <2>4. CASE i = n + 2
    <3>1. s[i].do = "droppin" /\ ~Leaving(s[i])
      BY <2>4 DEF PinSection, Leaving, DropSteps
    <3>2. Phased(s[i], "pin", "out")
      BY <3>1 DEF Phased, EepromSteps, PinSteps
    <3>3. k[i] = "pin" /\ k[i + 1] = "out"
      <4>1. i + 1 = n + 3 /\ i \in 2..(n + 2)
        BY <1>1, <2>4
      <4> QED
        BY <1>2, <4>1
    <3> QED
      BY <3>1, <3>2, <3>3
  <2> QED
    BY <2>1, <2>2, <2>3, <2>4
<1>4. Labels(s, k) /\ k[Len(s) + 1] = "out"
  <2>1. Len(s) + 1 = n + 3 /\ n + 2 + 1 = n + 3
    BY <1>1
  <2> QED
    BY <1>1, <1>2, <1>3, <2>1 DEF Labels
<1> QED
  BY <1>1, <1>2, <1>4 DEF Flows

--------------------------------------------------------------------------------
(* The steps between the sections, and what calls are put together from. *)
Outer == {s \in Steps : /\ s.do \in {"check", "refused", "done", "forgetpower", "forgetversion", "absent"}
                        /\ s.skip \in {Open, 0, Everything}}

LEMMA OuterSteps ==
  /\ Refused \in Outer /\ Return \in Outer /\ Check \in Outer /\ Done \in Outer
  /\ GoOn(Refused) \in Outer
  /\ S("forgetpower", 0) \in Outer /\ S("forgetversion", 0) \in Outer /\ S("absent", 0) \in Outer
<1>1. {"check", "refused", "done", "forgetpower", "forgetversion", "absent"} \subseteq Verbs
  BY DEF Verbs
<1>2. ASSUME NEW do \in {"check", "refused", "done", "forgetpower", "forgetversion", "absent"}
      PROVE  S(do, 0) \in Outer
  BY <1>1, <1>2 DEF S, Steps, Outer, Open
<1>3. ASSUME NEW e \in Outer PROVE Leave(e) \in Outer /\ GoOn(e) \in Outer
  BY <1>3 DEF Outer, Leave, GoOn, Steps, Everything
<1> QED
  BY <1>2, <1>3 DEF Refused, Return, Check, Done

LEMMA OuterFlows ==
  ASSUME NEW e \in Outer, NEW z \in Phases, e.do = "done" \/ z = "out"
  PROVE  << e >> \in Seq(Steps) /\ Flows(<< e >>, "out", z)
<1>1. e \in Steps /\ << e >> \in Seq(Steps) /\ Len(<< e >>) = 1 /\ << e >>[1] = e
  BY DEF Outer
<1>2. PICK s \in Seq(Steps) : s = << e >> /\ Len(s) = 1 /\ s[1] = e
  BY <1>1
<1> DEFINE k == [i \in 1..2 |-> IF i = 1 THEN "out" ELSE z]
<1>3. k \in [1..2 -> Phases] /\ k[1] = "out" /\ k[2] = z
  BY DEF Phases
<1> HIDE DEF k
<1>4. Phased(e, "out", z) /\ Left(e, "out") = "out"
  BY DEF Phased, Left, Outer, EepromSteps, PinSteps, AcquireSteps, SelectSteps
<1>5. \/ Far(e) = Everything
      \/ Far(e) # Everything /\ Lands(e, 1) = 2 /\ z = "out"
  <2>1. CASE e.do = "done"
    BY <2>1 DEF Far
  <2>2. CASE e.do # "done"
    <3>1. Far(e) = e.skip /\ e.skip \in {Open, 0, Everything}
      BY <2>2 DEF Far, Outer
    <3> QED
      BY <2>2, <3>1 DEF Lands, Open, Everything
  <2> QED
    BY <2>1, <2>2
<1>6. \A i \in 1..1 : i = 1 /\ i + 1 = 2
  OBVIOUS
<1>7. Labels(s, k)
  BY <1>2, <1>3, <1>4, <1>5, <1>6 DEF Labels
<1> QED
  BY <1>2, <1>3, <1>7 DEF Flows

LEMMA EmptyFlows == << >> \in Seq(Steps) /\ \A z \in Phases : Flows(<< >>, z, z)
<1> SUFFICES ASSUME NEW z \in Phases PROVE Flows(<< >>, z, z)
  OBVIOUS
<1>0. << >> \in Seq(Steps) /\ Len(<< >>) = 0
  OBVIOUS
<1>1. PICK s \in Seq(Steps) : s = << >> /\ Len(s) = 0
  BY <1>0
<1> DEFINE k == [i \in 1..1 |-> z]
<1>2. k \in [1..1 -> Phases] /\ k[1] = z
  OBVIOUS
<1> HIDE DEF k
<1>3. Labels(s, k)
  BY <1>1, <1>2 DEF Labels
<1> QED
  BY <1>1, <1>2, <1>3 DEF Flows

LEMMA QuietFlows ==
  ASSUME NEW s, NEW a, NEW z, Flows(s, a, z)
  PROVE  Quiet(s) \in Seq(Steps) /\ Flows(Quiet(s), a, z)
<1>1. s \in Seq(Steps) /\ Len(s) \in Nat /\ DOMAIN s = 1..Len(s)
  BY LenProperties DEF Flows
<1> DEFINE e(i) == [s[i] EXCEPT !.quiet = TRUE]
<1>2. Quiet(s) = [i \in 1..Len(s) |-> e(i)]
  BY <1>1 DEF Quiet
<1>3. ASSUME NEW i \in 1..Len(s)
      PROVE  e(i) \in Steps /\ e(i).do = s[i].do /\ e(i).n = s[i].n /\ e(i).skip = s[i].skip
  <2>1. s[i] \in Steps
    BY <1>1
  <2> QED
    BY <2>1 DEF Steps
<1> HIDE DEF e
<1>4. PICK q : q = Quiet(s)
  OBVIOUS
<1>5. q \in Seq(Steps) /\ Len(q) = Len(s) /\ \A i \in 1..Len(s) : q[i] = e(i)
  <2>1. q \in Seq(Steps)
    BY <1>1, <1>2, <1>3, <1>4, IsASeq
  <2> QED
    BY <1>1, <1>2, <1>4, <2>1
<1>6. PICK lab : Labels(s, lab) /\ lab[1] = a /\ lab[Len(s) + 1] = z
  BY DEF Flows
<1>7. ASSUME NEW i \in 1..Len(s)
      PROVE  /\ Phased(q[i], lab[i], lab[i + 1])
             /\ Leaving(q[i]) =>
                  \/ Far(q[i]) = Everything /\ Left(q[i], lab[i]) = "out"
                  \/ /\ Far(q[i]) # Everything /\ Lands(q[i], i) <= Len(s) + 1
                     /\ lab[Lands(q[i], i)] = Left(q[i], lab[i])
  <2>1. /\ Phased(s[i], lab[i], lab[i + 1])
        /\ Leaving(s[i]) =>
             \/ Far(s[i]) = Everything /\ Left(s[i], lab[i]) = "out"
             \/ /\ Far(s[i]) # Everything /\ Lands(s[i], i) <= Len(s) + 1
                /\ lab[Lands(s[i], i)] = Left(s[i], lab[i])
    BY <1>6 DEF Labels
  <2>2. q[i].do = s[i].do /\ q[i].n = s[i].n /\ q[i].skip = s[i].skip
    BY <1>3, <1>5
  <2>3. /\ Phased(q[i], lab[i], lab[i + 1]) <=> Phased(s[i], lab[i], lab[i + 1])
        /\ Leaving(q[i]) <=> Leaving(s[i])
        /\ Far(q[i]) = Far(s[i]) /\ Left(q[i], lab[i]) = Left(s[i], lab[i])
    BY <2>2 DEF Phased, Leaving, Leaks, Far, Left
  <2>4. Lands(q[i], i) = Lands(s[i], i)
    BY <2>3 DEF Lands
  <2> QED
    BY <2>1, <2>3, <2>4
<1>8. Labels(q, lab)
  BY <1>5, <1>6, <1>7 DEF Labels
<1> QED
  BY <1>4, <1>5, <1>6, <1>8 DEF Flows

(* A choice between two calls. *)
LEMMA ChooseFlows ==
  ASSUME NEW q \in Steps, q.do = "stray", NEW yes \in Calls, NEW no \in Calls
  PROVE  Choose(q, yes, no) \in Calls
<1>1. /\ yes \in Seq(Steps) /\ no \in Seq(Steps) /\ Len(yes) \in Nat /\ Len(no) \in Nat
  BY DEF Calls
<1>2. PICK l : Labels(yes, l) /\ l[1] = "out" /\ l[Len(yes) + 1] = "out"
  BY DEF Calls, Flows
<1>3. PICK m : Labels(no, m) /\ m[1] = "out" /\ m[Len(no) + 1] = "out"
  BY DEF Calls, Flows
<1>4. /\ l \in [1..(Len(yes) + 1) -> Phases] /\ m \in [1..(Len(no) + 1) -> Phases]
  BY <1>2, <1>3 DEF Labels
<1>5. PICK ask \in Steps : ask = [[q EXCEPT !.quiet = TRUE] EXCEPT !.skip = Len(yes) + 1]
                           /\ ask.do = "stray" /\ ask.skip = Len(yes) + 1
  <2>1. Len(yes) + 1 \in Int
    BY <1>1
  <2>2. PICK r \in Int : r = Len(yes) + 1
    BY <2>1
  <2>3. PICK w : w = [q EXCEPT !.quiet = TRUE]
    OBVIOUS
  <2>4. w \in Steps /\ w.do = "stray"
    BY <2>3 DEF Steps
  <2>5. PICK v : v = [w EXCEPT !.skip = r]
    OBVIOUS
  <2>6. v \in Steps /\ v.do = "stray" /\ v.skip = r
    BY <2>4, <2>5 DEF Steps
  <2>7. v = [[q EXCEPT !.quiet = TRUE] EXCEPT !.skip = Len(yes) + 1]
    BY <2>2, <2>3, <2>5
  <2> QED
    BY <2>2, <2>6, <2>7
<1>6. PICK hop \in Steps : hop = S("jump", Len(no)) /\ hop.do = "jump" /\ hop.n = Len(no)
  <2>1. "jump" \in Verbs /\ Len(no) \in Int
    BY <1>1 DEF Verbs
  <2>2. PICK n \in Int : n = Len(no)
    BY <2>1
  <2>3. S("jump", n) \in Steps /\ S("jump", n).do = "jump" /\ S("jump", n).n = n
    BY <2>1 DEF S, Steps, Open
  <2> QED
    BY <2>2, <2>3
<1>7. PICK x : x = << ask >> \o yes
  OBVIOUS
<1>8. /\ x \in Seq(Steps) /\ Len(x) = 1 + Len(yes) /\ x[1] = ask
      /\ \A i \in 1..Len(yes) : x[1 + i] = yes[i]
  <2>1. << ask >> \in Seq(Steps) /\ Len(<< ask >>) = 1 /\ << ask >>[1] = ask
    OBVIOUS
  <2>2. /\ << ask >> \o yes \in Seq(Steps) /\ Len(<< ask >> \o yes) = Len(<< ask >>) + Len(yes)
        /\ \A i \in 1..(Len(<< ask >>) + Len(yes)) :
             (<< ask >> \o yes)[i] = IF i <= Len(<< ask >>) THEN << ask >>[i] ELSE yes[i - Len(<< ask >>)]
    BY <1>1, <2>1, ConcatProperties
  <2>3. \A i \in 1..Len(yes) : 1 + i \in 1..(1 + Len(yes)) /\ ~(1 + i <= 1) /\ (1 + i) - 1 = i
    BY <1>1
  <2>4. 1 \in 1..(1 + Len(yes))
    BY <1>1
  <2> QED
    BY <1>1, <1>7, <2>1, <2>2, <2>3, <2>4
<1>9. PICK y : y = x \o << hop >>
  OBVIOUS
<1>10. /\ y \in Seq(Steps) /\ Len(y) = Len(yes) + 2 /\ y[1] = ask
       /\ \A i \in 1..Len(yes) : y[1 + i] = yes[i]
       /\ y[Len(yes) + 2] = hop
  <2>1. << hop >> \in Seq(Steps) /\ Len(<< hop >>) = 1 /\ << hop >>[1] = hop
    OBVIOUS
  <2>2. /\ x \o << hop >> \in Seq(Steps) /\ Len(x \o << hop >>) = Len(x) + Len(<< hop >>)
        /\ \A i \in 1..(Len(x) + Len(<< hop >>)) :
             (x \o << hop >>)[i] = IF i <= Len(x) THEN x[i] ELSE << hop >>[i - Len(x)]
    BY <1>8, <2>1, ConcatProperties
  <2>3. \A i \in 1..Len(yes) : 1 + i \in 1..(Len(x) + 1) /\ 1 + i <= Len(x)
    BY <1>1, <1>8
  <2>4. /\ 1 \in 1..(Len(x) + 1) /\ 1 <= Len(x)
        /\ Len(yes) + 2 \in 1..(Len(x) + 1) /\ ~(Len(yes) + 2 <= Len(x)) /\ (Len(yes) + 2) - Len(x) = 1
    BY <1>1, <1>8
  <2> QED
    BY <1>1, <1>8, <1>9, <2>1, <2>2, <2>3, <2>4
<1>11. PICK s : s = y \o no
  OBVIOUS
<1>12. /\ s \in Seq(Steps) /\ Len(s) = Len(yes) + Len(no) + 2 /\ s[1] = ask
       /\ \A i \in 1..Len(yes) : s[1 + i] = yes[i]
       /\ s[Len(yes) + 2] = hop
       /\ \A i \in 1..Len(no) : s[Len(yes) + 2 + i] = no[i]
  <2>1. /\ y \o no \in Seq(Steps) /\ Len(y \o no) = Len(y) + Len(no)
        /\ \A i \in 1..(Len(y) + Len(no)) : (y \o no)[i] = IF i <= Len(y) THEN y[i] ELSE no[i - Len(y)]
    BY <1>1, <1>10, ConcatProperties
  <2>2. \A i \in 1..(Len(yes) + 2) : i \in 1..(Len(y) + Len(no)) /\ i <= Len(y)
    BY <1>1, <1>10
  <2>3. \A i \in 1..(Len(yes) + 2) : s[i] = y[i]
    BY <1>11, <2>1, <2>2
  <2>4. \A i \in 1..Len(yes) : 1 + i \in 1..(Len(yes) + 2)
    BY <1>1
  <2>5. 1 \in 1..(Len(yes) + 2) /\ Len(yes) + 2 \in 1..(Len(yes) + 2)
    BY <1>1
  <2>6. \A i \in 1..Len(no) : /\ Len(yes) + 2 + i \in 1..(Len(y) + Len(no))
                              /\ ~(Len(yes) + 2 + i <= Len(y)) /\ (Len(yes) + 2 + i) - Len(y) = i
    BY <1>1, <1>10
  <2> QED
    BY <1>1, <1>10, <1>11, <2>1, <2>3, <2>4, <2>5, <2>6
<1>13. Choose(q, yes, no) = s
  BY <1>5, <1>6, <1>7, <1>9, <1>11 DEF Choose, Branch
<1> DEFINE N == Len(yes)
           M == Len(no)
           k == [i \in 1..(N + M + 3) |->
                   IF i = 1 THEN "out" ELSE IF i <= N + 2 THEN l[i - 1] ELSE m[i - (N + 2)]]
<1>14. N \in Nat /\ M \in Nat
  BY <1>1
<1>15. /\ k \in [1..(N + M + 3) -> Phases] /\ k[1] = "out"
       /\ \A i \in 1..(N + 1) : k[1 + i] = l[i]
       /\ \A i \in 1..(M + 1) : k[N + 2 + i] = m[i]
  BY <1>4, <1>14 DEF Phases
<1> HIDE DEF k
<1>16. k[2] = "out" /\ k[N + 2] = "out" /\ k[N + 3] = "out" /\ k[N + M + 3] = "out"
  <2>1. 1 \in 1..(N + 1) /\ N + 1 \in 1..(N + 1) /\ 1 \in 1..(M + 1) /\ M + 1 \in 1..(M + 1)
    BY <1>14
  <2>2. k[1 + 1] = l[1] /\ k[1 + (N + 1)] = l[N + 1] /\ k[N + 2 + 1] = m[1] /\ k[N + 2 + (M + 1)] = m[M + 1]
    BY <1>15, <2>1
  <2>3. 1 + 1 = 2 /\ 1 + (N + 1) = N + 2 /\ N + 2 + 1 = N + 3 /\ N + 2 + (M + 1) = N + M + 3
    BY <1>14
  <2> QED
    BY <1>2, <1>3, <2>2, <2>3
<1>17. ASSUME NEW i \in 1..(N + M + 2)
       PROVE  /\ Phased(s[i], k[i], k[i + 1])
              /\ Leaving(s[i]) =>
                   \/ Far(s[i]) = Everything /\ Left(s[i], k[i]) = "out"
                   \/ /\ Far(s[i]) # Everything /\ Lands(s[i], i) <= N + M + 2 + 1
                      /\ k[Lands(s[i], i)] = Left(s[i], k[i])
  <2>1. i = 1 \/ (\E j \in 1..N : i = 1 + j) \/ i = N + 2 \/ (\E j \in 1..M : i = N + 2 + j)
    <3>1. i = 1 \/ i - 1 \in 1..N \/ i = N + 2 \/ i - (N + 2) \in 1..M
      BY <1>14
    <3>2. i = 1 + (i - 1) /\ i = N + 2 + (i - (N + 2))
      BY <1>14
    <3> HIDE DEF N, M
    <3> QED
      BY <3>1, <3>2
  <2>2. CASE i = 1
    <3>1. Phased(ask, "out", "out") /\ Left(ask, "out") = "out" /\ Far(ask) = N + 1
      BY <1>5 DEF Phased, Left, Far, EepromSteps, PinSteps, AcquireSteps, SelectSteps
    <3>2. Lands(ask, 1) = N + 3 /\ Far(ask) # Everything
      BY <1>14, <3>1 DEF Lands, Everything
    <3>3. N + 3 <= N + M + 2 + 1
      BY <1>14
    <3>4. i + 1 = 2
      BY <2>2
    <3> QED
      BY <1>12, <1>15, <1>16, <2>2, <3>1, <3>2, <3>3, <3>4
  <2>3. ASSUME NEW j \in 1..N, i = 1 + j
        PROVE  /\ Phased(s[i], k[i], k[i + 1])
               /\ Leaving(s[i]) =>
                    \/ Far(s[i]) = Everything /\ Left(s[i], k[i]) = "out"
                    \/ /\ Far(s[i]) # Everything /\ Lands(s[i], i) <= N + M + 2 + 1
                       /\ k[Lands(s[i], i)] = Left(s[i], k[i])
    <3>1. s[i] = yes[j] /\ yes[j] \in Steps
      BY <1>1, <1>12, <2>3
    <3>2. k[i] = l[j] /\ k[i + 1] = l[j + 1]
      <4>1. j \in 1..(N + 1) /\ j + 1 \in 1..(N + 1) /\ i + 1 = 1 + (j + 1)
        BY <1>14, <2>3
      <4> QED
        BY <1>15, <2>3, <4>1
    <3>3. /\ Phased(yes[j], l[j], l[j + 1])
          /\ Leaving(yes[j]) =>
               \/ Far(yes[j]) = Everything /\ Left(yes[j], l[j]) = "out"
               \/ /\ Far(yes[j]) # Everything /\ Lands(yes[j], j) <= N + 1
                  /\ l[Lands(yes[j], j)] = Left(yes[j], l[j])
      BY <1>2 DEF Labels
    <3>4. PICK r \in Nat : \A v \in Int : Lands(yes[j], v) = v + 1 + r
      BY <3>1, LandsForm
    <3>5. i \in Int /\ j \in Int /\ j >= 1
      BY <1>14
    <3>6. Lands(yes[j], i) = i + 1 + r /\ Lands(yes[j], j) = j + 1 + r
      BY <3>4, <3>5
    <3>7. Lands(yes[j], j) <= N + 1 =>
            Lands(yes[j], i) <= N + M + 2 + 1 /\ k[Lands(yes[j], i)] = l[Lands(yes[j], j)]
      <4> SUFFICES ASSUME Lands(yes[j], j) <= N + 1
                   PROVE  Lands(yes[j], i) <= N + M + 2 + 1 /\ k[Lands(yes[j], i)] = l[Lands(yes[j], j)]
        OBVIOUS
      <4>1. Lands(yes[j], j) \in 1..(N + 1) /\ Lands(yes[j], i) = 1 + Lands(yes[j], j)
        BY <1>14, <2>3, <3>4, <3>5, <3>6
      <4> QED
        BY <1>14, <1>15, <4>1
    <3> QED
      BY <3>1, <3>2, <3>3, <3>7
  <2>4. CASE i = N + 2
    <3>1. Phased(hop, "out", "out") /\ Left(hop, "out") = "out" /\ Far(hop) = M
      BY <1>6 DEF Phased, Left, Far, EepromSteps, PinSteps, AcquireSteps, SelectSteps
    <3>2. Lands(hop, i) = N + M + 3 /\ Far(hop) # Everything
      <4>1. PICK r \in Nat : r = M
        BY <1>14
      <4>2. Far(hop) = r
        BY <3>1, <4>1
      <4>3. Lands(hop, i) = i + 1 + r
        BY <1>14, <4>2 DEF Lands
      <4>4. r # Everything
        BY DEF Everything
      <4> QED
        BY <1>14, <2>4, <4>1, <4>2, <4>3, <4>4
    <3>3. N + M + 3 <= N + M + 2 + 1
      BY <1>14
    <3>4. i + 1 = N + 3 /\ s[i] = hop
      BY <1>12, <1>14, <2>4
    <3> QED
      BY <1>16, <2>4, <3>1, <3>2, <3>3, <3>4
  <2>5. ASSUME NEW j \in 1..M, i = N + 2 + j
        PROVE  /\ Phased(s[i], k[i], k[i + 1])
               /\ Leaving(s[i]) =>
                    \/ Far(s[i]) = Everything /\ Left(s[i], k[i]) = "out"
                    \/ /\ Far(s[i]) # Everything /\ Lands(s[i], i) <= N + M + 2 + 1
                       /\ k[Lands(s[i], i)] = Left(s[i], k[i])
    <3>1. s[i] = no[j] /\ no[j] \in Steps
      BY <1>1, <1>12, <2>5
    <3>2. k[i] = m[j] /\ k[i + 1] = m[j + 1]
      <4>1. j \in 1..(M + 1) /\ j + 1 \in 1..(M + 1) /\ i + 1 = N + 2 + (j + 1)
        BY <1>14, <2>5
      <4> QED
        BY <1>15, <2>5, <4>1
    <3>3. /\ Phased(no[j], m[j], m[j + 1])
          /\ Leaving(no[j]) =>
               \/ Far(no[j]) = Everything /\ Left(no[j], m[j]) = "out"
               \/ /\ Far(no[j]) # Everything /\ Lands(no[j], j) <= M + 1
                  /\ m[Lands(no[j], j)] = Left(no[j], m[j])
      BY <1>3 DEF Labels
    <3>4. PICK r \in Nat : \A v \in Int : Lands(no[j], v) = v + 1 + r
      BY <3>1, LandsForm
    <3>5. i \in Int /\ j \in Int /\ j >= 1
      BY <1>14
    <3>6. Lands(no[j], i) = i + 1 + r /\ Lands(no[j], j) = j + 1 + r
      BY <3>4, <3>5
    <3>7. Lands(no[j], j) <= M + 1 =>
            Lands(no[j], i) <= N + M + 2 + 1 /\ k[Lands(no[j], i)] = m[Lands(no[j], j)]
      <4> SUFFICES ASSUME Lands(no[j], j) <= M + 1
                   PROVE  Lands(no[j], i) <= N + M + 2 + 1 /\ k[Lands(no[j], i)] = m[Lands(no[j], j)]
        OBVIOUS
      <4>1. Lands(no[j], j) \in 1..(M + 1) /\ Lands(no[j], i) = N + 2 + Lands(no[j], j)
        BY <1>14, <2>5, <3>4, <3>5, <3>6
      <4> QED
        BY <1>14, <1>15, <4>1
    <3> QED
      BY <3>1, <3>2, <3>3, <3>7
  <2> QED
    BY <2>1, <2>2, <2>3, <2>4, <2>5
<1>18. Labels(s, k) /\ k[Len(s) + 1] = "out"
  <2>1. Len(s) = N + M + 2 /\ Len(s) + 1 = N + M + 3 /\ N + M + 2 + 1 = N + M + 3
    BY <1>12, <1>14
  <2> QED
    BY <1>12, <1>15, <1>16, <1>17, <2>1 DEF Labels
<1> QED
  BY <1>12, <1>13, <1>15, <1>18 DEF Calls, Flows

(* What calls are made of. *)
LEMMA CallsClosed ==
  /\ << >> \in Calls
  /\ \A e \in Outer : << e >> \in Calls
  /\ \A s, u \in Calls : s \o u \in Calls
  /\ \A s \in Calls : Quiet(s) \in Calls
  /\ \A b \in Bodies : Qsfp(b) \in Calls /\ Sfp(b) \in Calls /\ OrLeave(Qsfp(b)) \in Calls
  /\ \A b \in PinBodies : Pins(b) \in Calls
<1>1. "out" \in Phases
  BY DEF Phases
<1>2. << >> \in Calls
  BY <1>1, EmptyFlows DEF Calls
<1>3. \A e \in Outer : << e >> \in Calls
  BY <1>1, OuterFlows DEF Calls
<1>4. ASSUME NEW s \in Calls, NEW u \in Calls PROVE s \o u \in Calls
  <2>1. Flows(s \o u, "out", "out")
    BY FlowsCat DEF Calls
  <2> QED
    BY <2>1 DEF Calls, Flows
<1>5. \A s \in Calls : Quiet(s) \in Calls
  BY QuietFlows DEF Calls
<1>6. ASSUME NEW b \in Bodies PROVE Qsfp(b) \in Calls /\ Sfp(b) \in Calls /\ OrLeave(Qsfp(b)) \in Calls
  <2>1. PICK s : s = Qsfp(b)
    OBVIOUS
  <2>2. s = Around(QsfpSelect, b, QsfpDeselect) /\ s = Sfp(b)
    BY <2>1, SfpAround
  <2>3. b \in Seq(Steps) /\ Flows(b, "in", "in")
    BY InnerFlows DEF Bodies
  <2>4. Section(s, b) /\ Section(OrLeave(s), b)
    BY <2>2, <2>3, AroundSection
  <2>5. Flows(s, "out", "out") /\ Flows(OrLeave(s), "out", "out")
    BY <2>3, <2>4, SectionFlows
  <2> QED
    BY <2>1, <2>2, <2>5 DEF Calls, Flows
<1>7. ASSUME NEW b \in PinBodies PROVE Pins(b) \in Calls
  <2>1. Flows(Pins(b), "out", "out")
    BY PinsShape, PinFlows
  <2> QED
    BY <2>1 DEF Calls, Flows
<1> QED
  BY <1>2, <1>3, <1>4, <1>5, <1>6, <1>7

--------------------------------------------------------------------------------
(* The helpers that run inside a section. *)
LEMMA Pages4 == Pages \subseteq Int /\ {0, 2, 3, 16} \subseteq Pages
BY PlatformAssumption DEF Pages, Ignore, Invalid

LEMMA PhyBodies ==
  /\ PhySwReset \in Bodies
  /\ \A up \in BOOLEAN : CusfpPhyAutonegSet(up) \in Bodies /\ CusfpPhyModeSet(up) \in Bodies
  /\ CusfpPhySpeedSet \in Bodies /\ CusfpPhyLinkStatusGet \in Bodies
  /\ \A down, change \in BOOLEAN : CusfpPhyPowerDownEnable(down, change) \in Bodies
  /\ \A enable : CusfpPhySerdesControl(enable) \in Bodies
<1>1. PhyWrite \in Bodies /\ PhyRead \in Bodies
  BY PlainSteps, Closed DEF PhyWrite, PhyRead
<1>2. PhySwReset \in Bodies
  BY <1>1, PlainSteps, Closed DEF PhySwReset
<1>3. \A up \in BOOLEAN : CusfpPhyAutonegSet(up) \in Bodies /\ CusfpPhyModeSet(up) \in Bodies
  BY <1>1, <1>2, Closed DEF CusfpPhyAutonegSet, CusfpPhyModeSet
<1>4. CusfpPhySpeedSet \in Bodies /\ CusfpPhyLinkStatusGet \in Bodies
  BY <1>1, Closed DEF CusfpPhySpeedSet, CusfpPhyLinkStatusGet
<1>5. ASSUME NEW down \in BOOLEAN, NEW change \in BOOLEAN
      PROVE  CusfpPhyPowerDownEnable(down, change) \in Bodies
  <2>1. Quiet(<< GoOn(Read(Lower)), GoOn(Write(Lower)) >>) \in Bodies
    BY PlainSteps, Closed
  <2>2. If(down, PhyWrite \o Quiet(<< GoOn(Read(Lower)), GoOn(Write(Lower)) >>)) \in Bodies
    BY <1>1, <2>1, Closed
  <2>3. PhyRead \o PhyRead \in Bodies /\ If(change, PhyWrite) \in Bodies
    BY <1>1, Closed
  <2> QED
    BY <2>2, <2>3, Closed DEF CusfpPhyPowerDownEnable
<1>6. \A enable : CusfpPhySerdesControl(enable) \in Bodies
  BY <1>1, Closed DEF CusfpPhySerdesControl
<1> QED
  BY <1>2, <1>3, <1>4, <1>5, <1>6

LEMMA OperBodies ==
  ASSUME NEW f, NEW command \in Bodies, NEW data \in Bodies
  PROVE  PerformOper(f, command, data) \in Bodies
<1>1. ReadGenericA2 \in Bodies /\ WriteGenericA2 \in Bodies
  BY PlainSteps, Closed DEF ReadGenericA2, WriteGenericA2
<1>2. If("busy" \notin f, data) \in Bodies
  BY Closed
<1>3. (IF "busy" \in f THEN WriteGenericA2 ELSE command) \in Bodies
  BY <1>1
<1> QED
  BY <1>1, <1>2, <1>3, Closed DEF PerformOper

LEMMA SerdesSigned == Serdes \in Signed /\ -Serdes \in Signed
BY DEF Signed, Lanes, Serdes

LEMMA AqBodies ==
  ASSUME NEW f
  PROVE  /\ \A same \in BOOLEAN : CusfpPlusPhySpeedSet(f, same) \in Bodies
         /\ CusfpPlusPhyLinkStatusGet(f) \in Bodies
         /\ \A enable \in BOOLEAN : CusfpPlusPhySerdesControl(f, enable) \in Bodies
<1>1. ReadGenericA2 \in Bodies /\ WriteGenericA2 \in Bodies /\ << >> \in Bodies
  BY PlainSteps, Closed DEF ReadGenericA2, WriteGenericA2
<1>2. AqRead(f) \in Bodies /\ AqWrite(f) \in Bodies
  BY <1>1, OperBodies DEF AqRead, AqWrite, ExtModCtrlChainOper
<1>3. AqRateSetPackets(f) \in Bodies
  BY <1>2, Closed DEF AqRateSetPackets
<1>4. AqGetTxState(f) \in Bodies
  <2>1. << S("readserdes", Lower) >> \in Bodies
    BY PlainSteps, Closed
  <2> QED
    BY <1>1, <2>1, OperBodies DEF AqGetTxState, ExtModCtrlChainOper
<1>5. ASSUME NEW on \in BOOLEAN PROVE AqSetTxState(f, on) \in Bodies
  <2>1. PICK n \in Signed : n = IF on THEN Serdes ELSE -Serdes
    BY SerdesSigned
  <2>2. << S("writetx", n) >> \in Bodies
    BY PlainSteps, Closed
  <2>3. PerformOper(f, << S("writetx", n) >>, << >>) \in Bodies
    BY <1>1, <2>2, OperBodies
  <2> QED
    BY <1>2, <2>1, <2>3, Closed DEF AqSetTxState, ExtModCtrlChainOper
<1>6. AqGetLineSideStatus(f) \in Bodies /\ AqGetSystemSideStatus(f) \in Bodies
  <2>1. If("oddrate" \in f, << Refused >>) \in Bodies
    BY PlainSteps, Closed DEF If
  <2> QED
    BY <1>2, <2>1, Closed DEF AqGetLineSideStatus, AqGetSystemSideStatus
<1>7. ASSUME NEW same \in BOOLEAN PROVE CusfpPlusPhySpeedSet(f, same) \in Bodies
  <2>1. << S("wason", 0) >> \in Bodies
    BY PlainSteps, Closed
  <2>2. AqGetTxState(f) \o AqSetTxState(f, FALSE) \o AqRateSetPackets(f) \o << S("wason", 0) >>
        \o AqSetTxState(f, TRUE) \in Bodies
    BY <1>3, <1>4, <1>5, <2>1, Closed
  <2>3. If(~same, AqGetTxState(f) \o AqSetTxState(f, FALSE) \o AqRateSetPackets(f) \o << S("wason", 0) >>
                  \o AqSetTxState(f, TRUE)) \in Bodies
    BY <2>2, Closed
  <2> QED
    BY <1>6, <2>3, Closed DEF CusfpPlusPhySpeedSet, AqSetRate, ExtModCtrlChainOper
<1>8. CusfpPlusPhyLinkStatusGet(f) \in Bodies
  BY <1>6, Closed DEF CusfpPlusPhyLinkStatusGet, AqGetLinkStatus
<1>9. ASSUME NEW enable \in BOOLEAN PROVE CusfpPlusPhySerdesControl(f, enable) \in Bodies
  <2>1. PICK n \in Signed : n = IF enable THEN Serdes ELSE -Serdes
    BY SerdesSigned
  <2>2. << S("asked", n) >> \in Bodies
    BY PlainSteps, Closed
  <2> QED
    BY <1>5, <2>1, <2>2, Closed DEF CusfpPlusPhySerdesControl
<1> QED
  BY <1>7, <1>8, <1>9

LEMMA AqChoice ==
  ASSUME NEW f, NEW yes \in Bodies, NEW no \in Bodies
  PROVE  OnAqExtModCtrl(f, yes, no) \in Bodies
<1>1. Read(Lower) \in Plain /\ Read(Lower).do \in EepromSteps
  BY PlainSteps DEF Read, S, EepromSteps
<1>2. Choose(Read(Lower), yes, no) \in Bodies
  BY <1>1, BodiesChoose
<1>3. Quiet(<< GoOn(Read(Lower)) >>) \o no \in Bodies
  BY PlainSteps, Closed
<1> QED
  BY <1>2, <1>3 DEF OnAqExtModCtrl

LEMMA PageBodies ==
  ASSUME NEW f
  PROVE  /\ \A n \in Pages : PageSelect(n, f) \in Bodies
         /\ DefaultPageIfPaged(f) \in Bodies
         /\ IsSoftwareControlledPowerModeSupported(f) \in Bodies
         /\ DatapathPowerUp(f) \in Bodies /\ \E b \in Bodies : DatapathPowerUp(f) = Block(b)
<1>1. ASSUME NEW n \in Pages PROVE PageSelect(n, f) \in Bodies
  BY Pages4, PlainSteps, Closed DEF PageSelect
<1>2. PageSelect(0, f) \in Bodies
  BY <1>1, Pages4
<1>3. DefaultPageIfPaged(f) \in Bodies
  BY <1>2, PlainSteps, Closed DEF DefaultPageIfPaged, IsPagingSupported
<1>4. IsSoftwareControlledPowerModeSupported(f) \in Bodies
  BY <1>3, PlainSteps, Closed DEF IsSoftwareControlledPowerModeSupported
<1>5. DatapathPowerUp(f) \in Bodies /\ \E b \in Bodies : DatapathPowerUp(f) = Block(b)
  <2>1. ASSUME NEW n \in Pages PROVE DatapathPower(n, f) \in Bodies
    <3>1. n \in Int /\ PageSelect(n, f) \in Bodies
      BY <1>1, Pages4
    <3>2. << GoOn(Write(n)), GoOn(Read(n)) >> \in Bodies
      BY <3>1, PlainSteps, Closed
    <3>3. Quiet(PageSelect(n, f)) \o << GoOn(Write(n)), GoOn(Read(n)) >> \o Quiet(PageSelect(0, f)) \in Bodies
      BY <1>2, <3>1, <3>2, Closed
    <3> QED
      BY <3>3, Closed DEF DatapathPower
  <2>2. PICK n \in Pages : n = IF "ver3" \in f THEN 16 ELSE 0
    BY Pages4
  <2>3. PICK yes \in Bodies : yes = << GoOn(Read(Lower)) >> \o DatapathPower(n, f)
    BY <2>1, PlainSteps, Closed
  <2>4. /\ S("learnversion", Lower) \in Plain /\ S("learnversion", Lower).do \in EepromSteps
        /\ Read(Lower) \in Plain /\ Read(Lower).do \in EepromSteps
    BY PlainMade, PlainSteps DEF S, Read, EepromSteps, Lower
  <2>5. PICK no \in Bodies : no = Branch(Read(Lower), DatapathPower(0, f), << >>)
    BY <2>1, <2>4, Pages4, Bodies0, BodiesBranch
  <2>6. Branch(S("learnversion", Lower), yes, no) \in Bodies
    BY <2>4, BodiesBranch
  <2> QED
    BY <2>2, <2>3, <2>5, <2>6, Closed DEF DatapathPowerUp
<1> QED
  BY <1>1, <1>3, <1>4, <1>5

--------------------------------------------------------------------------------
(* Every operation of the QSFP driver gives back what it takes. *)
LEMMA LaneSigned == \A ch \in 0..7 : \A on : Lane(ch, on) \in Signed
<1> SUFFICES ASSUME NEW ch \in 0..7, NEW on PROVE Lane(ch, on) \in Signed
  OBVIOUS
<1>1. ch + 1 \in Lanes
  BY DEF Lanes
<1> QED
  BY <1>1 DEF Lane, Signed

LEMMA ValidChannels == \A ch \in Nat : \A d : ValidateChannel(ch, d) => ch \in 0..7
BY DEF ValidateChannel

LEMMA RefuseCalls == Refuse \in Calls
BY OuterSteps, CallsClosed DEF Refuse

LEMMA QsfpCalls1 ==
  ASSUME NEW d, NEW f, NEW ch \in Nat, NEW on, NEW k, NEW flags
  PROVE  /\ MediaMaxPowerGet(d) \in Calls
         /\ \A high \in Int : MediaForcePowerModeSet(d, f, high) \in Calls
         /\ ModuleReset(on) \in Calls
         /\ ModuleMonitorStatusGet(flags) \in Calls
         /\ ChannelMonitorStatusGet(d, ch, flags) \in Calls
         /\ ChannelStatusGet(d, ch, flags) \in Calls
         /\ TxControl(d, f, ch, on) \in Calls
         /\ TxControlStatusGet(d, ch) \in Calls
         /\ CdrStatusSet(d, f, ch) \in Calls /\ CdrStatusGet(d, f, ch) \in Calls
<1>1. MediaMaxPowerGet(d) \in Calls
  <2>1. << Leave(S("learnpower", 0)) >> \in Bodies
    BY PlainSteps, Closed
  <2>2. << S("forgetpower", 0) >> \in Calls
    BY OuterSteps, CallsClosed
  <2> QED
    BY <2>1, <2>2, RefuseCalls, CallsClosed DEF MediaMaxPowerGet
<1>2. ASSUME NEW high \in Int PROVE MediaForcePowerModeSet(d, f, high) \in Calls
  <2>1. (IF "soft" \in f THEN << Read(Lower), S("power", high) >> ELSE << Refused >>) \in Bodies
    BY PlainSteps, Closed
  <2>2. << Check >> \in Bodies /\ IsSoftwareControlledPowerModeSupported(f) \in Bodies
    BY PlainSteps, Closed, PageBodies
  <2>3. Block(IsSoftwareControlledPowerModeSupported(f) \o << Check >> \o
              IF "soft" \in f THEN << Read(Lower), S("power", high) >> ELSE << Refused >>) \in Bodies
    BY <2>1, <2>2, Closed
  <2> QED
    BY <2>3, RefuseCalls, CallsClosed DEF MediaForcePowerModeSet
<1>3. ModuleReset(on) \in Calls
  <2>1. << PinRead, PinWrite(IF on THEN 1 ELSE 2) >> \in PinBodies
    BY PinPlainSteps, PinClosed
  <2> QED
    BY <2>1, CallsClosed DEF ModuleReset
<1>4. ModuleMonitorStatusGet(flags) \in Calls
  <2>1. If("temp" \in flags, << Read(Lower) >>) \in Bodies /\ If("volt" \in flags, << Read(Lower) >>) \in Bodies
    BY PlainSteps, Closed DEF If
  <2> QED
    BY <2>1, Closed, CallsClosed DEF ModuleMonitorStatusGet
<1>5. ChannelMonitorStatusGet(d, ch, flags) \in Calls
  <2>1. If("rx" \in flags, << Read(Lower) >>) \in Bodies /\ If("bias" \in flags, << Read(Lower) >>) \in Bodies
    BY PlainSteps, Closed DEF If
  <2> QED
    BY <2>1, RefuseCalls, Closed, CallsClosed DEF ChannelMonitorStatusGet
<1>6. ChannelStatusGet(d, ch, flags) \in Calls
  <2>1. << >> \in Bodies /\ << Read(Lower) >> \in Bodies
    BY PlainSteps, Closed
  <2>2. (IF d.dd THEN If("txlos" \in flags, << Read(Lower) >>) \o If("rxlos" \in flags, << Read(Lower) >>)
         ELSE If(flags \cap {"txlos", "rxlos"} # {}, << Read(Lower) >>)) \in Bodies
    BY <2>1, BodiesCat DEF If
  <2>3. /\ If("disable" \in flags, << Read(Lower) >>) \in Bodies
        /\ If("fault" \in flags, << Read(Lower) >>) \in Bodies
    BY <2>1 DEF If
  <2> QED
    BY <2>2, <2>3, RefuseCalls, Closed, CallsClosed DEF ChannelStatusGet
<1>7. TxControl(d, f, ch, on) \in Calls
  <2>1. CASE ValidateChannel(ch, d)
    <3>1. PICK n \in Signed : n = Lane(ch, on)
      BY <2>1, ValidChannels, LaneSigned
    <3>2. Block(IsTxControlSupported \o
                IF "tx" \in f THEN << S("readtx", Lower), S("writetx", n), S("asked", n) >>
                ELSE << Refused >>) \in Bodies
      BY PlainSteps, Closed DEF IsTxControlSupported
    <3> QED
      BY <2>1, <3>1, <3>2, CallsClosed DEF TxControl
  <2>2. CASE ~ValidateChannel(ch, d)
    BY <2>2, RefuseCalls DEF TxControl
  <2> QED
    BY <2>1, <2>2
<1>8. TxControlStatusGet(d, ch) \in Calls
  BY PlainSteps, RefuseCalls, Closed, CallsClosed DEF TxControlStatusGet
<1>9. CdrStatusSet(d, f, ch) \in Calls
  <2>1. << Read(Lower), GoOn(Write(Lower)), Read(Lower), Write(Lower) >> \in Bodies
    BY PlainSteps, Bodies4
  <2>2. << Refused >> \in Bodies /\ << Read(Lower), Write(Lower) >> \in Bodies /\ IsCdrControlSupported \in Bodies
    BY PlainSteps, Closed DEF IsCdrControlSupported
  <2>3. \A b \in Bodies : Qsfp(Block(IsCdrControlSupported \o b)) \in Calls
    BY <2>2, Closed, CallsClosed
  <2> QED
    BY <2>1, <2>2, <2>3, RefuseCalls DEF CdrStatusSet
<1>10. CdrStatusGet(d, f, ch) \in Calls
  <2>1. << GoOn(Read(Lower)), Read(Lower) >> \in Bodies
    BY PlainSteps, Closed
  <2>2. << Refused >> \in Bodies /\ << Read(Lower) >> \in Bodies /\ IsCdrControlSupported \in Bodies
    BY PlainSteps, Closed DEF IsCdrControlSupported
  <2>3. \A b \in Bodies : Qsfp(Block(IsCdrControlSupported \o b)) \in Calls
    BY <2>2, Closed, CallsClosed
  <2> QED
    BY <2>1, <2>2, <2>3, RefuseCalls DEF CdrStatusGet
<1> QED
  BY <1>1, <1>2, <1>3, <1>4, <1>5, <1>6, <1>7, <1>8, <1>9, <1>10

LEMMA QsfpCalls2 ==
  ASSUME NEW d, NEW f, NEW ch \in Nat, NEW k, NEW seen, NEW flags
  PROVE  /\ SpeedGet \in Calls /\ ParameterGet(d, k) \in Calls
         /\ VendorInfoGet \in Calls /\ TransceiverCodeGet \in Calls
         /\ ThresholdGet(d, f, seen) \in Calls /\ MonitorThresholdGet \in Calls
         /\ ModuleMonitorGet(seen) \in Calls
         /\ ChannelMonitorGet(d, ch, k) \in Calls
         /\ FeatureSupportStatusGet(f) \in Calls
         /\ ExtRateSelect(d, ch, flags) \in Calls
         /\ QsaAdapterTypeGet(d) \in Calls
         /\ PresenceGet \in Calls
         /\ ModuleControlStatusGet(d, k) \in Calls
<1>1. SpeedGet \in Calls /\ MonitorThresholdGet \in Calls
  BY CallsClosed DEF SpeedGet, MonitorThresholdGet
<1>2. ParameterGet(d, k) \in Calls
  <2>1. /\ If(d.ver >= 3 /\ k = "length", << Read(Lower) >>) \in Bodies
        /\ << Read(0) >> \in Bodies
    BY PlainSteps, Closed DEF If
  <2> QED
    BY <2>1, RefuseCalls, Closed, CallsClosed DEF ParameterGet
<1>3. VendorInfoGet \in Calls /\ TransceiverCodeGet \in Calls
  BY PlainSteps, Closed, CallsClosed DEF VendorInfoGet, TransceiverCodeGet
<1>4. ThresholdGet(d, f, seen) \in Calls
  <2>1. PICK n \in Pages : n = IF d.ver >= 3 THEN 2 ELSE 3
    BY Pages4
  <2>2. n \in Int /\ PageSelect(n, f) \in Bodies /\ PageSelect(0, f) \in Bodies
    BY Pages4, PageBodies
  <2>3. << Check, Read(n) >> \in Bodies
    BY <2>2, PlainSteps, Closed
  <2>4. Block(PageSelect(n, f) \o << Check, Read(n) >>) \o If("flat" \notin f, PageSelect(0, f)) \in Bodies
    BY <2>2, <2>3, Closed
  <2>5. Qsfp(Block(PageSelect(n, f) \o << Check, Read(n) >>) \o If("flat" \notin f, PageSelect(0, f))) \in Calls
    BY <2>4, CallsClosed
  <2> QED
    BY <2>1, <2>5, RefuseCalls DEF ThresholdGet
<1>5. ModuleMonitorGet(seen) \in Calls
  BY PlainSteps, Closed, CallsClosed DEF ModuleMonitorGet
<1>6. ChannelMonitorGet(d, ch, k) \in Calls
  BY PlainSteps, RefuseCalls, Closed, CallsClosed DEF ChannelMonitorGet
<1>7. FeatureSupportStatusGet(f) \in Calls
  <2>1. /\ IsTxControlSupported \in Bodies /\ IsPagingSupported \in Bodies /\ IsRateSelectSupported \in Bodies
        /\ IsSoftwareControlledPowerModeSupported(f) \in Bodies /\ << Check >> \in Bodies
    BY PlainSteps, Closed, PageBodies DEF IsTxControlSupported, IsPagingSupported, IsRateSelectSupported
  <2> QED
    BY <2>1, Closed, CallsClosed DEF FeatureSupportStatusGet
<1>8. ExtRateSelect(d, ch, flags) \in Calls
  <2>1. /\ << Read(Lower), Read(Lower) >> \in Bodies /\ << GoOn(Write(Lower)) >> \in Bodies
        /\ << Write(Lower) >> \in Bodies
    BY PlainSteps, Closed
  <2>2. If("rx" \in flags, << GoOn(Write(Lower)) >>) \in Bodies /\ If("tx" \in flags, << Write(Lower) >>) \in Bodies
    BY <2>1, Closed DEF If
  <2> QED
    BY <2>1, <2>2, RefuseCalls, Closed, CallsClosed DEF ExtRateSelect
<1>9. QsaAdapterTypeGet(d) \in Calls
  <2>1. << GoOn(Read(Lower)) >> \in Bodies
    BY PlainSteps, Closed
  <2>2. ModuleReset(TRUE) \in Calls /\ ModuleReset(FALSE) \in Calls
    BY QsfpCalls1
  <2> QED
    BY <2>1, <2>2, CallsClosed DEF QsaAdapterTypeGet
<1>10. PresenceGet \in Calls /\ ModuleControlStatusGet(d, k) \in Calls
  BY PinPlainSteps, PinClosed, RefuseCalls, CallsClosed DEF PresenceGet, ModuleControlStatusGet
<1> QED
  BY <1>1, <1>2, <1>3, <1>4, <1>5, <1>6, <1>7, <1>8, <1>9, <1>10

LEMMA QsfpCalls3 ==
  ASSUME NEW d, NEW f, NEW ch \in Nat, NEW k, NEW on, NEW up \in BOOLEAN, NEW mw, NEW pg \in GenericPages \cup {Ignore}
  PROVE  /\ ReadGeneric(pg, f) \in Calls /\ WriteGeneric(pg, f) \in Calls
         /\ PhyAutonegSet(k, ch, up) \in Calls /\ PhyModeSet(k, ch, up) \in Calls
         /\ PhySpeedSet(k, ch) \in Calls
         /\ PhyLinkStatusGet \in Calls /\ PhyPowerDownEnable \in Calls /\ PhySerdesControl \in Calls
         /\ WavelengthSet \in Calls
         /\ d.soft \in BOOLEAN => ModuleControl(d, f, k, on, mw) \in Calls
<1>1. ASSUME NEW do \in {"read", "write"} PROVE Generic(do, pg, f) \in Calls
  <2>1. \A n \in Int : S(do, n) \in Plain
    BY <1>1, PlainSteps DEF Read, Write
  <2>2. \A n \in Int : GenericPlain(do, n) \in Calls
    BY <2>1, Closed, CallsClosed DEF GenericPlain
  <2>3. CASE pg = Ignore
    <3>1. GenericPlain(do, Lower) \in Calls
      BY <2>2 DEF Lower
    <3> QED
      BY <2>3, <3>1 DEF Generic
  <2>4. CASE pg = Invalid /\ pg # Ignore
    BY <2>4, RefuseCalls DEF Generic
  <2>5. CASE pg # Ignore /\ pg # Invalid
    <3>1. pg \in Pages /\ pg \in Int
      BY <2>5, Pages4 DEF Pages
    <3>2. << Check, S(do, pg) >> \in Bodies
      BY <2>1, <3>1, PlainSteps, Closed
    <3>3. PageSelect(pg, f) \in Bodies /\ PageSelect(0, f) \in Bodies
      BY <3>1, Pages4, PageBodies
    <3>4. Block(PageSelect(pg, f) \o << Check, S(do, pg) >>) \o If("flat" \notin f, PageSelect(0, f)) \in Bodies
      BY <3>2, <3>3, Closed
    <3>5. GenericOn(do, pg, f) \in Calls
      BY <3>4, CallsClosed DEF GenericOn
    <3>6. GenericPlain(do, pg) \in Calls
      BY <2>2, <3>1
    <3>7. S("stray", Lower) \in Steps /\ S("stray", Lower).do = "stray"
      BY DEF S, Steps, Verbs, Lower, Open
    <3>8. Choose(S("stray", Lower), GenericOn(do, pg, f), GenericPlain(do, pg)) \in Calls
      BY <3>5, <3>6, <3>7, ChooseFlows
    <3> QED
      BY <2>5, <3>8 DEF Generic
  <2> QED
    BY <2>3, <2>4, <2>5
<1>2. ReadGeneric(pg, f) \in Calls /\ WriteGeneric(pg, f) \in Calls
  BY <1>1 DEF ReadGeneric, WriteGeneric
<1>3. << Refused >> \in Bodies /\ ChannelSelect(ch) \in Bodies
  BY PlainSteps, Closed DEF ChannelSelect
<1>4. /\ Qsfp4x1AutonegSet(ch, up) \in Bodies /\ Qsfp4x1ModeSet(ch, up) \in Bodies
      /\ Qsfp4x1SpeedSet(ch) \in Bodies
  BY <1>3, PhyBodies, Closed DEF Qsfp4x1AutonegSet, Qsfp4x1ModeSet, Qsfp4x1SpeedSet
<1>5. /\ PhyAutonegSet(k, ch, up) \in Calls /\ PhyModeSet(k, ch, up) \in Calls /\ PhySpeedSet(k, ch) \in Calls
  BY <1>3, <1>4, CallsClosed DEF PhyAutonegSet, PhyModeSet, PhySpeedSet, PhyOf4x1
<1>6. /\ PhyLinkStatusGet \in Calls /\ PhyPowerDownEnable \in Calls /\ PhySerdesControl \in Calls
      /\ WavelengthSet \in Calls
  BY RefuseCalls DEF PhyLinkStatusGet, PhyPowerDownEnable, PhySerdesControl, WavelengthSet
<1>7. ASSUME d.soft \in BOOLEAN PROVE ModuleControl(d, f, k, on, mw) \in Calls
  <2>1. ModuleReset(on) \in Calls
    BY QsfpCalls1
  <2>2. MediaForcePowerModeSet(d, f, IF on THEN 0 ELSE 1) \in Calls
    <3>1. \A high \in Int : MediaForcePowerModeSet(d, f, high) \in Calls
      BY QsfpCalls1
    <3>2. (IF on THEN 0 ELSE 1) \in Int
      OBVIOUS
    <3> QED
      BY <3>1, <3>2
  <2>3. If(d.soft, MediaForcePowerModeSet(d, f, IF on THEN 0 ELSE 1)) \in Calls
    BY <1>7, <2>2, CallsClosed DEF If
  <2>4. Pins(<< PinRead, PinWrite(0) >>) \in Calls
    BY PinPlainSteps, PinClosed, CallsClosed
  <2>5. If(d.soft, MediaForcePowerModeSet(d, f, IF on THEN 0 ELSE 1)) \o Pins(<< PinRead, PinWrite(0) >>) \in Calls
    BY <2>3, <2>4, CallsClosed
  <2> QED
    BY <2>1, <2>5, RefuseCalls DEF ModuleControl
<1> QED
  BY <1>2, <1>5, <1>6, <1>7

--------------------------------------------------------------------------------
(* So does every operation of the SFP driver. *)
LEMMA SfpCalls1 ==
  ASSUME NEW f, NEW ch, NEW flags, NEW on, NEW k
  PROVE  /\ SfpModuleMonitorStatusGet(f, flags) \in Calls
         /\ SfpChannelMonitorStatusGet(f, ch, flags) \in Calls
         /\ SfpChannelStatusGet(f, ch, flags) \in Calls
         /\ on \in BOOLEAN => SfpTxControl(f, ch, on) \in Calls
         /\ SfpTxControlStatusGet(f, ch) \in Calls
         /\ SfpPresenceGet \in Calls /\ SfpLedSet(f, ch, k) \in Calls
<1>1. << Refused >> \in Bodies /\ << Read(Lower) >> \in Bodies
  BY PlainSteps, Closed
<1>2. << >> \in Bodies
  BY Closed
<1>3. SfpModuleMonitorStatusGet(f, flags) \in Calls
  <2>1. /\ If("alarms" \in flags, << Read(Lower) >>) \in Bodies
        /\ If("warnings" \in flags, << Read(Lower) >>) \in Bodies
    BY <1>1, <1>2 DEF If
  <2> QED
    BY <1>1, <2>1, Closed, CallsClosed DEF SfpModuleMonitorStatusGet, IsAlarmFlagsSupported
<1>4. SfpChannelMonitorStatusGet(f, ch, flags) \in Calls
  <2>1. /\ If("txalarm" \in flags, << Read(Lower) >>) \in Bodies
        /\ If("rxalarm" \in flags, << Read(Lower) >>) \in Bodies
        /\ If("txwarn" \in flags, << Read(Lower) >>) \in Bodies
        /\ If("rxwarn" \in flags, << Read(Lower) >>) \in Bodies
    BY <1>1, <1>2 DEF If
  <2> QED
    BY <1>1, <2>1, RefuseCalls, Closed, CallsClosed DEF SfpChannelMonitorStatusGet, IsAlarmFlagsSupported, Channel0
<1>5. << Return >> \in Calls /\ Pins(<< PinRead >>) \in Calls
      /\ Pins(<< PinRead >>) \o << Return >> \in Calls
  BY OuterSteps, PinPlainSteps, PinClosed, CallsClosed
<1>6. SfpChannelStatusGet(f, ch, flags) \in Calls
  <2> DEFINE soft == IF {"txpin", "lospin", "faultpin"} \subseteq f THEN << >>
                     ELSE Sfp(SfpOptions(f, << Read(Lower) >>)) \o << Return >>
             One(flag, pin, bit) ==
               IF flag \notin flags THEN << >>
               ELSE IF pin \in f THEN Pins(<< PinRead >>) \o << Return >>
               ELSE If({bit, "options"} \ f # {}, << GoOn(Refused) >>)
  <2>1. soft \in Calls
    <3>1. SfpOptions(f, << Read(Lower) >>) \in Bodies
      BY <1>1, Closed DEF SfpOptions, If
    <3> QED
      BY <1>5, <3>1, CallsClosed
  <2>2. ASSUME NEW flag, NEW pin, NEW bit PROVE One(flag, pin, bit) \in Calls
    <3>1. If({bit, "options"} \ f # {}, << GoOn(Refused) >>) \in Calls
      BY OuterSteps, CallsClosed DEF If
    <3> QED
      BY <1>5, <3>1, CallsClosed
  <2>3. If("txlos" \in flags, << Refused >>) \in Calls
    BY OuterSteps, CallsClosed DEF If
  <2> HIDE DEF soft, One
  <2>4. soft \o One("disable", "txpin", "softtx") \o One("fault", "faultpin", "softfault")
            \o One("rxlos", "lospin", "softlos") \o If("txlos" \in flags, << Refused >>) \in Calls
    <3>1. soft \o One("disable", "txpin", "softtx") \in Calls
      BY <2>1, <2>2, CallsClosed
    <3>2. soft \o One("disable", "txpin", "softtx") \o One("fault", "faultpin", "softfault") \in Calls
      BY <2>2, <3>1, CallsClosed
    <3>3. soft \o One("disable", "txpin", "softtx") \o One("fault", "faultpin", "softfault")
            \o One("rxlos", "lospin", "softlos") \in Calls
      BY <2>2, <3>2, CallsClosed
    <3> QED
      BY <2>3, <3>3, CallsClosed
  <2> QED
    BY <2>4, RefuseCalls DEF SfpChannelStatusGet, Channel0, soft, One
<1>7. ASSUME on \in BOOLEAN PROVE SfpTxControl(f, ch, on) \in Calls
  <2>1. PICK n \in Signed : n = Lane(0, on)
    <3>1. 0 \in 0..7
      OBVIOUS
    <3> QED
      BY <3>1, LaneSigned
  <2>2. Pins(<< PinRead, S("txpin", n), S("asked", n) >>) \in Calls
    BY PinPlainSteps, PinClosed, CallsClosed
  <2>3. SfpOptions(f, << S("readtx", Lower) >> \o
              IF "softtx" \in f
              THEN << S("writetx", n), S("asked", n) >>
              ELSE << Refused >>) \in Bodies
    BY PlainSteps, Closed DEF SfpOptions, If
  <2>4. OnAqExtModCtrl(f, CusfpPlusPhySerdesControl(f, on), << >>) \in Bodies
    BY <1>7, AqBodies, AqChoice, Closed
  <2>5. Sfp(OnAqExtModCtrl(f, CusfpPlusPhySerdesControl(f, on), << >>) \o
            SfpOptions(f, << S("readtx", Lower) >> \o
              IF "softtx" \in f
              THEN << S("writetx", n), S("asked", n) >>
              ELSE << Refused >>)) \in Calls
    BY <2>3, <2>4, Closed, CallsClosed
  <2> QED
    BY <2>1, <2>2, <2>5, RefuseCalls DEF SfpTxControl, Channel0
<1>8. SfpTxControlStatusGet(f, ch) \in Calls
  <2>1. SfpOptions(f, << Read(Lower) >> \o If("softtx" \notin f, << Refused >>)) \in Bodies
    BY <1>1, Closed DEF SfpOptions, If
  <2> QED
    BY <1>5, <2>1, RefuseCalls, CallsClosed DEF SfpTxControlStatusGet, Channel0
<1>9. SfpPresenceGet \in Calls
  BY <1>5 DEF SfpPresenceGet
<1>10. SfpLedSet(f, ch, k) \in Calls
  <2>1. << PinRead >> \o (IF k = "other" THEN << Refused >> ELSE << PinWrite(0) >>) \in PinBodies
    BY PinPlainSteps, PinClosed
  <2> QED
    BY <2>1, RefuseCalls, CallsClosed DEF SfpLedSet, Channel0
<1> QED
  BY <1>3, <1>4, <1>6, <1>7, <1>8, <1>9, <1>10

LEMMA SfpCalls2 ==
  ASSUME NEW f, NEW ch, NEW k, NEW seen
  PROVE  /\ SfpSpeedGet \in Calls /\ SfpParameterGet(f, k) \in Calls
         /\ SfpVendorInfoGet \in Calls /\ SfpTransceiverCodeGet \in Calls
         /\ SfpThresholdGet(f, k) \in Calls /\ SfpMonitorThresholdGet \in Calls
         /\ SfpModuleMonitorGet(f, seen) \in Calls
         /\ SfpChannelMonitorGet(f, ch, k) \in Calls
         /\ SfpFeatureSupportStatusGet \in Calls
         /\ SfpReadGeneric(seen) \in Calls /\ SfpWriteGeneric(seen) \in Calls
         /\ SfpModuleInit \in Calls /\ SfpQsaAdapterTypeGet \in Calls
         /\ SfpWavelengthSet(f, seen) \in Calls
<1>1. << Refused >> \in Bodies /\ << Read(Lower) >> \in Bodies /\ << Write(Lower) >> \in Bodies
      /\ << Read(Lower), Read(Lower) >> \in Bodies
  BY PlainSteps, Closed
<1>2. 0 \in Int /\ 2 \in Int /\ 0 \in Pages /\ 2 \in Pages
  BY Pages4
<1>3. SfpPageSelect(0) \in Bodies /\ SfpPageSelect(2) \in Bodies
  BY <1>2, PlainSteps, Closed DEF SfpPageSelect
<1>4. \A q : SfpParameterGet(f, q) \in Calls
  <2> TAKE q
  <2>1. If(q = "wavelength", IsWavelengthTuneSupported) \in Bodies
    BY <1>1, Closed DEF IsWavelengthTuneSupported, If
  <2>2. << Leave(Read(2)), Leave(Read(2)) >> \in Bodies
    BY <1>2, PlainSteps, Closed
  <2>3. SfpPageSelect(2) \o << Leave(Read(2)), Leave(Read(2)) >> \o SfpPageSelect(0) \in Bodies
    BY <1>3, <2>2, Closed
  <2>4. (IF q = "tuned" \/ (q = "wavelength" /\ "tunable" \in f)
         THEN SfpPageSelect(2) \o << Leave(Read(2)), Leave(Read(2)) >> \o SfpPageSelect(0)
         ELSE << Read(Lower) >>) \in Bodies
    BY <1>1, <2>3
  <2>5. Sfp(Block(If(q = "wavelength", IsWavelengthTuneSupported) \o
         IF q = "tuned" \/ (q = "wavelength" /\ "tunable" \in f)
         THEN SfpPageSelect(2) \o << Leave(Read(2)), Leave(Read(2)) >> \o SfpPageSelect(0)
         ELSE << Read(Lower) >>)) \in Calls
    BY <2>1, <2>4, Closed, CallsClosed
  <2> QED
    BY <2>5, RefuseCalls DEF SfpParameterGet
<1>5. /\ SfpSpeedGet \in Calls /\ SfpMonitorThresholdGet \in Calls /\ SfpModuleInit \in Calls
      /\ SfpQsaAdapterTypeGet \in Calls
  BY RefuseCalls, CallsClosed DEF SfpSpeedGet, SfpMonitorThresholdGet, SfpModuleInit, SfpQsaAdapterTypeGet
<1>6. SfpVendorInfoGet \in Calls /\ SfpTransceiverCodeGet \in Calls
  BY <1>1, Closed, CallsClosed DEF SfpVendorInfoGet, SfpTransceiverCodeGet
<1>7. << Refused >> \in Calls
  BY OuterSteps, CallsClosed
<1>8. \A section \in Calls : Diagnosed(f, section) \in Calls
  <2> TAKE section \in Calls
  <2>1. SfpParameterGet(f, "diag") \o << Return >> \in Calls
    BY <1>4, OuterSteps, CallsClosed
  <2> QED
    BY <1>7, <2>1, CallsClosed DEF Diagnosed
<1>9. SfpThresholdGet(f, k) \in Calls
  <2>1. If("extcal" \in f, IF k = "rxpower" THEN << Read(Lower) >> ELSE << Read(Lower), Read(Lower) >>) \in Bodies
    BY <1>1, Closed DEF If
  <2>2. Sfp(Block(<< Read(Lower) >> \o
             If("extcal" \in f, IF k = "rxpower" THEN << Read(Lower) >>
                                ELSE << Read(Lower), Read(Lower) >>))) \in Calls
    BY <1>1, <2>1, Closed, CallsClosed
  <2> QED
    BY <1>7, <1>8, <2>2 DEF SfpThresholdGet
<1>10. RxPowerValueRead(f) \in Bodies /\ ModuleMonitorValueRead(f) \in Bodies
  BY <1>1, Closed DEF RxPowerValueRead, ModuleMonitorValueRead, If
<1>11. SfpModuleMonitorGet(f, seen) \in Calls
  BY <1>1, <1>8, <1>10, Closed, CallsClosed DEF SfpModuleMonitorGet
<1>12. SfpChannelMonitorGet(f, ch, k) \in Calls
  BY <1>1, <1>8, <1>10, RefuseCalls, Closed, CallsClosed DEF SfpChannelMonitorGet, Channel0
<1>13. SfpFeatureSupportStatusGet \in Calls
  BY <1>1, Closed, CallsClosed
     DEF SfpFeatureSupportStatusGet, IsAlarmFlagsSupported, IsDiagMonitoringSupported, IsSfpRateSelectSupported,
         IsWavelengthTuneSupported, IsExtModCtrlSupported
<1>14. SfpReadGeneric(seen) \in Calls /\ SfpWriteGeneric(seen) \in Calls
  BY <1>1, RefuseCalls, Closed, CallsClosed DEF SfpReadGeneric, SfpWriteGeneric
<1>15. SfpWavelengthSet(f, seen) \in Calls
  <2>1. /\ << Read(2) >> \in Bodies /\ << Write(2), Write(2) >> \in Bodies
        /\ << GoOn(Read(2)), Read(2) >> \in Bodies
    BY <1>2, PlainSteps, Closed
  <2>2. SfpGetTunableCapabilities(f) \in Bodies
    BY <1>1, <2>1, Closed DEF SfpGetTunableCapabilities
  <2>3. SfpSetTunableModuleByWavelength(seen) \in Bodies /\ SfpTuneSetStatusGet \in Bodies
    BY <1>1, <2>1 DEF SfpSetTunableModuleByWavelength, SfpTuneSetStatusGet
  <2>4. If("tunes" \notin f, << Refused >>) \in Bodies
    BY <1>1, Closed
  <2>5. SfpPageSelect(2) \o SfpGetTunableCapabilities(f) \o SfpSetTunableModuleByWavelength(seen)
         \o SfpTuneSetStatusGet \o If("tunes" \notin f, << Refused >>) \o SfpPageSelect(0) \in Bodies
    BY <1>3, <2>2, <2>3, <2>4, Closed
  <2>6. If("tunable" \in f,
         SfpPageSelect(2) \o SfpGetTunableCapabilities(f) \o SfpSetTunableModuleByWavelength(seen)
         \o SfpTuneSetStatusGet \o If("tunes" \notin f, << Refused >>) \o SfpPageSelect(0)) \in Bodies
    BY ONLY <2>5, Bodies0 DEF If
  <2>7. IsWavelengthTuneSupported \in Bodies
    BY <1>1 DEF IsWavelengthTuneSupported
  <2> QED
    BY <2>6, <2>7, Closed, CallsClosed DEF SfpWavelengthSet
<1> QED
  BY <1>4, <1>5, <1>6, <1>9, <1>11, <1>12, <1>13, <1>14, <1>15

LEMMA SfpCalls3 ==
  ASSUME NEW f, NEW up \in BOOLEAN, NEW same \in BOOLEAN
  PROVE  /\ SfpPhyAutonegSet(up) \in Calls /\ SfpPhyModeSet(up) \in Calls
         /\ SfpPhySpeedSet(f, same) \in Calls
         /\ SfpPhyLinkStatusGet(f) \in Calls
         /\ SfpPhyPowerDownEnable(up, same) \in Calls
         /\ SfpPhySerdesControl(f, up) \in Calls
<1>1. SfpPhyAutonegSet(up) \in Calls /\ SfpPhyModeSet(up) \in Calls
  BY PhyBodies, CallsClosed DEF SfpPhyAutonegSet, SfpPhyModeSet
<1>2. SfpPhySpeedSet(f, same) \in Calls
  BY PhyBodies, AqBodies, AqChoice, CallsClosed DEF SfpPhySpeedSet
<1>3. SfpPhyLinkStatusGet(f) \in Calls
  BY PhyBodies, AqBodies, AqChoice, CallsClosed DEF SfpPhyLinkStatusGet
<1>4. SfpPhyPowerDownEnable(up, same) \in Calls
  BY PhyBodies, CallsClosed DEF SfpPhyPowerDownEnable
<1>5. SfpPhySerdesControl(f, up) \in Calls
  BY PhyBodies, AqBodies, AqChoice, CallsClosed DEF SfpPhySerdesControl
<1> QED
  BY <1>1, <1>2, <1>3, <1>4, <1>5

--------------------------------------------------------------------------------
(***************************************************************************)
(* sdi_qsfp_module_init leaves the section from its middle: the module is  *)
(* deselected, and the functions called from there select it again.  The   *)
(* steps without a block of their own still leave to where the module is   *)
(* selected.                                                               *)
(***************************************************************************)
ExitsIn(s) == s \in Seq(Steps) /\ \A i \in 1..Len(s) :
                s[i].skip = Open => s[i].do \in EepromSteps \cup DropSteps \cup {"forgetpower", "done"}

LEMMA BlockFlows ==
  ASSUME NEW s, ExitsIn(s), Flows(s, "in", "in")
  PROVE  Block(s) \in Seq(Steps) /\ Flows(Block(s), "in", "in")
<1>1. s \in Seq(Steps) /\ Len(s) \in Nat /\ DOMAIN s = 1..Len(s)
  BY LenProperties DEF Flows
<1> DEFINE e(i) == IF s[i].skip = Open THEN [s[i] EXCEPT !.skip = Len(s) - i] ELSE s[i]
<1>2. Block(s) = [i \in 1..Len(s) |-> e(i)]
  BY <1>1 DEF Block
<1>3. ASSUME NEW i \in 1..Len(s)
      PROVE  /\ e(i) \in Steps /\ e(i).do = s[i].do /\ e(i).n = s[i].n
             /\ s[i].skip # Open => e(i).skip = s[i].skip
             /\ s[i].skip = Open => e(i).skip = Len(s) - i
  <2>1. s[i] \in Steps
    BY <1>1
  <2>2. PICK r \in Int : r = Len(s) - i
    <3>1. Len(s) \in Nat
      BY <1>1
    <3>2. Len(s) - i \in Int
      BY ONLY <3>1, i \in 1..Len(s)
    <3> QED
      BY ONLY <3>2
  <2>3. [s[i] EXCEPT !.skip = r] \in Steps /\ [s[i] EXCEPT !.skip = r].do = s[i].do
        /\ [s[i] EXCEPT !.skip = r].n = s[i].n /\ [s[i] EXCEPT !.skip = r].skip = r
    BY <2>1 DEF Steps
  <2> QED
    BY <2>1, <2>2, <2>3
<1> HIDE DEF e
<1>4. PICK q : q = Block(s)
  OBVIOUS
<1>5. q \in Seq(Steps) /\ Len(q) = Len(s) /\ \A i \in 1..Len(s) : q[i] = e(i)
  <2>1. q \in Seq(Steps)
    BY <1>1, <1>2, <1>3, <1>4, IsASeq
  <2> QED
    BY <1>1, <1>2, <1>4, <2>1
<1>6. PICK lab : Labels(s, lab) /\ lab[1] = "in" /\ lab[Len(s) + 1] = "in"
  BY DEF Flows
<1>7. ASSUME NEW i \in 1..Len(s)
      PROVE  /\ Phased(q[i], lab[i], lab[i + 1])
             /\ Leaving(q[i]) =>
                  \/ Far(q[i]) = Everything /\ Left(q[i], lab[i]) = "out"
                  \/ /\ Far(q[i]) # Everything /\ Lands(q[i], i) <= Len(s) + 1
                     /\ lab[Lands(q[i], i)] = Left(q[i], lab[i])
  <2>1. /\ Phased(s[i], lab[i], lab[i + 1])
        /\ Leaving(s[i]) =>
             \/ Far(s[i]) = Everything /\ Left(s[i], lab[i]) = "out"
             \/ /\ Far(s[i]) # Everything /\ Lands(s[i], i) <= Len(s) + 1
                /\ lab[Lands(s[i], i)] = Left(s[i], lab[i])
    BY <1>6 DEF Labels
  <2>2. q[i] \in Steps /\ q[i].do = s[i].do /\ q[i].n = s[i].n
    BY <1>3, <1>5
  <2>3. /\ Phased(q[i], lab[i], lab[i + 1]) <=> Phased(s[i], lab[i], lab[i + 1])
        /\ Left(q[i], lab[i]) = Left(s[i], lab[i])
    BY <2>2 DEF Phased, Left
  <2>4. CASE s[i].skip # Open \/ s[i].do = "done"
    <3>1. Leaving(q[i]) => Leaving(s[i])
      <4>1. CASE s[i].skip # Open
        BY <1>3, <1>5, <2>2, <4>1 DEF Leaving, Leaks
      <4>2. CASE s[i].do = "done"
        BY <2>2, <4>2 DEF Leaving, Leaks, EepromSteps
      <4> QED
        BY <2>4, <4>1, <4>2
    <3>2. Far(q[i]) = Far(s[i])
      BY <1>3, <1>5, <2>2, <2>4 DEF Far
    <3>3. Lands(q[i], i) = Lands(s[i], i)
      BY <3>2 DEF Lands
    <3> QED
      BY <2>1, <2>3, <3>1, <3>2, <3>3
  <2>5. CASE s[i].skip = Open /\ s[i].do \in DropSteps \cup {"forgetpower"}
    <3>1. ~Leaving(q[i])
      BY <2>2, <2>5 DEF Leaving
    <3> QED
      BY <2>1, <2>3, <3>1
  <2>6. CASE s[i].skip = Open /\ s[i].do \in EepromSteps
    <3>1. lab[i] = "in" /\ Left(q[i], lab[i]) = "in"
      BY <2>1, <2>2, <2>6 DEF Phased, Left, EepromSteps, AcquireSteps, SelectSteps
    <3>2. q[i].skip = Len(s) - i
      BY <1>3, <1>5, <2>6
    <3>3. Far(q[i]) = Len(s) - i
      BY <2>2, <2>6, <3>2 DEF Far, EepromSteps
    <3>4. Len(s) - i \in Nat /\ Len(s) \in Nat
      <4>1. Len(s) \in Nat
        BY <1>1
      <4> QED
        BY ONLY <4>1, i \in 1..Len(s)
    <3>5. Lands(q[i], i) = Len(s) + 1 /\ Far(q[i]) # Everything
      <4>1. PICK r \in Nat : r = Len(s) - i
        BY ONLY <3>4
      <4>2. Far(q[i]) = r /\ i + 1 + r = Len(s) + 1
        BY ONLY <3>3, <3>4, <4>1, i \in 1..Len(s)
      <4>3. Lands(q[i], i) = i + 1 + IF r > 0 THEN r ELSE 0
        BY ONLY <4>2 DEF Lands
      <4>4. (IF r > 0 THEN r ELSE 0) = r
        OBVIOUS
      <4>5. r # Everything
        BY ONLY <4>1 DEF Everything
      <4> QED
        BY ONLY <4>2, <4>3, <4>4, <4>5
    <3> QED
      BY <1>1, <1>6, <2>1, <2>3, <3>1, <3>5
  <2> QED
    BY <2>4, <2>5, <2>6 DEF ExitsIn
<1>8. Labels(q, lab)
  BY <1>5, <1>6, <1>7 DEF Labels
<1> QED
  BY <1>4, <1>5, <1>6, <1>8 DEF Flows

LEMMA ExitsCat == \A s, u : ExitsIn(s) /\ ExitsIn(u) => ExitsIn(s \o u)
<1> SUFFICES ASSUME NEW s, NEW u, ExitsIn(s), ExitsIn(u) PROVE ExitsIn(s \o u)
  OBVIOUS
<1>1. s \in Seq(Steps) /\ u \in Seq(Steps) /\ Len(s) \in Nat /\ Len(u) \in Nat
  BY DEF ExitsIn
<1>2. /\ s \o u \in Seq(Steps) /\ Len(s \o u) = Len(s) + Len(u)
      /\ \A i \in 1..(Len(s) + Len(u)) : (s \o u)[i] = IF i <= Len(s) THEN s[i] ELSE u[i - Len(s)]
  BY <1>1, ConcatProperties
<1>3. ASSUME NEW i \in 1..(Len(s) + Len(u)), (s \o u)[i].skip = Open
      PROVE  (s \o u)[i].do \in EepromSteps \cup DropSteps \cup {"forgetpower", "done"}
  <2>1. CASE i <= Len(s)
    <3>1. (s \o u)[i] = s[i] /\ i \in 1..Len(s)
      BY <1>1, <1>2, <2>1
    <3> QED
      BY <1>3, <3>1 DEF ExitsIn
  <2>2. CASE i > Len(s)
    <3>1. (s \o u)[i] = u[i - Len(s)] /\ i - Len(s) \in 1..Len(u)
      BY <1>1, <1>2, <2>2
    <3> QED
      BY <1>3, <3>1 DEF ExitsIn
  <2> QED
    BY <1>1, <2>1, <2>2
<1> QED
  BY <1>2, <1>3 DEF ExitsIn

LEMMA ExitsQuiet == \A s : ExitsIn(s) => ExitsIn(Quiet(s))
<1> SUFFICES ASSUME NEW s, ExitsIn(s) PROVE ExitsIn(Quiet(s))
  OBVIOUS
<1>1. s \in Seq(Steps) /\ Len(s) \in Nat /\ DOMAIN s = 1..Len(s)
  BY LenProperties DEF ExitsIn
<1> DEFINE e(i) == [s[i] EXCEPT !.quiet = TRUE]
<1>2. Quiet(s) = [i \in 1..Len(s) |-> e(i)]
  BY <1>1 DEF Quiet
<1>3. ASSUME NEW i \in 1..Len(s)
      PROVE  e(i) \in Steps /\ e(i).do = s[i].do /\ e(i).skip = s[i].skip
  <2>1. s[i] \in Steps
    BY <1>1
  <2> QED
    BY <2>1 DEF Steps
<1> HIDE DEF e
<1>4. PICK q : q = Quiet(s)
  OBVIOUS
<1>5. q \in Seq(Steps) /\ Len(q) = Len(s) /\ \A i \in 1..Len(s) : q[i] = e(i)
  <2>1. q \in Seq(Steps)
    BY <1>1, <1>2, <1>3, <1>4, IsASeq
  <2> QED
    BY <1>1, <1>2, <1>4, <2>1
<1> QED
  BY <1>3, <1>4, <1>5 DEF ExitsIn

(* A block leaves no step open. *)
LEMMA ExitsBlock == \A b \in Bodies : ExitsIn(Block(b))
<1> SUFFICES ASSUME NEW b \in Bodies PROVE ExitsIn(Block(b))
  OBVIOUS
<1>1. b \in Seq(Steps) /\ Len(b) \in Nat /\ DOMAIN b = 1..Len(b)
  BY LenProperties DEF Bodies
<1>2. PICK q : q = Block(b)
  OBVIOUS
<1>3. q \in Seq(Steps)
  BY <1>2, BodiesBlock DEF Bodies
<1>4. q = [i \in 1..Len(b) |-> IF b[i].skip = Open THEN [b[i] EXCEPT !.skip = Len(b) - i] ELSE b[i]]
  BY <1>1, <1>2 DEF Block
<1>5. Len(q) = Len(b)
  BY <1>1, <1>3, <1>4
<1>6. ASSUME NEW i \in 1..Len(b) PROVE q[i].skip # Open
  <2>1. CASE b[i].skip = Open
    <3>1. q[i] = [b[i] EXCEPT !.skip = Len(b) - i]
      BY <1>4, <2>1
    <3>2. b[i] \in Steps
      BY <1>1
    <3>3. PICK r \in Nat : r = Len(b) - i
      <4>1. Len(b) \in Nat
        BY <1>1
      <4>2. Len(b) - i \in Nat
        BY ONLY <4>1, i \in 1..Len(b)
      <4> QED
        BY ONLY <4>2
    <3>4. [b[i] EXCEPT !.skip = r].skip = r
      BY <3>2 DEF Steps
    <3> QED
      BY <3>1, <3>3, <3>4 DEF Open
  <2>2. CASE b[i].skip # Open
    BY <1>4, <2>2
  <2> QED
    BY <2>1, <2>2
<1> QED
  BY <1>2, <1>3, <1>5, <1>6 DEF ExitsIn

LEMMA ExitsSection ==
  ASSUME NEW b, ExitsIn(b), NEW s, Section(s, b)
  PROVE  ExitsIn(s)
<1>1. b \in Seq(Steps) /\ Len(b) \in Nat /\ s \in Seq(Steps) /\ Len(s) = Len(b) + 6
  BY DEF ExitsIn, Section
<1>2. ASSUME NEW i \in 1..Len(s), s[i].skip = Open
      PROVE  s[i].do \in EepromSteps \cup DropSteps \cup {"forgetpower", "done"}
  <2>1. i \in 1..4 \/ (\E j \in 1..Len(b) : i = 4 + j) \/ i = Len(b) + 5 \/ i = Len(b) + 6
    <3>1. i \in 1..4 \/ i - 4 \in 1..Len(b) \/ i = Len(b) + 5 \/ i = Len(b) + 6
      BY <1>1
    <3> QED
      BY <3>1
  <2>2. CASE i \in 1..4
    <3>1. s[i].skip \in {Len(s) - i, Everything} /\ Len(s) - i \in Nat
      BY <1>1, <2>2 DEF Section
    <3>2. PICK r \in Nat : r = Len(s) - i
      BY <3>1
    <3> QED
      BY <1>2, <3>1, <3>2 DEF Open, Everything
  <2>3. CASE \E j \in 1..Len(b) : i = 4 + j
    <3>1. PICK j \in 1..Len(b) : i = 4 + j
      BY <2>3
    <3>2. s[i] = b[j]
      BY <3>1 DEF Section
    <3> QED
      BY <1>2, <3>2 DEF ExitsIn
  <2>4. CASE i = Len(b) + 5 \/ i = Len(b) + 6
    BY <2>4 DEF Section, DropSteps
  <2> QED
    BY <2>1, <2>2, <2>3, <2>4
<1> QED
  BY <1>1, <1>2 DEF ExitsIn

LEMMA ExitsQsfp == \A b \in Bodies : ExitsIn(b) => ExitsIn(Qsfp(b))
<1> SUFFICES ASSUME NEW b \in Bodies, ExitsIn(b) PROVE ExitsIn(Qsfp(b))
  OBVIOUS
<1>1. b \in Seq(Steps)
  BY DEF Bodies
<1>2. PICK s : s = Qsfp(b)
  OBVIOUS
<1>3. Section(s, b)
  BY <1>1, <1>2, SfpAround, AroundSection
<1> QED
  BY <1>2, <1>3, ExitsSection

LEMMA ExitsOne ==
  \A e \in Steps : (e.skip = Open => e.do \in EepromSteps \cup DropSteps \cup {"forgetpower", "done"})
                     => ExitsIn(<< e >>)
<1> SUFFICES ASSUME NEW e \in Steps,
                    e.skip = Open => e.do \in EepromSteps \cup DropSteps \cup {"forgetpower", "done"}
             PROVE  ExitsIn(<< e >>)
  OBVIOUS
<1>1. << e >> \in Seq(Steps) /\ Len(<< e >>) = 1 /\ << e >>[1] = e
  OBVIOUS
<1>2. \A i \in 1..1 : i = 1
  OBVIOUS
<1> QED
  BY <1>1, <1>2 DEF ExitsIn

LEMMA InitCalls ==
  ASSUME NEW d \in Drivers, NEW f, NEW pres
  PROVE  ModuleInit(d, f, pres) \in Calls
<1> DEFINE plain == [d EXCEPT !.qsa = FALSE]
<1>1. plain.qsa = FALSE
  BY DEF Drivers
<1>2. << S("forgetversion", 0) >> \in Calls /\ << S("absent", 0) >> \in Calls
  BY OuterSteps, CallsClosed
<1>3. PICK w : w = MediaMaxPowerGet(plain)
  OBVIOUS
<1>4. PICK v : v = MediaForcePowerModeSet(plain, f, 0)
  OBVIOUS
<1>5. w \in Calls /\ ExitsIn(w)
  <2>1. << Leave(S("learnpower", 0)) >> \in Bodies /\ Leave(S("learnpower", 0)) \in Plain
    BY PlainSteps, Closed
  <2>2. w = << S("forgetpower", 0) >> \o Qsfp(<< Leave(S("learnpower", 0)) >>)
    BY <1>1, <1>3 DEF MediaMaxPowerGet
  <2>3. Leave(S("learnpower", 0)) \in Steps /\ Leave(S("learnpower", 0)).do = "learnpower"
    BY <2>1 DEF Plain, Leave, S
  <2>4. ExitsIn(<< Leave(S("learnpower", 0)) >>)
    BY <2>3, ExitsOne DEF EepromSteps
  <2>5. ExitsIn(Qsfp(<< Leave(S("learnpower", 0)) >>))
    BY <2>1, <2>4, ExitsQsfp
  <2>6. S("forgetpower", 0) \in Steps /\ S("forgetpower", 0).do = "forgetpower"
    BY OuterSteps DEF Outer, S
  <2>7. ExitsIn(<< S("forgetpower", 0) >>)
    BY <2>6, ExitsOne
  <2>8. w \in Calls
    BY <1>3, QsfpCalls1
  <2> QED
    BY <2>2, <2>5, <2>7, <2>8, ExitsCat
<1>6. v \in Calls /\ ExitsIn(v)
  <2>1. (IF "soft" \in f THEN << Read(Lower), S("power", 0) >> ELSE << Refused >>) \in Bodies
    BY PlainSteps, Closed
  <2>2. << Check >> \in Bodies /\ IsSoftwareControlledPowerModeSupported(f) \in Bodies
    BY PlainSteps, Closed, PageBodies
  <2>3. PICK b : b = IsSoftwareControlledPowerModeSupported(f) \o << Check >> \o
              IF "soft" \in f THEN << Read(Lower), S("power", 0) >> ELSE << Refused >>
    OBVIOUS
  <2>4. b \in Bodies
    BY <2>1, <2>2, <2>3, Closed
  <2>5. v = Qsfp(Block(b))
    BY <1>1, <1>4, <2>3 DEF MediaForcePowerModeSet
  <2>6. Block(b) \in Bodies /\ ExitsIn(Block(b))
    BY <2>4, Closed, ExitsBlock
  <2> QED
    BY <2>5, <2>6, ExitsQsfp, CallsClosed
<1>7. PICK z : z = If("soft" \in f, Quiet(v))
  OBVIOUS
<1>8. z \in Calls /\ ExitsIn(z) /\ Quiet(w) \in Calls /\ ExitsIn(Quiet(w))
  <2>1. ExitsIn(<< >>) /\ << >> \in Calls
    BY EmptyFlows, CallsClosed DEF ExitsIn
  <2>2. Quiet(v) \in Calls /\ ExitsIn(Quiet(v)) /\ Quiet(w) \in Calls /\ ExitsIn(Quiet(w))
    BY <1>5, <1>6, CallsClosed, ExitsQuiet
  <2> QED
    BY <1>7, <2>1, <2>2 DEF If
<1>9. ExitsIn(QsfpDeselect) /\ Flows(QsfpDeselect, "in", "out")
  <2>1. PICK a \in Steps : a = S("dropmux", 0) /\ a.do = "dropmux"
    <3>1. "dropmux" \in Verbs
      BY DEF Verbs, DropSteps
    <3>2. S("dropmux", 0) \in Steps /\ S("dropmux", 0).do = "dropmux"
      BY <3>1 DEF S, Steps, Open
    <3> QED
      BY <3>2
  <2>2. PICK c \in Steps : c = S("dropmod", 0) /\ c.do = "dropmod"
    <3>1. "dropmod" \in Verbs
      BY DEF Verbs, DropSteps
    <3>2. S("dropmod", 0) \in Steps /\ S("dropmod", 0).do = "dropmod"
      BY <3>1 DEF S, Steps, Open
    <3> QED
      BY <3>2
  <2>3. PICK s \in Seq(Steps) : s = << a, c >> /\ Len(s) = 2 /\ s[1] = a /\ s[2] = c
    <3>1. << a, c >> \in Seq(Steps) /\ Len(<< a, c >>) = 2 /\ << a, c >>[1] = a /\ << a, c >>[2] = c
      OBVIOUS
    <3> QED
      BY <3>1
  <2>4. s = QsfpDeselect
    BY <2>1, <2>2, <2>3 DEF QsfpDeselect
  <2>5. \A i \in 1..2 : i = 1 \/ i = 2
    OBVIOUS
  <2>6. ExitsIn(s)
    BY <2>1, <2>2, <2>3, <2>5 DEF ExitsIn, DropSteps
  <2> DEFINE k == [i \in 1..3 |-> IF i = 1 THEN "in" ELSE IF i = 2 THEN "part" ELSE "out"]
  <2>7. k \in [1..3 -> Phases] /\ k[1] = "in" /\ k[2] = "part" /\ k[3] = "out"
    BY DEF Phases
  <2> HIDE DEF k
  <2>8. Phased(a, "in", "part") /\ Phased(c, "part", "out") /\ ~Leaving(a) /\ ~Leaving(c)
    BY <2>1, <2>2 DEF Phased, Leaving, DropSteps, EepromSteps, PinSteps
  <2>9. Labels(s, k)
    <3>1. Len(s) + 1 = 3 /\ 1 + 1 = 2 /\ 2 + 1 = 3
      BY <2>3
    <3> QED
      BY <2>3, <2>5, <2>7, <2>8, <3>1 DEF Labels
  <2>10. Flows(s, "in", "out")
    <3>1. k[Len(s) + 1] = "out"
      BY <2>3, <2>7
    <3> QED
      BY <2>3, <2>7, <2>9, <3>1 DEF Flows
  <2> QED
    BY <2>4, <2>6, <2>10
<1>10. PICK u : u = QsfpDeselect \o Quiet(w) \o z \o << Done >>
  OBVIOUS
<1>11. ExitsIn(u) /\ Flows(u, "in", "in")
  <2>1. Done \in Outer /\ Done \in Steps /\ Done.do = "done"
    BY OuterSteps DEF Outer, Done, S
  <2>2. ExitsIn(<< Done >>)
    BY <2>1, ExitsOne
  <2>3. Flows(<< Done >>, "out", "in")
    BY <2>1, OuterFlows DEF Phases
  <2>4. Flows(Quiet(w), "out", "out") /\ Flows(z, "out", "out")
    BY <1>8 DEF Calls
  <2>5. Flows(QsfpDeselect \o Quiet(w), "in", "out") /\ ExitsIn(QsfpDeselect \o Quiet(w))
    BY <1>8, <1>9, <2>4, FlowsCat, ExitsCat
  <2>6. Flows(QsfpDeselect \o Quiet(w) \o z, "in", "out") /\ ExitsIn(QsfpDeselect \o Quiet(w) \o z)
    BY <1>8, <2>4, <2>5, FlowsCat, ExitsCat
  <2> QED
    BY <1>10, <2>2, <2>3, <2>6, FlowsCat, ExitsCat
<1>12. DatapathPowerUp(f) \in Bodies /\ ExitsIn(DatapathPowerUp(f))
  BY PageBodies, ExitsBlock
<1>13. DefaultPageIfPaged(f) \in Bodies /\ ExitsIn(DefaultPageIfPaged(f))
  <2>1. Quiet(IsPagingSupported) \o If("flat" \notin f, PageSelect(0, f)) \in Bodies
    BY Pages4, PageBodies, PlainSteps, Closed DEF IsPagingSupported
  <2> QED
    BY <2>1, PageBodies, ExitsBlock DEF DefaultPageIfPaged
<1>14. PICK rest : rest = IF "sfp" \in f THEN << >>
                   ELSE DefaultPageIfPaged(f) \o
                        IF "dd" \in f THEN DatapathPowerUp(f) ELSE u
  OBVIOUS
<1>15. ExitsIn(rest) /\ Flows(rest, "in", "in")
  <2>1. ExitsIn(<< >>) /\ Flows(<< >>, "in", "in")
    BY EmptyFlows DEF ExitsIn, Phases
  <2>2. Flows(DefaultPageIfPaged(f), "in", "in") /\ Flows(DatapathPowerUp(f), "in", "in")
    BY <1>12, <1>13, InnerFlows
  <2>3. /\ Flows(DefaultPageIfPaged(f) \o DatapathPowerUp(f), "in", "in")
        /\ ExitsIn(DefaultPageIfPaged(f) \o DatapathPowerUp(f))
    BY <1>12, <1>13, <2>2, FlowsCat, ExitsCat
  <2>4. Flows(DefaultPageIfPaged(f) \o u, "in", "in") /\ ExitsIn(DefaultPageIfPaged(f) \o u)
    BY <1>11, <1>13, <2>2, FlowsCat, ExitsCat
  <2> QED
    BY <1>14, <2>1, <2>3, <2>4
<1>16. S("identify", Lower) \in Plain
  BY PlainMade DEF EepromSteps, Lower
<1>17. PICK b : b = Block(<< S("identify", Lower) >> \o rest)
  OBVIOUS
<1>18. b \in Seq(Steps) /\ Flows(b, "in", "in")
  <2>1. << S("identify", Lower) >> \in Bodies
    BY <1>16, Closed
  <2>2. ExitsIn(<< S("identify", Lower) >>)
    <3>1. S("identify", Lower) \in Steps /\ S("identify", Lower).do = "identify"
      BY <1>16 DEF Plain, S
    <3> QED
      BY <3>1, ExitsOne DEF EepromSteps
  <2>3. /\ ExitsIn(<< S("identify", Lower) >> \o rest)
        /\ Flows(<< S("identify", Lower) >> \o rest, "in", "in")
    BY <1>15, <2>1, <2>2, InnerFlows, FlowsCat, ExitsCat
  <2> QED
    BY <1>17, <2>3, BlockFlows
<1>19. PICK c : c = Around(QsfpSelect, b, QsfpDeselect)
  OBVIOUS
<1>20. c \in Calls
  <2>1. Flows(c, "out", "out")
    BY <1>18, <1>19, AroundSection, SectionFlows
  <2> QED
    BY <2>1 DEF Calls, Flows
<1>21. << S("forgetversion", 0) >> \o << S("absent", 0) >> \in Calls /\ << S("forgetversion", 0) >> \o c \in Calls
  BY <1>2, <1>20, CallsClosed
<1>22. c = LET q == [d EXCEPT !.qsa = FALSE]
              r == IF "sfp" \in f THEN << >>
                   ELSE DefaultPageIfPaged(f) \o
                        IF "dd" \in f THEN DatapathPowerUp(f)
                        ELSE QsfpDeselect \o Quiet(MediaMaxPowerGet(q)) \o
                             If("soft" \in f, Quiet(MediaForcePowerModeSet(q, f, 0))) \o << Done >>
          IN Around(QsfpSelect, Block(<< S("identify", Lower) >> \o r), QsfpDeselect)
  BY <1>3, <1>4, <1>7, <1>10, <1>14, <1>17, <1>19
<1> QED
  BY <1>21, <1>22 DEF ModuleInit

--------------------------------------------------------------------------------
(* What a caller of the media API starts is one of these calls. *)
LEMMA Chosen ==
  ASSUME NEW c, NEW q \in Calls, NEW s \in Calls
  PROVE  By(c, q, s) \in Calls /\ IfQsfp(c, q) \in Calls
BY RefuseCalls DEF By, IfQsfp

LEMMA ChannelNat ==
  ASSUME NEW c, c.first \in Nat
  PROVE  \A ch \in Channels : Ch(c, ch) \in Nat
<1> SUFFICES ASSUME NEW ch \in Channels PROVE Ch(c, ch) \in Nat
  OBVIOUS
<1>1. ch \in Nat
  BY PlatformAssumption
<1>2. PICK n \in Nat : n = c.first
  OBVIOUS
<1>3. Ch(c, ch) = ch + n
  BY <1>2 DEF Ch, ChannelOffsetGet
<1> QED
  BY <1>1, <1>3

LEMMA TxScripts ==
  ASSUME NEW c, c.first \in Nat
  PROVE  MediaTxControl(c) \subseteq Calls
<1>1. ASSUME NEW ch \in Channels, NEW on \in BOOLEAN
      PROVE  By(c, TxControl(c.d, c.f, Ch(c, ch), on), SfpTxControl(c.f, Ch(c, ch), on)) \in Calls
  <2>1. PICK n \in Nat : n = Ch(c, ch)
    BY ChannelNat
  <2>2. TxControl(c.d, c.f, n, on) \in Calls /\ SfpTxControl(c.f, n, on) \in Calls
    BY QsfpCalls1, SfpCalls1
  <2> QED
    BY <2>1, <2>2, Chosen
<1> QED
  BY <1>1 DEF MediaTxControl

LEMMA StrictScripts ==
  ASSUME NEW c, c.first \in Nat, c.d \in Drivers
  PROVE  StrictCalls(c) \subseteq Calls
<1>1. MediaPresenceGet(c) \subseteq Calls
  <2>1. PresenceGet \in Calls /\ ParameterGet(c.d, "id") \in Calls
    <3>1. 0 \in Nat
      OBVIOUS
    <3> QED
      BY <3>1, QsfpCalls2
  <2>2. DdPresenceGet(c) \in Calls
    <3>1. If(c.first > 0, ParameterGet(c.d, "id")) \in Calls
      BY <2>1, CallsClosed DEF If
    <3> QED
      BY <2>1, <3>1, OuterSteps, CallsClosed DEF DdPresenceGet
  <2>3. SfpPresenceGet \in Calls
    BY SfpCalls1
  <2> QED
    BY <2>1, <2>2, <2>3, Chosen DEF MediaPresenceGet
<1>2. MediaModuleMonitorStatusGet(c) \subseteq Calls
  <2>1. \A g, h : By(c, ModuleMonitorStatusGet(g), SfpModuleMonitorStatusGet(c.f, h)) \in Calls
    <3> TAKE g, h
    <3>1. ModuleMonitorStatusGet(g) \in Calls
      <4>1. 0 \in Nat
        OBVIOUS
      <4> QED
        BY <4>1, QsfpCalls1
    <3>2. SfpModuleMonitorStatusGet(c.f, h) \in Calls
      BY SfpCalls1
    <3> QED
      BY <3>1, <3>2, Chosen
  <2> QED
    BY <2>1 DEF MediaModuleMonitorStatusGet
<1>3. ASSUME NEW ch \in Channels, NEW g, NEW h
      PROVE  /\ By(c, ChannelMonitorStatusGet(c.d, Ch(c, ch), g), SfpChannelMonitorStatusGet(c.f, Ch(c, ch), h)) \in Calls
             /\ By(c, ChannelStatusGet(c.d, Ch(c, ch), g), SfpChannelStatusGet(c.f, Ch(c, ch), g)) \in Calls
             /\ By(c, TxControlStatusGet(c.d, Ch(c, ch)), SfpTxControlStatusGet(c.f, Ch(c, ch))) \in Calls
             /\ By(c, ChannelMonitorGet(c.d, Ch(c, ch), g), SfpChannelMonitorGet(c.f, Ch(c, ch), g)) \in Calls
             /\ SfpLedSet(c.f, Ch(c, ch), g) \in Calls
  <2>1. PICK n \in Nat : n = Ch(c, ch)
    BY ChannelNat
  <2>2. /\ ChannelMonitorStatusGet(c.d, n, g) \in Calls /\ ChannelStatusGet(c.d, n, g) \in Calls
        /\ TxControlStatusGet(c.d, n) \in Calls /\ ChannelMonitorGet(c.d, n, g) \in Calls
    BY QsfpCalls1, QsfpCalls2
  <2>3. /\ SfpChannelMonitorStatusGet(c.f, n, h) \in Calls /\ SfpChannelStatusGet(c.f, n, g) \in Calls
        /\ SfpTxControlStatusGet(c.f, n) \in Calls /\ SfpLedSet(c.f, n, g) \in Calls
        /\ SfpChannelMonitorGet(c.f, n, g) \in Calls
    BY SfpCalls1, SfpCalls2
  <2> QED
    BY <2>1, <2>2, <2>3, Chosen
<1>4. /\ MediaChannelMonitorStatusGet(c) \subseteq Calls /\ MediaChannelStatusGet(c) \subseteq Calls
      /\ MediaTxControlStatusGet(c) \subseteq Calls /\ MediaChannelMonitorGet(c) \subseteq Calls
      /\ MediaLedSet(c) \subseteq Calls
  <2>1. MediaChannelMonitorStatusGet(c) \subseteq Calls
    BY <1>3 DEF MediaChannelMonitorStatusGet
  <2>2. MediaChannelStatusGet(c) \subseteq Calls
    BY <1>3 DEF MediaChannelStatusGet
  <2>3. MediaTxControlStatusGet(c) \subseteq Calls
    BY <1>3 DEF MediaTxControlStatusGet
  <2>4. MediaChannelMonitorGet(c) \subseteq Calls
    BY <1>3 DEF MediaChannelMonitorGet
  <2>5. MediaLedSet(c) \subseteq Calls
    BY <1>3 DEF MediaLedSet
  <2> QED
    BY <2>1, <2>2, <2>3, <2>4, <2>5
<1>5. ASSUME NEW g, NEW h
      PROVE  /\ By(c, SpeedGet, SfpSpeedGet) \in Calls
             /\ By(c, ParameterGet(c.d, g), SfpParameterGet(c.f, h)) \in Calls
             /\ By(c, VendorInfoGet, SfpVendorInfoGet) \in Calls
             /\ By(c, TransceiverCodeGet, SfpTransceiverCodeGet) \in Calls
             /\ By(c, MonitorThresholdGet, SfpMonitorThresholdGet) \in Calls
             /\ By(c, ModuleMonitorGet(g), SfpModuleMonitorGet(c.f, g)) \in Calls
             /\ IfQsfp(c, ModuleControlStatusGet(c.d, g)) \in Calls
  <2>1. 0 \in Nat
    OBVIOUS
  <2>2. /\ SpeedGet \in Calls /\ ParameterGet(c.d, g) \in Calls /\ VendorInfoGet \in Calls
        /\ TransceiverCodeGet \in Calls /\ MonitorThresholdGet \in Calls /\ ModuleMonitorGet(g) \in Calls
        /\ ModuleControlStatusGet(c.d, g) \in Calls
    BY <2>1, QsfpCalls2
  <2>3. /\ SfpSpeedGet \in Calls /\ SfpParameterGet(c.f, h) \in Calls /\ SfpVendorInfoGet \in Calls
        /\ SfpTransceiverCodeGet \in Calls /\ SfpMonitorThresholdGet \in Calls /\ SfpModuleMonitorGet(c.f, g) \in Calls
    BY SfpCalls2
  <2> QED
    BY <2>2, <2>3, Chosen
<1>6. /\ MediaSpeedGet(c) \subseteq Calls /\ MediaParameterGet(c) \subseteq Calls
      /\ MediaVendorInfoGet(c) \subseteq Calls /\ MediaTransceiverCodeGet(c) \subseteq Calls
      /\ MediaMonitorThresholdGet(c) \subseteq Calls /\ MediaModuleMonitorGet(c) \subseteq Calls
      /\ MediaModuleControlStatusGet(c) \subseteq Calls
  BY <1>5 DEF MediaSpeedGet, MediaParameterGet, MediaVendorInfoGet, MediaTransceiverCodeGet,
              MediaMonitorThresholdGet, MediaModuleMonitorGet, MediaModuleControlStatusGet
<1>7. FixedPortCalls \subseteq Calls
  BY CallsClosed DEF FixedPortCalls
<1>8. MediaTxControl(c) \subseteq Calls
  BY TxScripts
<1> QED
  BY <1>1, <1>2, <1>4, <1>6, <1>7, <1>8 DEF StrictCalls

LEMMA LaxScripts ==
  ASSUME NEW c, c.first \in Nat, c.d \in Drivers
  PROVE  LaxCalls(c) \subseteq Calls
<1>1. ASSUME NEW ch \in Channels, NEW up \in BOOLEAN, NEW same \in BOOLEAN, NEW k, NEW g
      PROVE  /\ IfQsfp(c, CdrStatusSet(c.d, c.f, Ch(c, ch))) \in Calls
             /\ IfQsfp(c, CdrStatusGet(c.d, c.f, Ch(c, ch))) \in Calls
             /\ By(c, PhyAutonegSet(k, Ch(c, ch), up), SfpPhyAutonegSet(up)) \in Calls
             /\ By(c, PhyModeSet(k, Ch(c, ch), up), SfpPhyModeSet(up)) \in Calls
             /\ By(c, PhySpeedSet(k, Ch(c, ch)), SfpPhySpeedSet(c.f, same)) \in Calls
             /\ IfQsfp(c, ExtRateSelect(c.d, Ch(c, ch), g)) \in Calls
  <2>1. PICK n \in Nat : n = Ch(c, ch)
    BY ChannelNat
  <2>2. CdrStatusSet(c.d, c.f, n) \in Calls /\ CdrStatusGet(c.d, c.f, n) \in Calls
    BY QsfpCalls1
  <2>3. ExtRateSelect(c.d, n, g) \in Calls
    BY QsfpCalls2
  <2>4. PhyAutonegSet(k, n, up) \in Calls /\ PhyModeSet(k, n, up) \in Calls /\ PhySpeedSet(k, n) \in Calls
    BY QsfpCalls3
  <2>5. SfpPhyAutonegSet(up) \in Calls /\ SfpPhyModeSet(up) \in Calls /\ SfpPhySpeedSet(c.f, same) \in Calls
    BY SfpCalls3
  <2> QED
    BY <2>1, <2>2, <2>3, <2>4, <2>5, Chosen
<1>2. ASSUME NEW ch \in Channels, NEW k, NEW same \in BOOLEAN
      PROVE  /\ By(c, PhySpeedSet(k, Ch(c, ch)), SfpPhySpeedSet(c.f, same)) \o << >> \in Calls
             /\ By(c, PhySpeedSet(k, Ch(c, ch)), SfpPhySpeedSet(c.f, same)) \o
                By(c, PhySpeedSet("4x1", Ch(c, 0)), SfpPhySpeedSet(c.f, FALSE)) \in Calls
  <2>1. By(c, PhySpeedSet(k, Ch(c, ch)), SfpPhySpeedSet(c.f, same)) \in Calls
    BY <1>1
  <2>2. By(c, PhySpeedSet("4x1", Ch(c, 0)), SfpPhySpeedSet(c.f, FALSE)) \in Calls
    <3>1. PICK n \in Nat : n = Ch(c, 0)
      BY DEF Ch, ChannelOffsetGet
    <3>2. PhySpeedSet("4x1", n) \in Calls /\ SfpPhySpeedSet(c.f, FALSE) \in Calls
      BY QsfpCalls3, SfpCalls3
    <3> QED
      BY <3>1, <3>2, Chosen
  <2> QED
    BY <2>1, <2>2, CallsClosed
<1>31. MediaCdrStatusSet(c) \subseteq Calls
  BY <1>1 DEF MediaCdrStatusSet
<1>32. MediaCdrStatusGet(c) \subseteq Calls
  BY <1>1 DEF MediaCdrStatusGet
<1>33. MediaPhyAutonegSet(c) \subseteq Calls
  BY <1>1 DEF MediaPhyAutonegSet
<1>34. MediaPhyModeSet(c) \subseteq Calls
  BY <1>1 DEF MediaPhyModeSet
<1>35. MediaExtRateSelect(c) \subseteq Calls
  <2>1. \A ch \in Channels : \A g : IfQsfp(c, ExtRateSelect(c.d, Ch(c, ch), g)) \in Calls
    BY <1>1
  <2> QED
    BY ONLY <2>1 DEF MediaExtRateSelect
<1>4. MediaPhySpeedSet(c) \subseteq Calls
  <2> DEFINE next == {<< >>, By(c, PhySpeedSet("4x1", Ch(c, 0)), SfpPhySpeedSet(c.f, FALSE))}
             call(k, ch, same, More) == By(c, PhySpeedSet(k, Ch(c, ch)), SfpPhySpeedSet(c.f, same)) \o More
             all == {call(k, ch, same, More) : k \in {"4x1", "other"}, ch \in Channels, same \in BOOLEAN, More \in next}
  <2>1. MediaPhySpeedSet(c) = all
    BY DEF MediaPhySpeedSet
  <2>2. \A k \in {"4x1", "other"}, ch \in Channels, same \in BOOLEAN, More \in next :
          call(k, ch, same, More) \in Calls
    BY <1>2
  <2>3. all \subseteq Calls
    <3> HIDE DEF call, next
    <3> QED
      BY ONLY <2>2
  <2> HIDE DEF all
  <2> QED
    BY ONLY <2>1, <2>3
<1>5. ASSUME NEW k, NEW on \in BOOLEAN, NEW change \in BOOLEAN
      PROVE  /\ By(c, ThresholdGet(c.d, c.f, k # "none"), SfpThresholdGet(c.f, k)) \in Calls
             /\ IfQsfp(c, ModuleControl(c.d, c.f, k, on, c.mw)) \in Calls
             /\ By(c, PhyLinkStatusGet, SfpPhyLinkStatusGet(c.f)) \in Calls
             /\ By(c, PhyPowerDownEnable, SfpPhyPowerDownEnable(on, change)) \in Calls
             /\ By(c, PhySerdesControl, SfpPhySerdesControl(c.f, on)) \in Calls
             /\ By(c, FeatureSupportStatusGet(c.f), SfpFeatureSupportStatusGet) \in Calls
             /\ By(c, WavelengthSet, SfpWavelengthSet(c.f, on)) \in Calls
             /\ (IF IsQsfp(c) THEN QsaAdapterTypeGet(c.d) ELSE SfpQsaAdapterTypeGet) \in Calls
  <2>1. 0 \in Nat /\ Ignore \in GenericPages \cup {Ignore} /\ c.d.soft \in BOOLEAN
    BY DEF Drivers
  <2>2. /\ ThresholdGet(c.d, c.f, k # "none") \in Calls /\ FeatureSupportStatusGet(c.f) \in Calls
        /\ QsaAdapterTypeGet(c.d) \in Calls
    BY <2>1, QsfpCalls2
  <2>3. /\ ModuleControl(c.d, c.f, k, on, c.mw) \in Calls /\ PhyLinkStatusGet \in Calls
        /\ PhyPowerDownEnable \in Calls /\ PhySerdesControl \in Calls /\ WavelengthSet \in Calls
    BY <2>1, QsfpCalls3
  <2>4. /\ SfpThresholdGet(c.f, k) \in Calls /\ SfpFeatureSupportStatusGet \in Calls
        /\ SfpWavelengthSet(c.f, on) \in Calls /\ SfpQsaAdapterTypeGet \in Calls
    BY SfpCalls2
  <2>5. /\ SfpPhyLinkStatusGet(c.f) \in Calls /\ SfpPhyPowerDownEnable(on, change) \in Calls
        /\ SfpPhySerdesControl(c.f, on) \in Calls
    BY SfpCalls3
  <2> QED
    BY <2>2, <2>3, <2>4, <2>5, Chosen
<1>61. MediaThresholdGet(c) \subseteq Calls
  BY <1>5 DEF MediaThresholdGet
<1>62. MediaModuleControl(c) \subseteq Calls
  BY <1>5 DEF MediaModuleControl
<1>63. MediaPhyLinkStatusGet(c) \subseteq Calls
  BY <1>5 DEF MediaPhyLinkStatusGet
<1>64. MediaPhyPowerDownEnable(c) \subseteq Calls
  BY <1>5 DEF MediaPhyPowerDownEnable
<1>65. MediaPhySerdesControl(c) \subseteq Calls
  BY <1>5 DEF MediaPhySerdesControl
<1>66. MediaFeatureSupportStatusGet(c) \subseteq Calls
  BY <1>5 DEF MediaFeatureSupportStatusGet
<1>67. MediaWavelengthSet(c) \subseteq Calls
  BY <1>5 DEF MediaWavelengthSet
<1>68. MediaQsaAdapterTypeGet(c) \subseteq Calls
  BY <1>5 DEF MediaQsaAdapterTypeGet
<1>7. ASSUME NEW pg \in GenericPages \cup {Ignore}, NEW ok
      PROVE  /\ By(c, ReadGeneric(pg, c.f), SfpReadGeneric(ok)) \in Calls
             /\ By(c, WriteGeneric(pg, c.f), SfpWriteGeneric(ok)) \in Calls
  <2>1. 0 \in Nat
    OBVIOUS
  <2>2. ReadGeneric(pg, c.f) \in Calls /\ WriteGeneric(pg, c.f) \in Calls
    BY <2>1, QsfpCalls3
  <2>3. SfpReadGeneric(ok) \in Calls /\ SfpWriteGeneric(ok) \in Calls
    BY SfpCalls2
  <2> QED
    BY <2>2, <2>3, Chosen
<1>81. MediaReadGeneric(c, GenericPages) \subseteq Calls
  BY <1>7 DEF MediaReadGeneric
<1>82. MediaWriteGeneric(c, GenericPages) \subseteq Calls
  BY <1>7 DEF MediaWriteGeneric
<1>83. MediaRead(c) \subseteq Calls
  BY <1>7 DEF MediaRead, ReadRaw, SfpRead
<1>84. MediaWrite(c) \subseteq Calls
  BY <1>7 DEF MediaWrite, WriteRaw, SfpWrite
<1>9. MediaTxControl(c) \subseteq Calls
  BY TxScripts
<1> QED
  BY <1>31, <1>32, <1>33, <1>34, <1>35, <1>4, <1>61, <1>62, <1>63, <1>64, <1>65, <1>66, <1>67, <1>68,
     <1>81, <1>82, <1>83, <1>84, <1>9 DEF LaxCalls

(* The calls of a port, by what its driver remembers and what is in its cage. *)
LEMMA PortCalls ==
  ASSUME NEW p \in Ports, NEW d \in Drivers, NEW m \in Modules \cup {NoModule}
  PROVE  /\ \A alone \in BOOLEAN : \A call \in CallsOf[Context(p, d, m)][alone] :
              call.lax \in BOOLEAN /\ call.steps \in Calls
         /\ \A pres \in BOOLEAN : \A call \in InitsOf[Context(p, d, m)][pres] :
              call.lax \in BOOLEAN /\ call.steps \in Calls
<1> DEFINE c == Context(p, d, m)
<1>1. c \in Contexts /\ c.first \in Nat /\ c.d \in Drivers
  <2>1. c \in Contexts
    BY DEF Contexts
  <2>2. c.first = Port[p].first /\ c.d = d
    BY DEF Context
  <2> QED
    BY <2>1, <2>2, PlatformAssumption
<1>7. c = Context(p, d, m)
  OBVIOUS
<1> HIDE DEF c
<1>2. \A call \in AllCalls(c) : call.lax \in BOOLEAN /\ call.steps \in Calls
  <2>1. StrictCalls(c) \subseteq Calls /\ LaxCalls(c) \subseteq Calls
    BY <1>1, StrictScripts, LaxScripts
  <2> SUFFICES ASSUME NEW call \in AllCalls(c) PROVE call.lax \in BOOLEAN /\ call.steps \in Calls
    OBVIOUS
  <2>2. call \in Strict(StrictCalls(c)) \/ call \in Lax(LaxCalls(c) \ StrictCalls(c))
    BY ONLY call \in AllCalls(c) DEF AllCalls
  <2>3. CASE call \in Strict(StrictCalls(c))
    <3>1. PICK s \in StrictCalls(c) : call = [lax |-> FALSE, steps |-> s]
      BY ONLY <2>3 DEF Strict
    <3> QED
      BY <2>1, <3>1
  <2>4. CASE call \in Lax(LaxCalls(c) \ StrictCalls(c))
    <3>1. PICK s \in LaxCalls(c) \ StrictCalls(c) : call = [lax |-> TRUE, steps |-> s]
      BY ONLY <2>4 DEF Lax
    <3> QED
      BY <2>1, <3>1
  <2> QED
    BY <2>2, <2>3, <2>4
<1>3. \A alone \in BOOLEAN : CallsOf[c][alone] \subseteq AllCalls(c)
  BY <1>1 DEF CallsOf
<1>4. \A pres \in BOOLEAN : InitsOf[c][pres] = Lax(MediaModuleInit(c, pres))
  BY <1>1 DEF InitsOf
<1>5. \A pres \in BOOLEAN : MediaModuleInit(c, pres) \subseteq Calls
  <2> TAKE pres \in BOOLEAN
  <2>1. SfpModuleInit \in Calls
    BY SfpCalls2
  <2>2. ModuleInit(c.d, c.f, pres) \in Calls
    BY <1>1, InitCalls
  <2> QED
    BY <2>1, <2>2 DEF MediaModuleInit
<1>6. ASSUME NEW pres \in BOOLEAN, NEW call \in InitsOf[c][pres]
      PROVE  call.lax \in BOOLEAN /\ call.steps \in Calls
  <2>1. call \in Lax(MediaModuleInit(c, pres))
    BY <1>4
  <2>2. PICK s \in MediaModuleInit(c, pres) : call = [lax |-> TRUE, steps |-> s]
    BY ONLY <2>1 DEF Lax
  <2> QED
    BY <1>5, <2>2
<1> QED
  BY <1>2, <1>3, <1>6, <1>7

--------------------------------------------------------------------------------
(* The inductive invariant: every thread stands at a phase from which what is    *)
(* left of its call flows out, it holds exactly the groups of that phase (a read *)
(* that leaked adds to them), and those it has written still point to its cage.  *)
Records == [p : Ports \cup {Idle}, seq : Seq(Steps), rc : {"ok", "err"}, lost : BOOLEAN,
            lax : BOOLEAN, init : BOOLEAN, buf : SUBSET Lanes, late : BOOLEAN,
            astray : BOOLEAN]

(* The groups a thread holds in a phase, and those that it has pointed to   *)
(* the cage of its port.                                                   *)
Held(p, ph) ==
  ((IF ph \in {"mux", "muxset", "mod", "in"} THEN {Port[p].mux} ELSE {}) \cup
   (IF ph \in {"mod", "in", "part"} THEN {Port[p].mod} ELSE {}) \cup
   (IF ph = "pin" THEN {"pins"} ELSE {})) \ {NoGroup}
Pointed(p, ph) ==
  ((IF ph \in {"muxset", "mod", "in"} THEN {Port[p].mux} ELSE {}) \cup
   (IF ph = "in" THEN {Port[p].mod} ELSE {})) \ {NoGroup}

Holding(u, p, ph, L, P) ==
  \A g \in Groups : /\ g \in Held(p, ph) => L[g] = u
                    /\ L[g] = u => g \in Held(p, ph) \/ LeakyReads
                    /\ g \in Pointed(p, ph) => P[g] = CageOf(p)
(* The thread stands where its remaining steps begin. *)
Placed(u, r, L, P) ==
  IF r.p = Idle THEN \A g \in Groups : L[g] = u => LeakyReads
  ELSE \E ph \in Phases : Flows(r.seq, ph, "out") /\ Holding(u, r.p, ph, L, P)

Typed ==
  /\ th \in [Threads -> Records]
  /\ lock \in [Groups -> Threads \cup {Free}]
  /\ sel \in [Groups -> Cages \cup {Free}]
  /\ module \in [Cages -> Modules \cup {NoModule}]
  /\ page \in [Cages -> Pages]
  /\ off \in [Cages -> SUBSET Lanes]
  /\ drv \in [Ports -> Drivers]
  /\ scene \in Scenes
Inv == Typed /\ \A u \in Threads : Placed(u, th[u], lock, sel)

LEMMA PointedHeld == \A p, ph : Pointed(p, ph) \subseteq Held(p, ph)
BY DEF Pointed, Held

(* One thread moves on; the others stand where they stood, since what they  *)
(* hold and have pointed is their own.                                     *)
LEMMA Moves ==
  ASSUME NEW T \in [Threads -> Records], NEW L, NEW P, NEW L2, NEW P2, NEW t \in Threads, NEW r,
         \A u \in Threads : Placed(u, T[u], L, P),
         Placed(t, r, L2, P2),
         \A g \in Groups : L2[g] = L[g] \/ (L[g] \in {t, Free} /\ L2[g] \in {t, Free}),
         \A g \in Groups : P2[g] = P[g] \/ L[g] = t
  PROVE  \A u \in Threads : Placed(u, [T EXCEPT ![t] = r][u], L2, P2)
<1> SUFFICES ASSUME NEW u \in Threads PROVE Placed(u, [T EXCEPT ![t] = r][u], L2, P2)
  OBVIOUS
<1>1. CASE u = t
  BY <1>1
<1>2. CASE u # t
  <2>1. [T EXCEPT ![t] = r][u] = T[u] /\ Placed(u, T[u], L, P)
    BY <1>2
  <2>2. u # Free
    BY PlatformAssumption
  <2>3. \A g \in Groups : L2[g] = u <=> L[g] = u
    BY <1>2, <2>2
  <2>4. \A ph : Holding(u, T[u].p, ph, L, P) => Holding(u, T[u].p, ph, L2, P2)
    <3> TAKE ph
    <3> HAVE Holding(u, T[u].p, ph, L, P)
    <3>1. ASSUME NEW g \in Groups, g \in Pointed(T[u].p, ph)
          PROVE  P2[g] = CageOf(T[u].p)
      <4>1. L[g] = u /\ P[g] = CageOf(T[u].p)
        BY <3>1, PointedHeld DEF Holding
      <4> QED
        BY <1>2, <4>1
    <3> QED
      BY <2>3, <3>1 DEF Holding
  <2> QED
    BY <2>1, <2>3, <2>4 DEF Placed
<1> QED
  BY <1>1, <1>2

(* Where a thread with steps left stands. *)
LEMMA AtStep ==
  ASSUME Inv, NEW t \in Threads, Running(t)
  PROVE  /\ th[t] \in Records /\ th[t].p \in Ports
         /\ Step(t) \in Steps /\ Tail(th[t].seq) \in Seq(Steps)
         /\ \E ph, b \in Phases :
              /\ Holding(t, th[t].p, ph, lock, sel)
              /\ Phased(Step(t), ph, b) /\ Flows(Tail(th[t].seq), b, "out")
              /\ Leaving(Step(t)) =>
                   /\ Drop(Tail(th[t].seq), Far(Step(t))) \in Seq(Steps)
                   /\ Flows(Drop(Tail(th[t].seq), Far(Step(t))), Left(Step(t), ph), "out")
<1>1. th[t] \in Records /\ th[t].p # Idle /\ th[t].seq # << >> /\ Placed(t, th[t], lock, sel)
  BY DEF Inv, Typed, Running
<1>2. th[t].p \in Ports
  BY <1>1 DEF Records
<1>3. PICK ph \in Phases : Flows(th[t].seq, ph, "out") /\ Holding(t, th[t].p, ph, lock, sel)
  BY <1>1 DEF Placed
<1>4. PICK s : s = th[t].seq
  OBVIOUS
<1>5. /\ Head(s) \in Steps /\ Tail(s) \in Seq(Steps)
      /\ \E b \in Phases : Phased(Head(s), ph, b) /\ Flows(Tail(s), b, "out")
  BY <1>1, <1>3, <1>4, FlowsTail
<1>6. Leaving(Head(s)) =>
        /\ Drop(Tail(s), Far(Head(s))) \in Seq(Steps)
        /\ Flows(Drop(Tail(s), Far(Head(s))), Left(Head(s), ph), "out")
  BY <1>1, <1>3, <1>4, FlowsDrop
<1>7. Step(t) = Head(s)
  BY <1>4 DEF Step
<1> QED
  BY <1>1, <1>2, <1>3, <1>4, <1>5, <1>6, <1>7

(* What a step does to what is held and pointed. *)
LEMMA GroupIn ==
  ASSUME NEW t \in Threads, th[t].p \in Ports
  PROVE  GroupOf(t) \in Groups
BY DEF GroupOf, Groups

LEMMA AcquireHolds ==
  ASSUME NEW t \in Threads, th[t].p \in Ports, NEW a, NEW b,
         Phased(Step(t), a, b), Step(t).do \in AcquireSteps
  PROVE  /\ Held(th[t].p, b) = Held(th[t].p, a) \cup ({GroupOf(t)} \ {NoGroup})
         /\ Pointed(th[t].p, b) = Pointed(th[t].p, a)
<1>1. CASE Step(t).do = "acqmux"
  BY <1>1 DEF Phased, GroupOf, Held, Pointed
<1>2. CASE Step(t).do = "acqmod"
  BY <1>2 DEF Phased, GroupOf, Held, Pointed
<1>3. CASE Step(t).do = "acqpin"
  BY <1>3 DEF Phased, GroupOf, Held, Pointed
<1> QED
  BY <1>1, <1>2, <1>3 DEF AcquireSteps

LEMMA SelectHolds ==
  ASSUME NEW t \in Threads, th[t].p \in Ports, NEW a, NEW b,
         Phased(Step(t), a, b), Step(t).do \in SelectSteps
  PROVE  /\ Held(th[t].p, b) = Held(th[t].p, a)
         /\ Pointed(th[t].p, b) = Pointed(th[t].p, a) \cup ({GroupOf(t)} \ {NoGroup})
         /\ GroupOf(t) # NoGroup => GroupOf(t) \in Held(th[t].p, a)
<1>1. CASE Step(t).do = "setmux"
  BY <1>1 DEF Phased, GroupOf, Held, Pointed
<1>2. CASE Step(t).do = "setmod"
  BY <1>2 DEF Phased, GroupOf, Held, Pointed
<1> QED
  BY <1>1, <1>2 DEF SelectSteps

LEMMA DeselectHolds ==
  ASSUME NEW t \in Threads, th[t].p \in Ports, NEW a, NEW b,
         Phased(Step(t), a, b), Step(t).do \in DropSteps
  PROVE  /\ Held(th[t].p, b) = Held(th[t].p, a) \ {GroupOf(t)}
         /\ Pointed(th[t].p, b) \subseteq Pointed(th[t].p, a)
         /\ GroupOf(t) # NoGroup => GroupOf(t) \in Held(th[t].p, a)
<1>1. Port[th[t].p].mux = Port[th[t].p].mod => Port[th[t].p].mux = NoGroup
  BY PlatformAssumption
<1>2. CASE Step(t).do = "dropmux"
  BY <1>1, <1>2 DEF Phased, GroupOf, Held, Pointed
<1>3. CASE Step(t).do = "dropmod"
  BY <1>1, <1>3 DEF Phased, GroupOf, Held, Pointed
<1>4. CASE Step(t).do = "droppin"
  <2>1. "pins" # NoGroup
    BY PlatformAssumption
  <2> QED
    BY <1>4, <2>1 DEF Phased, GroupOf, Held, Pointed
<1> QED
  BY <1>2, <1>3, <1>4 DEF DropSteps

LEMMA OutHolds == \A p : Held(p, "out") = {} /\ Pointed(p, "out") = {}
BY DEF Held, Pointed

(* A step of a call that is under way. *)
LEMMA Proceeds ==
  ASSUME Inv, NEW t \in Threads, NEW r \in Records, th[t].p \in Ports, r.p = th[t].p,
         Proceed(t, r), NEW b \in Phases, Flows(r.seq, b, "out"),
         Holding(t, th[t].p, b, lock', sel'),
         \A g \in Groups : lock'[g] = lock[g] \/ (lock[g] \in {t, Free} /\ lock'[g] \in {t, Free}),
         \A g \in Groups : sel'[g] = sel[g] \/ lock[g] = t
  PROVE  th' \in [Threads -> Records] /\ \A u \in Threads : Placed(u, th'[u], lock', sel')
<1>1. th \in [Threads -> Records] /\ \A u \in Threads : Placed(u, th[u], lock, sel)
  BY DEF Inv, Typed
<1>2. r.p # Idle
  BY PlatformAssumption
<1>3. Placed(t, r, lock', sel')
  BY <1>2 DEF Placed
<1>4. \A u \in Threads : Placed(u, [th EXCEPT ![t] = r][u], lock', sel')
  <2>1. PICK T \in [Threads -> Records] : T = th
    BY <1>1
  <2>2. PICK L, P, L2, P2 : L = lock /\ P = sel /\ L2 = lock' /\ P2 = sel'
    OBVIOUS
  <2>3. /\ \A u \in Threads : Placed(u, T[u], L, P)
        /\ Placed(t, r, L2, P2)
        /\ \A g \in Groups : L2[g] = L[g] \/ (L[g] \in {t, Free} /\ L2[g] \in {t, Free})
        /\ \A g \in Groups : P2[g] = P[g] \/ L[g] = t
    BY <1>1, <1>3, <2>1, <2>2
  <2>4. \A u \in Threads : Placed(u, [T EXCEPT ![t] = r][u], L2, P2)
    BY ONLY <2>3, T \in [Threads -> Records], t \in Threads, Moves
  <2> QED
    BY <2>1, <2>2, <2>4
<1>5. th' = [th EXCEPT ![t] = r]
  BY DEF Proceed
<1> QED
  BY <1>1, <1>4, <1>5

(* ... that leaves the pin groups alone. *)
LEMMA Stays ==
  ASSUME Inv, NEW t \in Threads, NEW r \in Records, th[t].p \in Ports, r.p = th[t].p,
         Proceed(t, r), NEW b \in Phases, Flows(r.seq, b, "out"),
         Holding(t, th[t].p, b, lock, sel), lock' = lock, sel' = sel
  PROVE  th' \in [Threads -> Records] /\ \A u \in Threads : Placed(u, th'[u], lock', sel')
<1>1. Holding(t, th[t].p, b, lock', sel')
  OBVIOUS
<1> QED
  BY <1>1, Proceeds

LEMMA SucceededForm ==
  ASSUME NEW t \in Threads, th[t] \in Records, Tail(th[t].seq) \in Seq(Steps)
  PROVE  Succeeded(t) \in Records /\ Succeeded(t).p = th[t].p /\ Succeeded(t).seq = Tail(th[t].seq)
<1>1. PICK s \in Seq(Steps) : s = Tail(th[t].seq)
  OBVIOUS
<1>2. PICK rc \in {"ok", "err"} : rc = IF Step(t).quiet THEN th[t].rc ELSE "ok"
  BY DEF Records
<1>3. Succeeded(t) = [th[t] EXCEPT !.seq = s, !.rc = rc]
  BY <1>1, <1>2 DEF Succeeded
<1> HIDE DEF Records
<1>4. PICK r \in Records : r = th[t]
  OBVIOUS
<1>5. \A w : w = [r EXCEPT !.seq = s, !.rc = rc] => w \in Records /\ w.p = r.p /\ w.seq = s
  BY DEF Records
<1> QED
  BY <1>1, <1>3, <1>4, <1>5

LEMMA FailedForm ==
  ASSUME NEW t \in Threads, th[t] \in Records, NEW q \in Seq(Steps),
         q = Drop(Tail(th[t].seq), Step(t).skip)
  PROVE  Failed(t) \in Records /\ Failed(t).p = th[t].p /\ Failed(t).seq = q
<1>2. PICK rc \in {"ok", "err"} : rc = IF Step(t).quiet THEN th[t].rc ELSE "err"
  BY DEF Records
<1>6. PICK lost \in BOOLEAN : lost = ~th[t].lax
  OBVIOUS
<1>3. Failed(t) = [th[t] EXCEPT !.seq = q, !.lost = lost, !.rc = rc]
  BY <1>2, <1>6 DEF Failed
<1>4. PICK r \in Records : r = th[t]
  OBVIOUS
<1>5. \A w : w = [r EXCEPT !.seq = q, !.lost = lost, !.rc = rc] => w \in Records /\ w.p = r.p /\ w.seq = q
  BY DEF Records
<1> QED
  BY <1>3, <1>4, <1>5

--------------------------------------------------------------------------------
(* Every action keeps it. *)
LEMMA KeepsAcquire ==
  ASSUME Inv, NEW t \in Threads, Acquire(t)
  PROVE  Inv'
<1>1. /\ th[t] \in Records /\ th[t].p \in Ports /\ Step(t) \in Steps /\ Tail(th[t].seq) \in Seq(Steps)
      /\ Running(t) /\ Step(t).do \in AcquireSteps
  BY AtStep DEF Acquire
<1>2. PICK a, b \in Phases : /\ Holding(t, th[t].p, a, lock, sel) /\ Phased(Step(t), a, b)
                             /\ Flows(Tail(th[t].seq), b, "out")
  BY <1>1, AtStep
<1>3. Succeeded(t) \in Records /\ Succeeded(t).p = th[t].p /\ Succeeded(t).seq = Tail(th[t].seq)
  BY <1>1, SucceededForm
<1>4. /\ Held(th[t].p, b) = Held(th[t].p, a) \cup ({GroupOf(t)} \ {NoGroup})
      /\ Pointed(th[t].p, b) = Pointed(th[t].p, a)
  BY <1>1, <1>2, AcquireHolds
<1>5. GroupOf(t) \in Groups /\ sel' = sel /\ Proceed(t, Succeeded(t))
  BY <1>1, GroupIn DEF Acquire
<1>6. CASE GroupOf(t) = NoGroup
  <2>1. lock' = lock
    BY <1>6 DEF Acquire
  <2>2. Holding(t, th[t].p, b, lock, sel)
    BY <1>2, <1>4, <1>6 DEF Holding
  <2>3. th' \in [Threads -> Records] /\ \A u \in Threads : Placed(u, th'[u], lock', sel')
    BY <1>1, <1>2, <1>3, <1>5, <2>1, <2>2, Stays
  <2> QED
    BY <1>5, <2>1, <2>3 DEF Inv, Typed, Acquire
<1>7. CASE GroupOf(t) # NoGroup
  <2>1. lock[GroupOf(t)] = Free /\ lock' = [lock EXCEPT ![GroupOf(t)] = t]
    BY <1>7 DEF Acquire
  <2>2. lock \in [Groups -> Threads \cup {Free}]
    BY DEF Inv, Typed
  <2>3. lock' \in [Groups -> Threads \cup {Free}] /\ \A g \in Groups : lock'[g] = IF g = GroupOf(t) THEN t ELSE lock[g]
    BY <1>5, <2>1, <2>2
  <2>4. Holding(t, th[t].p, b, lock', sel')
    BY <1>2, <1>4, <1>5, <1>7, <2>3 DEF Holding
  <2>5. \A g \in Groups : lock'[g] = lock[g] \/ (lock[g] \in {t, Free} /\ lock'[g] \in {t, Free})
    BY <2>1, <2>3
  <2>6. th' \in [Threads -> Records] /\ \A u \in Threads : Placed(u, th'[u], lock', sel')
    BY <1>1, <1>2, <1>3, <1>5, <2>4, <2>5, Proceeds
  <2> QED
    BY <1>5, <2>3, <2>6 DEF Inv, Typed, Acquire
<1> QED
  BY <1>6, <1>7

LEMMA KeepsSelect ==
  ASSUME Inv, NEW t \in Threads, Select(t)
  PROVE  Inv'
<1>1. /\ th[t] \in Records /\ th[t].p \in Ports /\ Step(t) \in Steps /\ Tail(th[t].seq) \in Seq(Steps)
      /\ Running(t) /\ Step(t).do \in SelectSteps
  BY AtStep DEF Select
<1>2. PICK a, b \in Phases : /\ Holding(t, th[t].p, a, lock, sel) /\ Phased(Step(t), a, b)
                             /\ Flows(Tail(th[t].seq), b, "out")
  BY <1>1, AtStep
<1>3. Succeeded(t) \in Records /\ Succeeded(t).p = th[t].p /\ Succeeded(t).seq = Tail(th[t].seq)
  BY <1>1, SucceededForm
<1>4. /\ Held(th[t].p, b) = Held(th[t].p, a)
      /\ Pointed(th[t].p, b) = Pointed(th[t].p, a) \cup ({GroupOf(t)} \ {NoGroup})
      /\ GroupOf(t) # NoGroup => GroupOf(t) \in Held(th[t].p, a)
  BY <1>1, <1>2, SelectHolds
<1>5. GroupOf(t) \in Groups /\ lock' = lock /\ Proceed(t, Succeeded(t))
  BY <1>1, GroupIn DEF Select
<1>6. CASE GroupOf(t) = NoGroup
  <2>1. sel' = sel
    BY <1>6 DEF Select
  <2>2. Holding(t, th[t].p, b, lock, sel)
    BY <1>2, <1>4, <1>6 DEF Holding
  <2>3. th' \in [Threads -> Records] /\ \A u \in Threads : Placed(u, th'[u], lock', sel')
    BY <1>1, <1>2, <1>3, <1>5, <2>1, <2>2, Stays
  <2> QED
    BY <1>5, <2>1, <2>3 DEF Inv, Typed, Select
<1>7. CASE GroupOf(t) # NoGroup
  <2>1. sel' = [sel EXCEPT ![GroupOf(t)] = Module(t)]
    BY <1>7 DEF Select
  <2>2. sel \in [Groups -> Cages \cup {Free}] /\ Module(t) \in Cages /\ Module(t) = CageOf(th[t].p)
    BY <1>1, PlatformAssumption DEF Inv, Typed, Module, CageOf
  <2>3. sel' \in [Groups -> Cages \cup {Free}] /\ \A g \in Groups : sel'[g] = IF g = GroupOf(t) THEN CageOf(th[t].p) ELSE sel[g]
    BY <1>5, <2>1, <2>2
  <2>7. lock[GroupOf(t)] = t
    BY <1>2, <1>4, <1>5, <1>7 DEF Holding
  <2>4. Holding(t, th[t].p, b, lock', sel')
    BY <1>2, <1>4, <1>5, <1>7, <2>3 DEF Holding
  <2>5. \A g \in Groups : sel'[g] = sel[g] \/ lock[g] = t
    BY <2>3, <2>7
  <2>6. th' \in [Threads -> Records] /\ \A u \in Threads : Placed(u, th'[u], lock', sel')
    BY <1>1, <1>2, <1>3, <1>5, <2>4, <2>5, Proceeds
  <2> QED
    BY <1>5, <2>3, <2>6 DEF Inv, Typed, Select
<1> QED
  BY <1>6, <1>7

LEMMA KeepsSelectFails ==
  ASSUME Inv, NEW t \in Threads, SelectFails(t)
  PROVE  Inv'
<1>1. /\ th[t] \in Records /\ th[t].p \in Ports /\ Step(t) \in Steps
      /\ Running(t) /\ Step(t).do \in AcquireSteps \cup SelectSteps
  BY AtStep DEF SelectFails
<1>2. Leaving(Step(t)) /\ Far(Step(t)) = Step(t).skip /\ \A a : Left(Step(t), a) = "out"
  BY <1>1 DEF Leaving, Far, Left, Leaks, AcquireSteps, SelectSteps, DropSteps, EepromSteps
<1>3. PICK a \in Phases : /\ Holding(t, th[t].p, a, lock, sel)
                          /\ Drop(Tail(th[t].seq), Step(t).skip) \in Seq(Steps)
                          /\ Flows(Drop(Tail(th[t].seq), Step(t).skip), "out", "out")
  BY <1>1, <1>2, AtStep
<1>4. Failed(t) \in Records /\ Failed(t).p = th[t].p /\ Failed(t).seq = Drop(Tail(th[t].seq), Step(t).skip)
  BY <1>1, <1>3, FailedForm
<1>5. sel' = sel /\ Proceed(t, Failed(t)) /\ lock' = [g \in Groups |-> IF lock[g] = t THEN Free ELSE lock[g]]
  BY DEF SelectFails, Release
<1>6. lock \in [Groups -> Threads \cup {Free}] /\ t # Free
  BY PlatformAssumption DEF Inv, Typed
<1>7. /\ lock' \in [Groups -> Threads \cup {Free}]
      /\ \A g \in Groups : lock'[g] # t /\ (lock'[g] = lock[g] \/ (lock[g] \in {t, Free} /\ lock'[g] \in {t, Free}))
  BY <1>5, <1>6
<1>8. Holding(t, th[t].p, "out", lock', sel')
  BY <1>7, OutHolds DEF Holding
<1>9. "out" \in Phases
  BY DEF Phases
<1>10. th' \in [Threads -> Records] /\ \A u \in Threads : Placed(u, th'[u], lock', sel')
  BY <1>1, <1>3, <1>4, <1>5, <1>7, <1>8, <1>9, Proceeds
<1> QED
  BY <1>5, <1>7, <1>10 DEF Inv, Typed, SelectFails

LEMMA KeepsDeselect ==
  ASSUME Inv, NEW t \in Threads, Deselect(t)
  PROVE  Inv'
<1>1. /\ th[t] \in Records /\ th[t].p \in Ports /\ Step(t) \in Steps /\ Tail(th[t].seq) \in Seq(Steps)
      /\ Running(t) /\ Step(t).do \in DropSteps
  BY AtStep DEF Deselect
<1>2. PICK a, b \in Phases : /\ Holding(t, th[t].p, a, lock, sel) /\ Phased(Step(t), a, b)
                             /\ Flows(Tail(th[t].seq), b, "out")
  BY <1>1, AtStep
<1>3. PICK r \in Records : /\ r = [th[t] EXCEPT !.seq = Tail(@), !.late = TRUE]
                           /\ r.p = th[t].p /\ r.seq = Tail(th[t].seq)
  <2>1. PICK s \in Seq(Steps) : s = Tail(th[t].seq)
    BY <1>1
  <2>2. PICK q \in Records : q = th[t]
    BY <1>1
  <2>3. \A w : w = [q EXCEPT !.seq = s, !.late = TRUE] => w \in Records /\ w.p = q.p /\ w.seq = s
    BY DEF Records
  <2> QED
    BY <2>1, <2>2, <2>3
<1>4. /\ Held(th[t].p, b) = Held(th[t].p, a) \ {GroupOf(t)}
      /\ Pointed(th[t].p, b) \subseteq Pointed(th[t].p, a)
      /\ GroupOf(t) # NoGroup => GroupOf(t) \in Held(th[t].p, a)
  BY <1>1, <1>2, DeselectHolds
<1>5. GroupOf(t) \in Groups /\ sel' = sel /\ Proceed(t, r)
  BY <1>1, <1>3, GroupIn DEF Deselect
<1>6. CASE GroupOf(t) = NoGroup
  <2>1. lock' = lock
    BY <1>6 DEF Deselect
  <2>4. NoGroup \notin Held(th[t].p, a)
    BY DEF Held
  <2>2. Holding(t, th[t].p, b, lock, sel)
    BY <1>2, <1>4, <1>6, <2>4 DEF Holding
  <2>3. th' \in [Threads -> Records] /\ \A u \in Threads : Placed(u, th'[u], lock', sel')
    BY <1>1, <1>2, <1>3, <1>5, <2>1, <2>2, Stays
  <2> QED
    BY <1>5, <2>1, <2>3 DEF Inv, Typed, Deselect
<1>7. CASE GroupOf(t) # NoGroup
  <2>1. lock' = [lock EXCEPT ![GroupOf(t)] = Free]
    BY <1>7 DEF Deselect
  <2>2. lock \in [Groups -> Threads \cup {Free}] /\ t # Free
    BY PlatformAssumption DEF Inv, Typed
  <2>3. lock' \in [Groups -> Threads \cup {Free}] /\ \A g \in Groups : lock'[g] = IF g = GroupOf(t) THEN Free ELSE lock[g]
    BY <1>5, <2>1, <2>2
  <2>7. lock[GroupOf(t)] = t
    BY <1>2, <1>4, <1>5, <1>7 DEF Holding
  <2>4. Holding(t, th[t].p, b, lock', sel')
    BY <1>2, <1>4, <1>5, <1>7, <2>2, <2>3 DEF Holding
  <2>5. \A g \in Groups : lock'[g] = lock[g] \/ (lock[g] \in {t, Free} /\ lock'[g] \in {t, Free})
    BY <2>3, <2>7
  <2>6. th' \in [Threads -> Records] /\ \A u \in Threads : Placed(u, th'[u], lock', sel')
    BY <1>1, <1>2, <1>3, <1>5, <2>4, <2>5, Proceeds
  <2> QED
    BY <1>5, <2>3, <2>6 DEF Inv, Typed, Deselect
<1> QED
  BY <1>6, <1>7

(* What an access does to the transmitters and to the driver's memory. *)
LEMMA OffTyped ==
  ASSUME Inv, NEW t \in Threads, Running(t), NEW k \in Cages
  PROVE  OffAfter(t, k) \subseteq Lanes
<1>1. off[k] \subseteq Lanes /\ th[t].buf \subseteq Lanes /\ Step(t) \in Steps
  BY AtStep DEF Inv, Typed, Records
<1>2. ASSUME NEW set \in SUBSET Lanes, NEW n \in Signed PROVE Switched(set, n) \subseteq Lanes
  <2>1. n > 0 \/ -n \in Lanes
    <3>1. n \in 1..9 \/ -n \in 1..9
      BY DEF Signed, Lanes, Serdes
    <3> QED
      BY <3>1 DEF Lanes, Serdes
  <2> QED
    BY <2>1 DEF Switched
<1>3. Step(t).do \in {"writetx", "txpin"} => Step(t).n \in Signed
  BY <1>1 DEF Steps
<1> QED
  BY <1>1, <1>2, <1>3 DEF OffAfter

LEMMA DrvTyped ==
  ASSUME NEW t, NEW d \in Drivers, NEW f, NEW m \in Modules
  PROVE  DrvAfter(t, d, f, m) \in Drivers
<1>1. [d EXCEPT !.qsa = @ \/ "sfp" \in f, !.dd = GetCategory(f)] \in Drivers
  <2>1. GetCategory(f) \in BOOLEAN /\ (d.qsa \/ "sfp" \in f) \in BOOLEAN
    BY DEF GetCategory
  <2>2. PICK x, y \in BOOLEAN : x = (d.qsa \/ "sfp" \in f) /\ y = GetCategory(f)
    BY <2>1
  <2>3. [d EXCEPT !.qsa = x, !.dd = y] \in Drivers
    BY DEF Drivers
  <2> QED
    BY <2>2, <2>3
<1>2. [d EXCEPT !.ver = IF "ver3" \in f THEN 3 ELSE IF "ver2" \in f THEN 2 ELSE 0] \in Drivers
  <2>1. PICK v \in {0, 2, 3} : v = IF "ver3" \in f THEN 3 ELSE IF "ver2" \in f THEN 2 ELSE 0
    OBVIOUS
  <2>2. [d EXCEPT !.ver = v] \in Drivers
    BY DEF Drivers
  <2> QED
    BY <2>1, <2>2
<1>3. [d EXCEPT !.mw = PowerOf[m], !.soft = "soft" \in f] \in Drivers
  <2>4. ("soft" \in f) \in BOOLEAN
    OBVIOUS
  <2>1. PICK x \in BOOLEAN : x = ("soft" \in f)
    BY <2>4
  <2>3. PICK w \in {PowerOf[q] : q \in Modules} : w = PowerOf[m]
    OBVIOUS
  <2>2. [d EXCEPT !.mw = w, !.soft = x] \in Drivers
    BY DEF Drivers
  <2> QED
    BY <2>1, <2>2, <2>3
<1> QED
  BY <1>1, <1>2, <1>3 DEF DrvAfter

LEMMA KeepsAccess ==
  ASSUME Inv, NEW t \in Threads, Access(t)
  PROVE  Inv'
<1> DEFINE k == Module(t)
           s == Step(t)
<1>1. /\ th[t] \in Records /\ th[t].p \in Ports /\ s \in Steps /\ Tail(th[t].seq) \in Seq(Steps)
      /\ Running(t) /\ k \in Cages
      /\ s.do \in PinSteps \/ (s.do \in EepromSteps /\ module[k] # NoModule)
  BY AtStep, PlatformAssumption DEF Access, Module, CageOf
<1>2. PICK a \in Phases : /\ Holding(t, th[t].p, a, lock, sel)
                          /\ Flows(Tail(th[t].seq), a, "out")
  BY <1>1, AtStep DEF Phased
<1>3. PICK r \in Records : /\ r = [Succeeded(t) EXCEPT !.buf = IF s.do \in {"readtx", "readserdes"} THEN off[k] ELSE @]
                           /\ r.p = th[t].p /\ r.seq = Tail(th[t].seq)
  <2>1. PICK q \in Records : q = Succeeded(t) /\ q.p = th[t].p /\ q.seq = Tail(th[t].seq)
    BY <1>1, SucceededForm
  <2>2. PICK buf \in SUBSET Lanes : buf = IF s.do \in {"readtx", "readserdes"} THEN off[k] ELSE q.buf
    BY <1>1 DEF Inv, Typed, Records
  <2>3. \A w : w = [q EXCEPT !.buf = buf] => w \in Records /\ w.p = q.p /\ w.seq = q.seq
    BY DEF Records
  <2> QED
    BY <2>1, <2>2, <2>3
<1>4. /\ Proceed(t, r) /\ lock' = lock /\ sel' = sel /\ module' = module /\ scene' = scene
      /\ page' = IF s.do = "page" THEN [page EXCEPT ![k] = s.n] ELSE page
      /\ off' = IF module[k] = NoModule THEN off ELSE [off EXCEPT ![k] = OffAfter(t, k)]
      /\ drv' = IF s.do \in {"identify", "learnversion", "learnpower"}
                THEN [drv EXCEPT ![th[t].p] = DrvAfter(t, @, Facts(k, module), module[k])] ELSE drv
  BY <1>3 DEF Access
<1>5. th' \in [Threads -> Records] /\ \A u \in Threads : Placed(u, th'[u], lock', sel')
  BY <1>1, <1>2, <1>3, <1>4, Stays
<1>6. page' \in [Cages -> Pages]
  <2>1. s.do = "page" => s.n \in Pages
    BY <1>1 DEF Steps
  <2>2. page \in [Cages -> Pages]
    BY DEF Inv, Typed
  <2> QED
    BY <1>1, <1>4, <2>1, <2>2
<1>7. off' \in [Cages -> SUBSET Lanes]
  <2>1. OffAfter(t, k) \subseteq Lanes /\ off \in [Cages -> SUBSET Lanes]
    BY <1>1, OffTyped DEF Inv, Typed
  <2> HIDE DEF k
  <2> QED
    BY <1>1, <1>4, <2>1
<1>8. drv' \in [Ports -> Drivers]
  <2>1. drv \in [Ports -> Drivers] /\ module \in [Cages -> Modules \cup {NoModule}]
    BY DEF Inv, Typed
  <2>2. CASE s.do \in {"identify", "learnversion", "learnpower"}
    <3>1. module[k] \in Modules
      BY <1>1, <2>1, <2>2 DEF PinSteps
    <3>2. DrvAfter(t, drv[th[t].p], Facts(k, module), module[k]) \in Drivers
      BY <1>1, <2>1, <3>1, DrvTyped
    <3>3. drv' = [drv EXCEPT ![th[t].p] = DrvAfter(t, drv[th[t].p], Facts(k, module), module[k])]
      BY <1>4, <2>2
    <3> QED
      BY <1>1, <2>1, <3>2, <3>3
  <2> QED
    BY <1>4, <2>1, <2>2
<1> HIDE DEF k, s
<1> QED
  BY <1>4, <1>5, <1>6, <1>7, <1>8 DEF Inv, Typed

LEMMA KeepsAccessFails ==
  ASSUME Inv, NEW t \in Threads, AccessFails(t)
  PROVE  Inv'
<1>1. /\ th[t] \in Records /\ th[t].p \in Ports /\ Step(t) \in Steps
      /\ Running(t) /\ Step(t).do \in EepromSteps \cup PinSteps
      /\ LeakyReads \/ ~Leaks(Step(t))
  BY AtStep DEF AccessFails
<1>2. PICK a \in Phases : /\ Holding(t, th[t].p, a, lock, sel)
                          /\ Drop(Tail(th[t].seq), Step(t).skip) \in Seq(Steps)
                          /\ Flows(Drop(Tail(th[t].seq), Step(t).skip), a, "out")
  <2>1. CASE Leaks(Step(t))
    <3>1. Drop(Tail(th[t].seq), Step(t).skip) = << >>
      BY <2>1 DEF Leaks, Drop
    <3>2. PICK ph \in Phases : Holding(t, th[t].p, ph, lock, sel)
      BY <1>1, AtStep
    <3>3. Holding(t, th[t].p, "out", lock, sel)
      BY <1>1, <2>1, OutHolds DEF Holding
    <3>4. "out" \in Phases
      BY DEF Phases
    <3> QED
      BY <3>1, <3>3, <3>4, EmptyFlows
  <2>2. CASE ~Leaks(Step(t))
    <3>1. Leaving(Step(t)) /\ Far(Step(t)) = Step(t).skip /\ \A a : Left(Step(t), a) = a
      BY <1>1, <2>2 DEF Leaving, Far, Left, AcquireSteps, SelectSteps, DropSteps, EepromSteps, PinSteps
    <3> QED
      BY <1>1, <3>1, AtStep
  <2> QED
    BY <2>1, <2>2
<1>4. Failed(t) \in Records /\ Failed(t).p = th[t].p /\ Failed(t).seq = Drop(Tail(th[t].seq), Step(t).skip)
  BY <1>1, <1>2, FailedForm
<1>5. lock' = lock /\ sel' = sel /\ Proceed(t, Failed(t))
  BY DEF AccessFails
<1>6. th' \in [Threads -> Records] /\ \A u \in Threads : Placed(u, th'[u], lock', sel')
  BY <1>1, <1>2, <1>4, <1>5, Stays
<1> QED
  BY <1>6 DEF Inv, Typed, AccessFails

(* A record that goes on with other steps. *)
LEMMA Continued ==
  ASSUME NEW r \in Records, NEW s \in Seq(Steps)
  PROVE  \A w : w = [r EXCEPT !.seq = s] => w \in Records /\ w.p = r.p /\ w.seq = s
BY DEF Records

LEMMA KeepsStray ==
  ASSUME Inv, NEW t \in Threads, Stray(t)
  PROVE  Inv'
<1>1. /\ th[t] \in Records /\ th[t].p \in Ports /\ Step(t) \in Steps /\ Tail(th[t].seq) \in Seq(Steps)
      /\ Running(t) /\ Step(t).do = "stray"
  BY AtStep DEF Stray
<1>2. Leaving(Step(t)) /\ Far(Step(t)) = Step(t).skip /\ \A a : Left(Step(t), a) = a
  BY <1>1 DEF Leaving, Leaks, Far, Left, AcquireSteps, SelectSteps, DropSteps, EepromSteps
<1>3. PICK a \in Phases : /\ Holding(t, th[t].p, a, lock, sel)
                          /\ Flows(Tail(th[t].seq), a, "out")
                          /\ Drop(Tail(th[t].seq), Step(t).skip) \in Seq(Steps)
                          /\ Flows(Drop(Tail(th[t].seq), Step(t).skip), a, "out")
  BY <1>1, <1>2, AtStep DEF Phased
<1>4. PICK q \in Seq(Steps), b \in BOOLEAN :
             /\ q \in {Tail(th[t].seq), Drop(Tail(th[t].seq), Step(t).skip)}
             /\ Proceed(t, [th[t] EXCEPT !.seq = q, !.astray = b])
  BY <1>1, <1>3 DEF Stray
<1>5. PICK r : r = [th[t] EXCEPT !.seq = q, !.astray = b]
  OBVIOUS
<1>8. r \in Records /\ r.p = th[t].p /\ r.seq = q
  <2>1. PICK w : w = [th[t] EXCEPT !.seq = q]
    OBVIOUS
  <2>2. w \in Records /\ w.p = th[t].p /\ w.seq = q
    BY ONLY <1>1, <2>1, q \in Seq(Steps), Continued
  <2>3. r = [w EXCEPT !.astray = b]
    BY <1>5, <2>1
  <2> QED
    BY ONLY <2>2, <2>3, b \in BOOLEAN DEF Records
<1>6. lock' = lock /\ sel' = sel
  BY DEF Stray
<1>7. th' \in [Threads -> Records] /\ \A u \in Threads : Placed(u, th'[u], lock', sel')
  BY <1>1, <1>3, <1>4, <1>5, <1>6, <1>8, Stays
<1> QED
  BY <1>7 DEF Inv, Typed, Stray

LEMMA KeepsDecide ==
  ASSUME Inv, NEW t \in Threads, Decide(t)
  PROVE  Inv'
<1> DEFINE s == Step(t)
           leave == \/ s.do \in {"refused", "jump", "done"}
                    \/ s.do = "check" /\ th[t].rc = "err"
                    \/ s.do = "wason" /\ Serdes \in th[t].buf
<1>1. /\ th[t] \in Records /\ th[t].p \in Ports /\ s \in Steps /\ Tail(th[t].seq) \in Seq(Steps)
      /\ Running(t) /\ s.do \in {"check", "refused", "jump", "wason", "done"}
  BY AtStep DEF Decide
<1>2. Leaving(s) /\ \A a : Left(s, a) = a
  BY <1>1 DEF Leaving, Leaks, Left, AcquireSteps, SelectSteps, DropSteps, EepromSteps
<1>3. PICK a, b \in Phases : /\ Holding(t, th[t].p, a, lock, sel) /\ Phased(s, a, b)
                             /\ Flows(Tail(th[t].seq), b, "out")
                             /\ Drop(Tail(th[t].seq), Far(s)) \in Seq(Steps)
                             /\ Flows(Drop(Tail(th[t].seq), Far(s)), a, "out")
  BY <1>1, <1>2, AtStep
<1>4. PICK q \in Seq(Steps) : q = IF leave THEN Drop(Tail(th[t].seq), Far(s)) ELSE Tail(th[t].seq)
  BY <1>1, <1>3
<1>5. Flows(q, a, "out")
  <2>1. CASE leave
    BY <1>3, <1>4, <2>1
  <2>2. CASE ~leave
    <3>1. a = b
      BY <1>1, <1>3, <2>2 DEF Phased
    <3> QED
      BY <1>3, <1>4, <2>2, <3>1
  <2> QED
    BY <2>1, <2>2
<1>6. PICK rc \in {"ok", "err"} : rc = IF s.do = "refused" THEN "err" ELSE th[t].rc
  BY <1>1 DEF Records
<1>7. PICK r : r = [th[t] EXCEPT !.seq = q, !.rc = rc]
  OBVIOUS
<1>8. r \in Records /\ r.p = th[t].p /\ r.seq = q
  <2>1. PICK o \in Records : o = th[t]
    BY <1>1
  <2>2. \A w : w = [o EXCEPT !.seq = q, !.rc = rc] => w \in Records /\ w.p = o.p /\ w.seq = q
    BY DEF Records
  <2> QED
    BY <1>7, <2>1, <2>2
<1>9. Proceed(t, r) /\ lock' = lock /\ sel' = sel
  <2>1. Far(s) = CASE s.do = "jump" -> s.n [] s.do = "done" -> Everything [] OTHER -> s.skip
    BY DEF Far
  <2>2. Proceed(t, [th[t] EXCEPT !.seq = q, !.rc = rc])
    BY <1>4, <1>6, <2>1 DEF Decide
  <2> QED
    BY <1>7, <2>2 DEF Decide
<1>10. th' \in [Threads -> Records] /\ \A u \in Threads : Placed(u, th'[u], lock', sel')
  BY <1>1, <1>3, <1>5, <1>8, <1>9, Stays
<1> HIDE DEF s, leave
<1> QED
  BY <1>10 DEF Inv, Typed, Decide

LEMMA KeepsNote ==
  ASSUME Inv, NEW t \in Threads, Note(t)
  PROVE  Inv'
<1>1. /\ th[t] \in Records /\ th[t].p \in Ports /\ Step(t) \in Steps /\ Tail(th[t].seq) \in Seq(Steps)
      /\ Running(t) /\ Step(t).do \in {"asked", "forgetpower", "forgetversion", "absent"}
  BY AtStep DEF Note
<1>2. PICK a \in Phases : /\ Holding(t, th[t].p, a, lock, sel)
                          /\ Flows(Tail(th[t].seq), a, "out")
  BY <1>1, AtStep DEF Phased
<1>3. PICK r : r = [th[t] EXCEPT !.seq = Tail(@)]
  OBVIOUS
<1>4. r \in Records /\ r.p = th[t].p /\ r.seq = Tail(th[t].seq)
  <2>1. PICK q \in Seq(Steps) : q = Tail(th[t].seq)
    BY <1>1
  <2>2. PICK o \in Records : o = th[t]
    BY <1>1
  <2>3. \A w : w = [o EXCEPT !.seq = q] => w \in Records /\ w.p = o.p /\ w.seq = q
    BY Continued
  <2> QED
    BY <1>3, <2>1, <2>2, <2>3
<1>5. Proceed(t, r) /\ lock' = lock /\ sel' = sel
  BY <1>3 DEF Note
<1>6. th' \in [Threads -> Records] /\ \A u \in Threads : Placed(u, th'[u], lock', sel')
  BY <1>1, <1>2, <1>4, <1>5, Stays
<1>7. drv' \in [Ports -> Drivers]
  <2>1. drv \in [Ports -> Drivers] /\ drv[th[t].p] \in Drivers
    BY <1>1 DEF Inv, Typed
  <2>2. PICK d \in Drivers : d = drv[th[t].p]
    BY <2>1
  <2>3. [d EXCEPT !.mw = -1, !.soft = FALSE] \in Drivers /\ [d EXCEPT !.ver = 0] \in Drivers
        /\ [d EXCEPT !.qsa = FALSE] \in Drivers
    BY DEF Drivers
  <2>4. PICK e \in Drivers : e = CASE Step(t).do = "forgetpower" -> [d EXCEPT !.mw = -1, !.soft = FALSE]
                                   [] Step(t).do = "forgetversion" -> [d EXCEPT !.ver = 0]
                                   [] Step(t).do = "absent" -> [d EXCEPT !.qsa = FALSE]
                                   [] OTHER -> d
    BY <2>3
  <2>5. drv' = [drv EXCEPT ![th[t].p] = e]
    BY <2>2, <2>4 DEF Note
  <2> QED
    BY <1>1, <2>1, <2>5
<1> QED
  BY <1>6, <1>7 DEF Inv, Typed, Note

(* A call begins with no group held and ends with none. *)
LEMMA Begins ==
  ASSUME Inv, NEW t \in Threads, th[t].p = Idle, NEW p \in Ports, NEW call,
         call.lax \in BOOLEAN, call.steps \in Calls, NEW init \in BOOLEAN,
         Begin(t, p, call, init), lock' = lock, sel' = sel
  PROVE  th' \in [Threads -> Records] /\ \A u \in Threads : Placed(u, th'[u], lock', sel')
<1>1. th \in [Threads -> Records] /\ \A u \in Threads : Placed(u, th[u], lock, sel)
  BY DEF Inv, Typed
<1>2. PICK s \in Seq(Steps), lax \in BOOLEAN : s = call.steps /\ lax = call.lax /\ Flows(s, "out", "out")
  BY DEF Calls
<1>3. PICK r : r = [Rest EXCEPT !.p = p, !.seq = s, !.lax = lax, !.init = init]
  OBVIOUS
<1>4. r \in Records /\ r.p = p /\ r.seq = s
  <2>1. Rest \in Records
    <3>1. << >> \in Seq(Steps)
      OBVIOUS
    <3> QED
      BY <3>1 DEF Rest, Records
  <2>2. PICK o \in Records : o = Rest
    BY <2>1
  <2>3. PICK v : v = [o EXCEPT !.p = p, !.seq = s]
    OBVIOUS
  <2>4. v \in Records /\ v.p = p /\ v.seq = s
    BY <2>3 DEF Records
  <2>5. r = [v EXCEPT !.lax = lax, !.init = init]
    BY <1>3, <2>2, <2>3
  <2>6. r \in Records /\ r.p = v.p /\ r.seq = v.seq
    BY <2>4, <2>5 DEF Records
  <2> QED
    BY <2>4, <2>6
<1>5. Holding(t, p, "out", lock, sel)
  <2>1. \A g \in Groups : lock[g] = t => LeakyReads
    BY <1>1 DEF Placed
  <2> QED
    BY <2>1, OutHolds DEF Holding
<1>6. Placed(t, r, lock, sel)
  <2>1. "out" \in Phases /\ p # Idle
    BY PlatformAssumption DEF Phases
  <2> QED
    BY <1>2, <1>4, <1>5, <2>1 DEF Placed
<1>7. th' = [th EXCEPT ![t] = r]
  BY <1>2, <1>3 DEF Begin
<1>8. \A u \in Threads : Placed(u, th'[u], lock, sel)
  <2> TAKE u \in Threads
  <2>1. th'[u] = IF u = t THEN r ELSE th[u]
    BY <1>1, <1>7
  <2> QED
    BY <1>1, <1>6, <2>1
<1> QED
  BY <1>1, <1>4, <1>7, <1>8

LEMMA KeepsCall ==
  ASSUME Inv, NEW t \in Threads, NEW p \in Ports, Call(t, p)
  PROVE  Inv'
<1>1. drv[p] \in Drivers /\ module[CageOf(p)] \in Modules \cup {NoModule}
  BY PlatformAssumption DEF Inv, Typed, CageOf
<1>2. PICK alone \in BOOLEAN : alone = (Cardinality(scene.crew) = 1)
  OBVIOUS
<1>3. PICK call \in CallsOf[Context(p, drv[p], module[CageOf(p)])][alone] : Begin(t, p, call, FALSE)
  BY <1>2 DEF Call, ThisContext
<1>4. call.lax \in BOOLEAN /\ call.steps \in Calls
  BY <1>1, <1>3, PortCalls
<1>5. lock' = lock /\ sel' = sel /\ th[t].p = Idle
  BY DEF Call
<1>6. th' \in [Threads -> Records] /\ \A u \in Threads : Placed(u, th'[u], lock', sel')
  <2>1. PICK init \in BOOLEAN : init = FALSE
    OBVIOUS
  <2>2. Begin(t, p, call, init)
    BY <1>3, <2>1
  <2> QED
    BY <1>4, <1>5, <2>2, Begins
<1> QED
  BY <1>6 DEF Inv, Typed, Call

LEMMA KeepsInitModule ==
  ASSUME Inv, NEW t \in Threads, NEW p \in Ports, NEW pres \in BOOLEAN, InitModule(t, p, pres)
  PROVE  Inv'
<1>1. drv[p] \in Drivers /\ module[CageOf(p)] \in Modules \cup {NoModule}
  BY PlatformAssumption DEF Inv, Typed, CageOf
<1>3. PICK call \in InitsOf[Context(p, drv[p], module[CageOf(p)])][pres] : Begin(t, p, call, TRUE)
  BY DEF InitModule, ThisContext
<1>4. call.lax \in BOOLEAN /\ call.steps \in Calls
  BY <1>1, <1>3, PortCalls
<1>5. lock' = lock /\ sel' = sel /\ th[t].p = Idle
  BY DEF InitModule
<1>6. th' \in [Threads -> Records] /\ \A u \in Threads : Placed(u, th'[u], lock', sel')
  <2>1. PICK init \in BOOLEAN : init = TRUE
    OBVIOUS
  <2>2. Begin(t, p, call, init)
    BY <1>3, <2>1
  <2> QED
    BY <1>4, <1>5, <2>2, Begins
<1> QED
  BY <1>6 DEF Inv, Typed, InitModule

LEMMA KeepsFinish ==
  ASSUME Inv, NEW t \in Threads, Finish(t)
  PROVE  Inv'
<1>1. /\ th \in [Threads -> Records] /\ \A u \in Threads : Placed(u, th[u], lock, sel)
      /\ th[t].p # Idle /\ th[t].seq = << >> /\ th' = [th EXCEPT ![t] = Rest]
      /\ lock' = lock /\ sel' = sel
  BY DEF Inv, Typed, Finish
<1>2. Rest \in Records /\ Rest.p = Idle
  <2>1. << >> \in Seq(Steps)
    OBVIOUS
  <2> QED
    BY <2>1 DEF Rest, Records
<1>3. PICK ph \in Phases : Flows(<< >>, ph, "out") /\ Holding(t, th[t].p, ph, lock, sel)
  BY <1>1 DEF Placed
<1>4. ph = "out"
  <2>1. Len(<< >>) + 1 = 1
    OBVIOUS
  <2> QED
    BY <1>3, <2>1 DEF Flows
<1>5. Placed(t, Rest, lock, sel)
  BY <1>2, <1>3, <1>4, OutHolds DEF Holding, Placed
<1>6. th' \in [Threads -> Records] /\ \A u \in Threads : Placed(u, th'[u], lock', sel')
  BY <1>1, <1>2, <1>5
<1> QED
  BY <1>6 DEF Inv, Typed, Finish

LEMMA KeepsPlugging ==
  ASSUME Inv, NEW k \in Cages, Remove(k) \/ \E m \in scene.fits[k] : Insert(k, m)
  PROVE  Inv'
<1>1. th' = th /\ lock' = lock /\ sel' = sel /\ drv' = drv /\ scene' = scene
  BY DEF Remove, Insert
<1>2. module' \in [Cages -> Modules \cup {NoModule}]
  <2>1. module \in [Cages -> Modules \cup {NoModule}] /\ scene.fits[k] \subseteq Modules
    BY PlatformAssumption DEF Inv, Typed
  <2> QED
    BY <2>1 DEF Remove, Insert
<1>3. page' \in [Cages -> Pages] /\ off' \in [Cages -> SUBSET Lanes]
  <2>1. page \in [Cages -> Pages] /\ off \in [Cages -> SUBSET Lanes] /\ 0 \in Pages
    BY DEF Inv, Typed, Pages
  <2> QED
    BY <2>1 DEF Remove, Insert
<1> QED
  BY <1>1, <1>2, <1>3 DEF Inv, Typed

--------------------------------------------------------------------------------
LEMMA InvHolds == Spec => []Inv
<1>1. Init => Inv
  <2> SUFFICES ASSUME Init PROVE Inv
    OBVIOUS
  <2>1. Rest \in Records /\ Rest.p = Idle
    <3>1. << >> \in Seq(Steps)
      OBVIOUS
    <3> QED
      BY <3>1 DEF Rest, Records
  <2>2. Blank \in Drivers
    BY DEF Blank, Drivers
  <2>3. 0 \in Pages
    BY DEF Pages
  <2>4. Typed
    BY <2>1, <2>2, <2>3 DEF Init, Typed
  <2>5. \A u \in Threads : Placed(u, th[u], lock, sel)
    BY <2>1, PlatformAssumption DEF Init, Placed
  <2> QED
    BY <2>4, <2>5 DEF Inv
<1>2. Inv /\ [Next]_vars => Inv'
  <2> SUFFICES ASSUME Inv, [Next]_vars PROVE Inv'
    OBVIOUS
  <2>1. CASE UNCHANGED vars
    BY <2>1 DEF vars, Inv, Typed
  <2>2. ASSUME NEW t \in Threads,
               \/ Acquire(t) \/ Select(t) \/ SelectFails(t) \/ Deselect(t) \/ Access(t) \/ AccessFails(t)
               \/ Stray(t) \/ Decide(t) \/ Note(t) \/ Finish(t)
        PROVE  Inv'
    BY <2>2, KeepsAcquire, KeepsSelect, KeepsSelectFails, KeepsDeselect, KeepsAccess, KeepsAccessFails,
       KeepsStray, KeepsDecide, KeepsNote, KeepsFinish
  <2>3. ASSUME NEW t \in Threads, NEW p \in Ports, Call(t, p) \/ \E pres \in BOOLEAN : InitModule(t, p, pres)
        PROVE  Inv'
    BY <2>3, KeepsCall, KeepsInitModule
  <2>4. ASSUME NEW k \in Cages, Remove(k) \/ \E m \in scene.fits[k] : Insert(k, m)
        PROVE  Inv'
    BY <2>4, KeepsPlugging
  <2> QED
    BY <2>1, <2>2, <2>3, <2>4 DEF Next
<1> QED
  BY <1>1, <1>2, PTL DEF Spec

(* Whatever threads, ports and platforms there are, and whichever access fails:  *)
(* an access to a transceiver reaches the module in the cage of the port that    *)
(* was called, because its groups are held and still point there                 *)
(* (sdi_qsfp_module_select, sdi_sfp_module_select).                              *)
THEOREM OwnModuleReached == Spec => [](TypeOK /\ OwnModule)
<1>1. Inv => TypeOK /\ OwnModule
  <2> SUFFICES ASSUME Inv PROVE TypeOK /\ OwnModule
    OBVIOUS
  <2>1. TypeOK
    BY DEF Inv, Typed, TypeOK, Records, Pages
  <2>2. OwnModule
    <3> SUFFICES ASSUME NEW t \in Threads, Running(t), Step(t).do \in EepromSteps,
                        NEW g \in {Port[th[t].p].mux, Port[th[t].p].mod} \ {NoGroup}
                 PROVE  lock[g] = t /\ sel[g] = Module(t)
      BY DEF OwnModule
    <3>1. PICK a, b \in Phases : Holding(t, th[t].p, a, lock, sel) /\ Phased(Step(t), a, b) /\ th[t].p \in Ports
      BY AtStep
    <3>2. a = "in"
      BY <3>1 DEF Phased
    <3>3. g \in Held(th[t].p, a) /\ g \in Pointed(th[t].p, a)
      BY <3>2 DEF Held, Pointed
    <3>4. g \in Groups
      BY <3>1 DEF Groups
    <3> QED
      BY <3>1, <3>3, <3>4 DEF Holding, Module
  <2> QED
    BY <2>1, <2>2
<1> QED
  BY <1>1, InvHolds, PTL

(* When moreover no read fails that returns out of its section (LeakyReads:      *)
(* sdi_qsfp_media_max_power_get and the reads of the tuned wavelength),          *)
(* a call that returned holds no pin group, whichever other step failed          *)
(* (sdi_qsfp_module_deselect, sdi_sfp_module_deselect).                          *)
THEOREM SectionsAreOwned == ~LeakyReads => (Spec => []SlotOwned)
<1> SUFFICES ASSUME ~LeakyReads PROVE Spec => []SlotOwned
  OBVIOUS
<1>1. Inv => LocksReturned
  BY DEF Inv, Placed, LocksReturned
<1>2. TypeOK /\ OwnModule /\ LocksReturned => SlotOwned
  BY DEF SlotOwned
<1> QED
  BY <1>1, <1>2, InvHolds, OwnModuleReached, PTL

--------------------------------------------------------------------------------
(* Where a step that fails goes, and why no later step makes up for it: sealed *)
(* positions are reached with rc = "err" and keep it.                          *)
Fallible == AcquireSteps \cup SelectSteps \cup EepromSteps \cup PinSteps
SealedAt(s, i, h) == Far(s[i]) = Everything \/ (Lands(s[i], i) <= Len(s) + 1 /\ h[Lands(s[i], i)])
Sealing(s, h) ==
  /\ h \in [1..(Len(s) + 1) -> BOOLEAN]
  /\ \A i \in 1..Len(s) :
       /\ s[i].do \in Fallible => ~s[i].quiet /\ SealedAt(s, i, h)
       /\ h[i] => \/ s[i].do \in DropSteps /\ h[i + 1]
                  \/ s[i].do = "check" /\ SealedAt(s, i, h)
Seals(s, a, z) == s \in Seq(Steps) /\ \E h : Sealing(s, h) /\ h[1] = a /\ h[Len(s) + 1] = z
(* What may be followed by anything, what may end a call. *)
Clean  == {s \in Seq(Steps) : Seals(s, FALSE, FALSE)}
Trails == {s \in Seq(Steps) : \E a, z \in BOOLEAN : Seals(s, a, z)}

LEMMA SealsCat ==
  ASSUME NEW s, NEW u, NEW a, NEW b, NEW z, Seals(s, a, b), Seals(u, b, z)
  PROVE  Seals(s \o u, a, z)
<1>1. /\ s \in Seq(Steps) /\ u \in Seq(Steps) /\ Len(s) \in Nat /\ Len(u) \in Nat
      /\ \A i \in 1..Len(s) : s[i] \in Steps
      /\ \A i \in 1..Len(u) : u[i] \in Steps
  BY DEF Seals
<1>2. /\ s \o u \in Seq(Steps) /\ Len(s \o u) = Len(s) + Len(u)
      /\ \A i \in 1..(Len(s) + Len(u)) : (s \o u)[i] = IF i <= Len(s) THEN s[i] ELSE u[i - Len(s)]
  BY <1>1, ConcatProperties
<1>3. PICK l : Sealing(s, l) /\ l[1] = a /\ l[Len(s) + 1] = b
  BY DEF Seals
<1>4. PICK m : Sealing(u, m) /\ m[1] = b /\ m[Len(u) + 1] = z
  BY DEF Seals
<1>5. /\ l \in [1..(Len(s) + 1) -> BOOLEAN] /\ m \in [1..(Len(u) + 1) -> BOOLEAN]
  BY <1>3, <1>4 DEF Sealing
<1> DEFINE k == [i \in 1..(Len(s) + Len(u) + 1) |-> IF i <= Len(s) THEN l[i] ELSE m[i - Len(s)]]
<1>6. /\ \A i \in 1..Len(s) : k[i] = l[i]
      /\ \A i \in 1..(Len(u) + 1) : k[Len(s) + i] = m[i]
      /\ k \in [1..(Len(s) + Len(u) + 1) -> BOOLEAN]
  BY <1>1, <1>5
<1> HIDE DEF k
<1>7. k[1] = a /\ k[Len(s) + Len(u) + 1] = z
  <2>1. k[Len(s) + (Len(u) + 1)] = z
    BY <1>1, <1>4, <1>6
  <2>2. CASE Len(s) = 0
    BY <1>1, <1>3, <1>4, <1>6, <2>1, <2>2
  <2>3. CASE Len(s) > 0
    BY <1>1, <1>3, <1>6, <2>1, <2>3
  <2> QED
    BY <1>1, <2>2, <2>3
<1>8. k[Len(s) + 1] = l[Len(s) + 1]
  BY <1>1, <1>3, <1>4, <1>6
<1>9. \A i \in 1..(Len(s) + 1) : k[i] = l[i]
  BY <1>1, <1>6, <1>8
<1>13. PICK t : t = s \o u
  OBVIOUS
<1>10. ASSUME NEW i \in 1..(Len(s) + Len(u))
       PROVE  /\ t[i].do \in Fallible => ~t[i].quiet /\ SealedAt(t, i, k)
              /\ k[i] => \/ t[i].do \in DropSteps /\ k[i + 1]
                         \/ t[i].do = "check" /\ SealedAt(t, i, k)
  <2>1. CASE i <= Len(s)
    <3>1. t[i] = s[i] /\ i \in 1..Len(s) /\ s[i] \in Steps
      BY <1>1, <1>2, <1>13, <2>1
    <3>2. k[i] = l[i] /\ k[i + 1] = l[i + 1]
      BY <1>1, <1>9, <3>1
    <3>3. /\ s[i].do \in Fallible => ~s[i].quiet /\ SealedAt(s, i, l)
          /\ l[i] => \/ s[i].do \in DropSteps /\ l[i + 1]
                     \/ s[i].do = "check" /\ SealedAt(s, i, l)
      BY <1>3, <3>1 DEF Sealing
    <3>4. Lands(s[i], i) \in Nat /\ Lands(s[i], i) >= 1
      <4>1. PICK r \in Nat : \A q \in Int : Lands(s[i], q) = q + 1 + r
        BY <3>1, LandsForm
      <4>2. i \in Int /\ i >= 1
        BY <1>1
      <4>3. Lands(s[i], i) = i + 1 + r
        BY <4>1, <4>2
      <4> QED
        BY <4>1, <4>2, <4>3
    <3>5. Lands(s[i], i) <= Len(s) + 1 =>
            Lands(s[i], i) <= Len(s) + Len(u) + 1 /\ k[Lands(s[i], i)] = l[Lands(s[i], i)]
      BY <1>1, <1>9, <3>4
    <3>6. SealedAt(s, i, l) => SealedAt(t, i, k)
      BY <1>2, <1>13, <3>1, <3>5 DEF SealedAt
    <3> QED
      BY <3>1, <3>2, <3>3, <3>6
  <2>2. CASE i > Len(s)
    <3>1. PICK j \in 1..Len(u) : i = Len(s) + j /\ t[i] = u[j]
      <4>1. i - Len(s) \in 1..Len(u) /\ t[i] = u[i - Len(s)] /\ i = Len(s) + (i - Len(s))
        BY <1>1, <1>2, <1>13, <2>2
      <4> QED
        BY <4>1
    <3>2. k[i] = m[j] /\ k[i + 1] = m[j + 1]
      <4>1. j \in 1..(Len(u) + 1) /\ j + 1 \in 1..(Len(u) + 1) /\ i + 1 = Len(s) + (j + 1)
        BY <1>1, <3>1
      <4>2. k[Len(s) + j] = m[j] /\ k[Len(s) + (j + 1)] = m[j + 1]
        BY ONLY <1>6, <4>1
      <4> QED
        BY ONLY <3>1, <4>1, <4>2
    <3>3. /\ u[j].do \in Fallible => ~u[j].quiet /\ SealedAt(u, j, m)
          /\ m[j] => \/ u[j].do \in DropSteps /\ m[j + 1]
                     \/ u[j].do = "check" /\ SealedAt(u, j, m)
      BY <1>4, <3>1 DEF Sealing
    <3>4. u[j] \in Steps
      BY <1>1
    <3>5. Lands(u[j], j) \in Nat /\ Lands(u[j], j) >= 1 /\ Lands(u[j], i) = Len(s) + Lands(u[j], j)
      <4>1. PICK r \in Nat : \A q \in Int : Lands(u[j], q) = q + 1 + r
        BY <3>4, LandsForm
      <4>2. i \in Int /\ j \in Int /\ j >= 1 /\ i = Len(s) + j
        BY <1>1, <3>1
      <4>3. Lands(u[j], i) = i + 1 + r /\ Lands(u[j], j) = j + 1 + r
        BY <4>1, <4>2
      <4> QED
        BY <1>1, <4>1, <4>2, <4>3
    <3>6. Lands(u[j], j) <= Len(u) + 1 =>
            Lands(u[j], i) <= Len(s) + Len(u) + 1 /\ k[Lands(u[j], i)] = m[Lands(u[j], j)]
      BY <1>1, <1>6, <3>5
    <3>7. SealedAt(u, j, m) => SealedAt(t, i, k)
      BY <1>2, <1>13, <3>1, <3>6 DEF SealedAt
    <3> QED
      BY <3>1, <3>2, <3>3, <3>7
  <2> QED
    BY <1>1, <2>1, <2>2
<1>11. Sealing(t, k)
  BY <1>2, <1>6, <1>10, <1>13 DEF Sealing
<1> QED
  BY <1>2, <1>7, <1>11, <1>13 DEF Seals

(* What is left of a sequence is sealed where it was. *)
LEMMA SealsOn ==
  ASSUME NEW s, s \in Seq(Steps), NEW h, Sealing(s, h),
         NEW k \in 0..Len(s), NEW u \in Seq(Steps), Len(u) = Len(s) - k,
         \A i \in 1..Len(u) : u[i] = s[i + k]
  PROVE  Seals(u, h[k + 1], h[Len(s) + 1]) /\ h[k + 1] \in BOOLEAN /\ h[Len(s) + 1] \in BOOLEAN
<1>1. Len(s) \in Nat /\ Len(u) \in Nat /\ k \in Nat /\ Len(s) = Len(u) + k
  OBVIOUS
<1> DEFINE m == [i \in 1..(Len(u) + 1) |-> h[i + k]]
<1>2. h \in [1..(Len(s) + 1) -> BOOLEAN]
  BY DEF Sealing
<1>3. m \in [1..(Len(u) + 1) -> BOOLEAN] /\ \A i \in 1..(Len(u) + 1) : m[i] = h[i + k]
  BY <1>1, <1>2
<1> HIDE DEF m
<1>4. ASSUME NEW i \in 1..Len(u)
      PROVE  /\ u[i].do \in Fallible => ~u[i].quiet /\ SealedAt(u, i, m)
             /\ m[i] => \/ u[i].do \in DropSteps /\ m[i + 1]
                        \/ u[i].do = "check" /\ SealedAt(u, i, m)
  <2>1. PICK j \in 1..Len(s) : j = i + k /\ u[i] = s[j] /\ m[i] = h[j] /\ m[i + 1] = h[j + 1]
    <3>1. i + k \in 1..Len(s) /\ u[i] = s[i + k] /\ m[i] = h[i + k] /\ m[i + 1] = h[(i + 1) + k]
      BY <1>1, <1>3
    <3>2. (i + 1) + k = (i + k) + 1
      BY <1>1
    <3> QED
      BY <3>1, <3>2
  <2>2. /\ s[j].do \in Fallible => ~s[j].quiet /\ SealedAt(s, j, h)
        /\ h[j] => \/ s[j].do \in DropSteps /\ h[j + 1]
                   \/ s[j].do = "check" /\ SealedAt(s, j, h)
    BY <2>1 DEF Sealing
  <2>3. s[j] \in Steps
    BY <2>1
  <2>4. Lands(s[j], i) \in Nat /\ Lands(s[j], i) >= 1 /\ Lands(s[j], j) = Lands(s[j], i) + k
    <3>1. PICK r \in Nat : \A q \in Int : Lands(s[j], q) = q + 1 + r
      BY <2>3, LandsForm
    <3>2. i \in Int /\ j \in Int /\ i >= 1 /\ j = i + k
      BY <1>1, <2>1
    <3>3. Lands(s[j], i) = i + 1 + r /\ Lands(s[j], j) = j + 1 + r
      BY <3>1, <3>2
    <3>4. r \in Nat /\ k \in Nat
      BY <1>1, <3>1
    <3> QED
      BY ONLY <3>2, <3>3, <3>4
  <2>5. Lands(s[j], j) <= Len(s) + 1 =>
          Lands(s[j], i) <= Len(u) + 1 /\ m[Lands(s[j], i)] = h[Lands(s[j], j)]
    BY <1>1, <1>3, <2>4
  <2>6. SealedAt(s, j, h) => SealedAt(u, i, m)
    BY <2>1, <2>5 DEF SealedAt
  <2> QED
    BY <2>1, <2>2, <2>6
<1>5. Sealing(u, m)
  BY <1>3, <1>4 DEF Sealing
<1>6. m[1] = h[k + 1] /\ m[Len(u) + 1] = h[Len(s) + 1]
  <2>3. 1 \in 1..(Len(u) + 1) /\ Len(u) + 1 \in 1..(Len(u) + 1)
    BY <1>1
  <2>1. m[1] = h[1 + k] /\ m[Len(u) + 1] = h[(Len(u) + 1) + k]
    BY <1>3, <2>3
  <2>2. 1 + k = k + 1 /\ (Len(u) + 1) + k = Len(s) + 1
    BY <1>1
  <2> QED
    BY <2>1, <2>2
<1>7. h[k + 1] \in BOOLEAN /\ h[Len(s) + 1] \in BOOLEAN
  <2>1. k + 1 \in 1..(Len(s) + 1) /\ Len(s) + 1 \in 1..(Len(s) + 1)
    BY <1>1
  <2> QED
    BY <1>2, <2>1
<1> QED
  BY <1>5, <1>6, <1>7 DEF Seals

LEMMA EmptySeals == << >> \in Seq(Steps) /\ \A z \in BOOLEAN : Seals(<< >>, z, z)
<1>1. << >> \in Seq(Steps) /\ Len(<< >>) = 0
  OBVIOUS
<1> SUFFICES ASSUME NEW z \in BOOLEAN PROVE Seals(<< >>, z, z)
  BY <1>1
<1>2. PICK h : h = [i \in 1..1 |-> z]
  OBVIOUS
<1>3. h \in [1..1 -> BOOLEAN] /\ h[1] = z
  BY <1>2
<1>4. Sealing(<< >>, h)
  BY <1>1, <1>3 DEF Sealing
<1> QED
  BY <1>1, <1>3, <1>4 DEF Seals

(* The tail, and what is left when steps are skipped. *)
LEMMA SealsDrop ==
  ASSUME NEW s \in Seq(Steps), s # << >>, NEW h, Sealing(s, h), NEW n \in Int
  PROVE  /\ Seals(Tail(s), h[2], h[Len(s) + 1]) /\ h[2] \in BOOLEAN /\ h[Len(s) + 1] \in BOOLEAN
         /\ Drop(Tail(s), n) \in Seq(Steps)
         /\ \E a, z \in BOOLEAN :
              /\ Seals(Drop(Tail(s), n), a, z)
              /\ Far(Head(s)) = n /\ SealedAt(s, 1, h) => a
<1>1. Len(s) \in Nat /\ Len(s) >= 1
  OBVIOUS
<1>2. PICK t : t = Tail(s)
  OBVIOUS
<1>3. /\ t \in Seq(Steps) /\ Len(t) \in Nat /\ Len(t) = Len(s) - 1 /\ Head(s) = s[1] /\ Head(s) \in Steps
      /\ \A i \in 1..Len(t) : t[i] = s[i + 1]
  BY <1>1, <1>2, HeadTailProperties
<1>4. Seals(t, h[1 + 1], h[Len(s) + 1]) /\ h[1 + 1] \in BOOLEAN /\ h[Len(s) + 1] \in BOOLEAN
  <2>1. 1 \in 0..Len(s)
    BY <1>1
  <2> QED
    BY <1>1, <1>3, <2>1, SealsOn
<1>5. CASE n = Everything \/ n >= Len(t)
  <2>1. Drop(t, n) = << >>
    BY <1>5 DEF Drop
  <2>2. Seals(<< >>, TRUE, TRUE) /\ << >> \in Seq(Steps)
    BY EmptySeals
  <2>3. Seals(t, h[2], h[Len(s) + 1]) /\ h[2] \in BOOLEAN /\ h[Len(s) + 1] \in BOOLEAN
    BY ONLY <1>4, 1 + 1 = 2
  <2>4. Drop(t, n) \in Seq(Steps) /\ Seals(Drop(t, n), TRUE, TRUE)
    BY ONLY <2>1, <2>2
  <2>5. \E a, z \in BOOLEAN : Seals(Drop(t, n), a, z) /\ (Far(Head(s)) = n /\ SealedAt(s, 1, h) => a)
    BY ONLY <2>4
  <2> QED
    BY ONLY <1>2, <2>3, <2>4, <2>5
<1>6. CASE n # Everything /\ n < Len(t)
  <2>1. PICK k \in 1..Len(s) : k = 1 + IF n > 0 THEN n ELSE 0
    BY <1>1, <1>3, <1>6
  <2>2. PICK u \in Seq(Steps) : u = Drop(t, n) /\ Len(u) = Len(s) - k /\ \A i \in 1..Len(u) : u[i] = s[i + k]
    <3>1. CASE n <= 0
      <4>1. Drop(t, n) = t
        BY <1>3, <1>6, <3>1 DEF Drop
      <4>2. k = 1
        BY <2>1, <3>1
      <4> QED
        BY <1>3, <4>1, <4>2
    <3>2. CASE n > 0
      <4>1. Drop(t, n) = SubSeq(t, n + 1, Len(t))
        BY <1>3, <1>6, <3>2 DEF Drop
      <4>2. PICK u : u = SubSeq(t, n + 1, Len(t))
        OBVIOUS
      <4>3. \A i \in (n + 1)..Len(t) : t[i] \in Steps
        BY <1>3, <3>2
      <4>4. /\ u \in Seq(Steps) /\ Len(u) = Len(t) - (n + 1) + 1
            /\ \A i \in 1..(Len(t) - (n + 1) + 1) : u[i] = t[(n + 1) + i - 1]
        BY <1>3, <1>6, <4>2, <4>3, SubSeqProperties
      <4>5. k = 1 + n
        BY <2>1, <3>2
      <4>6. \A i \in 1..Len(u) : u[i] = s[i + k]
        <5> TAKE i \in 1..Len(u)
        <5>1. u[i] = t[(n + 1) + i - 1] /\ (n + 1) + i - 1 \in 1..Len(t)
          BY <1>3, <3>2, <4>4
        <5>2. t[(n + 1) + i - 1] = s[((n + 1) + i - 1) + 1] /\ ((n + 1) + i - 1) + 1 = i + k
          BY <1>3, <4>5, <5>1
        <5> QED
          BY <5>1, <5>2
      <4>7. Len(u) = Len(s) - k
        BY <1>1, <1>3, <4>4, <4>5
      <4> QED
        BY <4>1, <4>2, <4>4, <4>6, <4>7
    <3> QED
      BY <3>1, <3>2
  <2>3. Seals(u, h[k + 1], h[Len(s) + 1]) /\ h[k + 1] \in BOOLEAN /\ h[Len(s) + 1] \in BOOLEAN
    <3>1. k \in 0..Len(s)
      BY <1>1
    <3> QED
      BY <1>1, <2>2, <3>1, SealsOn
  <2>4. Far(Head(s)) = n => Lands(s[1], 1) = k + 1
    BY <1>3, <2>1 DEF Lands
  <2>5. Far(Head(s)) = n /\ SealedAt(s, 1, h) => h[k + 1]
    BY <1>3, <1>6, <2>4 DEF SealedAt
  <2> QED
    BY <1>2, <1>4, <2>2, <2>3, <2>5
<1> QED
  BY <1>3, <1>5, <1>6

LEMMA CleanClosed ==
  /\ << >> \in Clean
  /\ \A s, u \in Clean : s \o u \in Clean
  /\ \A s \in Clean : \A u : Seals(u, FALSE, TRUE) => s \o u \in Trails
  /\ Clean \subseteq Trails
  /\ \A u : Seals(u, FALSE, TRUE) => u \in Trails
<1>1. << >> \in Clean
  BY EmptySeals DEF Clean
<1>2. ASSUME NEW s \in Clean, NEW u \in Clean PROVE s \o u \in Clean
  <2>1. Seals(s \o u, FALSE, FALSE)
    BY SealsCat DEF Clean
  <2> QED
    BY <2>1 DEF Clean, Seals
<1>3. ASSUME NEW s \in Clean, NEW u, Seals(u, FALSE, TRUE) PROVE s \o u \in Trails
  <2>1. Seals(s \o u, FALSE, TRUE)
    BY <1>3, SealsCat DEF Clean
  <2>2. s \o u \in Seq(Steps) /\ TRUE \in BOOLEAN /\ FALSE \in BOOLEAN
    BY <2>1 DEF Seals
  <2> QED
    BY <2>1, <2>2 DEF Trails
<1>4. Clean \subseteq Trails
  <2>1. FALSE \in BOOLEAN
    OBVIOUS
  <2> QED
    BY <2>1 DEF Clean, Trails
<1>5. ASSUME NEW u, Seals(u, FALSE, TRUE) PROVE u \in Trails
  <2>2. u \in Seq(Steps) /\ TRUE \in BOOLEAN /\ FALSE \in BOOLEAN
    BY <1>5 DEF Seals
  <2> QED
    BY <1>5, <2>2 DEF Trails
<1> QED
  BY <1>1, <1>2, <1>3, <1>4, <1>5


--------------------------------------------------------------------------------
(* The bodies of the strict operations: every access may fail, and a failure *)
(* goes to the end of the block, or out of the call.                        *)
Sure == {s \in Steps : /\ s.do \in EepromSteps \cup {"refused", "asked"} /\ ~s.quiet
                       /\ s.skip = Open \/ Leaks(s)}
SureBodies == Seq(Sure)
Ending(b) ==
  /\ b \in Seq(Steps)
  /\ \A i \in 1..Len(b) : /\ b[i].do \in EepromSteps \cup {"refused", "asked"} /\ ~b[i].quiet
                          /\ b[i].skip \in {Len(b) - i, Everything}

LEMMA SureSteps ==
  /\ Refused \in Sure
  /\ \A n \in Int : Read(n) \in Sure /\ Leave(Read(n)) \in Sure
  /\ S("readtx", Lower) \in Sure
  /\ \A n \in Pages : S("page", n) \in Sure
  /\ \A n \in Signed : S("writetx", n) \in Sure /\ S("asked", n) \in Sure
<1>1. {"refused", "read", "readtx", "page", "writetx", "asked"} \subseteq Verbs
  BY DEF Verbs, EepromSteps
<1>2. Refused \in Sure
  BY <1>1 DEF Refused, Sure, Steps, S, Open
<1>3. ASSUME NEW n \in Int PROVE Read(n) \in Sure /\ Leave(Read(n)) \in Sure
  <2>1. Read(n) \in Sure /\ Read(n) \in Steps /\ Read(n).do = "read" /\ ~Read(n).quiet
    BY <1>1 DEF Read, Sure, Steps, S, Open, EepromSteps
  <2>2. /\ Leave(Read(n)) \in Steps /\ Leave(Read(n)).skip = Everything
        /\ Leave(Read(n)).do = "read" /\ ~Leave(Read(n)).quiet
    BY <2>1, Left1
  <2> QED
    BY <2>1, <2>2 DEF Sure, Leaks, EepromSteps
<1>4. S("readtx", Lower) \in Sure
  BY <1>1 DEF Sure, Steps, S, Open, Lower, EepromSteps
<1>5. \A n \in Pages : S("page", n) \in Sure
  BY <1>1, Pages4 DEF Sure, Steps, S, Open, EepromSteps
<1>6. Signed \subseteq Int
  BY DEF Signed, Lanes, Serdes
<1>7. \A n \in Signed : S("writetx", n) \in Sure /\ S("asked", n) \in Sure
  BY <1>1, <1>6 DEF Sure, Steps, S, Open, EepromSteps
<1> QED
  BY <1>2, <1>3, <1>4, <1>5, <1>7

LEMMA SureClosed ==
  /\ << >> \in SureBodies
  /\ \A a \in Sure : << a >> \in SureBodies
  /\ \A a, b \in Sure : << a, b >> \in SureBodies
  /\ \A a, b, c \in Sure : << a, b, c >> \in SureBodies
  /\ \A a, b \in SureBodies : a \o b \in SureBodies
  /\ \A c, b \in SureBodies : If(c, b) \in SureBodies
<1>1. \A a, b \in SureBodies : a \o b \in SureBodies
  BY ConcatProperties DEF SureBodies
<1>2. << >> \in SureBodies
  BY DEF SureBodies
<1> QED
  BY <1>1, <1>2 DEF SureBodies, If

LEMMA SureEnding == \A b \in SureBodies : Ending(Block(b))
<1> SUFFICES ASSUME NEW b \in SureBodies PROVE Ending(Block(b))
  OBVIOUS
<1>1. b \in Seq(Sure) /\ Len(b) \in Nat /\ DOMAIN b = 1..Len(b)
  BY LenProperties DEF SureBodies
<1> DEFINE e(i) == IF b[i].skip = Open THEN [b[i] EXCEPT !.skip = Len(b) - i] ELSE b[i]
<1>2. Block(b) = [i \in 1..Len(b) |-> e(i)]
  BY <1>1 DEF Block
<1>3. ASSUME NEW i \in 1..Len(b)
      PROVE  /\ e(i) \in Steps /\ e(i).do \in EepromSteps \cup {"refused", "asked"} /\ ~e(i).quiet
             /\ e(i).skip \in {Len(b) - i, Everything}
  <2>1. PICK r \in Int : r = Len(b) - i
    <3>1. Len(b) - i \in Int
      BY <1>1
    <3> QED
      BY <3>1
  <2>2. PICK c \in Sure : c = b[i]
    BY <1>1
  <2>3. CASE c.skip = Open
    <3>1. e(i) = [c EXCEPT !.skip = r]
      BY <2>1, <2>2, <2>3
    <3> HIDE DEF e
    <3>2. e(i) \in Steps /\ e(i).do = c.do /\ e(i).skip = r /\ e(i).quiet = c.quiet
      BY <2>2, <3>1 DEF Sure, Steps
    <3> QED
      BY <2>1, <2>2, <3>2 DEF Sure
  <2>4. CASE c.skip # Open
    <3>1. e(i) = c
      BY <2>2, <2>4
    <3> HIDE DEF e
    <3> QED
      BY <2>2, <2>4, <3>1 DEF Sure, Leaks
  <2> QED
    BY <2>3, <2>4
<1> HIDE DEF e
<1>4. Block(b) \in Seq(Steps)
  BY <1>1, <1>2, <1>3, IsASeq
<1>5. Len(Block(b)) = Len(b) /\ \A i \in 1..Len(b) : Block(b)[i] = e(i)
  BY <1>1, <1>2
<1> QED
  BY <1>3, <1>4, <1>5 DEF Ending

(* A failure in the section, of its selection or of an access, is what the *)
(* section ends with.                                                      *)
LEMMA SectionSeals ==
  ASSUME NEW b, Ending(b), NEW s, Section(s, b)
  PROVE  Seals(s, FALSE, TRUE)
<1>1. b \in Seq(Steps) /\ Len(b) \in Nat
  BY DEF Ending
<1>2. PICK n \in Nat : n = Len(b)
  BY <1>1
<1>3. /\ s \in Seq(Steps) /\ Len(s) = n + 6
      /\ \A i \in 1..4 : s[i].skip \in {n + 6 - i, Everything}
      /\ s[1].do = "acqmux" /\ s[2].do = "setmux" /\ s[3].do = "acqmod" /\ s[4].do = "setmod"
      /\ ~s[1].quiet /\ ~s[2].quiet /\ ~s[3].quiet /\ ~s[4].quiet
      /\ \A i \in 1..n : s[4 + i] = b[i]
      /\ s[n + 5].do = "dropmux" /\ s[n + 6].do = "dropmod"
  BY <1>2 DEF Section
<1> DEFINE h == [i \in 1..(n + 7) |-> IF i >= n + 5 THEN TRUE ELSE FALSE]
<1>4. /\ h \in [1..(n + 7) -> BOOLEAN]
      /\ \A i \in 1..(n + 4) : h[i] = FALSE
      /\ h[n + 5] = TRUE /\ h[n + 6] = TRUE /\ h[n + 7] = TRUE
  OBVIOUS
<1> HIDE DEF h
<1>5. ASSUME NEW i \in 1..(n + 6)
      PROVE  /\ s[i].do \in Fallible => ~s[i].quiet /\ SealedAt(s, i, h)
             /\ h[i] => \/ s[i].do \in DropSteps /\ h[i + 1]
                        \/ s[i].do = "check" /\ SealedAt(s, i, h)
  <2>1. i \in 1..4 \/ i - 4 \in 1..n \/ i = n + 5 \/ i = n + 6
    OBVIOUS
  <2>2. CASE i \in 1..4
    <3>1. /\ s[i].do \in {"acqmux", "setmux", "acqmod", "setmod"} /\ ~s[i].quiet
          /\ s[i].skip \in {n + 6 - i, Everything}
      <4>1. i = 1 \/ i = 2 \/ i = 3 \/ i = 4
        BY <2>2
      <4> QED
        BY <1>3, <4>1
    <3>2. Far(s[i]) = s[i].skip
      BY <3>1 DEF Far
    <3>3. SealedAt(s, i, h)
      <4>1. CASE s[i].skip = Everything
        BY <3>2, <4>1 DEF SealedAt
      <4>2. CASE s[i].skip = n + 6 - i
        <5>1. Lands(s[i], i) = n + 7
          BY <2>2, <3>2, <4>2 DEF Lands
        <5> QED
          BY <1>3, <1>4, <5>1 DEF SealedAt
      <4> QED
        BY <3>1, <4>1, <4>2
    <3>4. h[i] = FALSE
      BY <1>4, <2>2
    <3> QED
      BY <3>1, <3>3, <3>4
  <2>3. CASE i - 4 \in 1..n
    <3>1. PICK j \in 1..n : i = 4 + j
      <4>1. i = 4 + (i - 4)
        OBVIOUS
      <4> QED
        BY <2>3, <4>1
    <3>2. /\ s[i].do \in EepromSteps \cup {"refused", "asked"} /\ ~s[i].quiet
          /\ s[i].skip \in {n - j, Everything}
      BY <1>2, <1>3, <3>1 DEF Ending
    <3>3. Far(s[i]) = s[i].skip
      BY <3>2 DEF Far, EepromSteps
    <3>4. SealedAt(s, i, h)
      <4>1. CASE s[i].skip = Everything
        BY <3>3, <4>1 DEF SealedAt
      <4>2. CASE s[i].skip = n - j
        <5>1. Lands(s[i], i) = n + 5
          BY <3>1, <3>3, <4>2 DEF Lands
        <5> QED
          BY <1>3, <1>4, <5>1 DEF SealedAt
      <4> QED
        BY <3>2, <4>1, <4>2
    <3>5. h[i] = FALSE
      BY <1>4, <3>1
    <3> QED
      BY <3>2, <3>4, <3>5
  <2>4. CASE i = n + 5
    <3>1. s[i].do \in DropSteps /\ s[i].do \notin Fallible
      BY <1>3, <2>4 DEF DropSteps, Fallible, AcquireSteps, SelectSteps, EepromSteps, PinSteps
    <3>2. h[i + 1] = TRUE
      <4>1. i + 1 = n + 6
        BY <2>4
      <4> QED
        BY <1>4, <4>1
    <3> QED
      BY <3>1, <3>2
  <2>5. CASE i = n + 6
    <3>1. s[i].do \in DropSteps /\ s[i].do \notin Fallible
      BY <1>3, <2>5 DEF DropSteps, Fallible, AcquireSteps, SelectSteps, EepromSteps, PinSteps
    <3>2. h[i + 1] = TRUE
      <4>1. i + 1 = n + 7
        BY <2>5
      <4> QED
        BY <1>4, <4>1
    <3> QED
      BY <3>1, <3>2
  <2> QED
    BY <2>1, <2>2, <2>3, <2>4, <2>5
<1>6. Len(s) + 1 = n + 7
  BY <1>3
<1>7. Sealing(s, h)
  BY <1>3, <1>4, <1>5, <1>6 DEF Sealing
<1>8. h[1] = FALSE /\ h[Len(s) + 1] = TRUE
  BY <1>4, <1>6
<1> QED
  BY <1>3, <1>7, <1>8 DEF Seals

LEMMA PinSeals ==
  ASSUME NEW s, NEW n, PinSection(s, n)
  PROVE  Seals(s, FALSE, TRUE)
<1>1. /\ s \in Seq(Steps) /\ n \in Nat /\ Len(s) = n + 2
      /\ s[1].do = "acqpin" /\ s[1].skip = n + 1 /\ ~s[1].quiet
      /\ \A i \in 2..(n + 1) : s[i].do \in PinSteps \cup {"asked", "refused"} /\ s[i].skip = n + 1 - i /\ ~s[i].quiet
      /\ s[n + 2].do = "droppin"
  BY DEF PinSection
<1> DEFINE h == [i \in 1..(n + 3) |-> IF i >= n + 2 THEN TRUE ELSE FALSE]
<1>2. /\ h \in [1..(n + 3) -> BOOLEAN]
      /\ \A i \in 1..(n + 1) : h[i] = FALSE
      /\ h[n + 2] = TRUE /\ h[n + 3] = TRUE
  BY <1>1
<1> HIDE DEF h
<1>3. ASSUME NEW i \in 1..(n + 2)
      PROVE  /\ s[i].do \in Fallible => ~s[i].quiet /\ SealedAt(s, i, h)
             /\ h[i] => \/ s[i].do \in DropSteps /\ h[i + 1]
                        \/ s[i].do = "check" /\ SealedAt(s, i, h)
  <2>1. i = 1 \/ i \in 2..(n + 1) \/ i = n + 2
    BY <1>1
  <2>2. CASE i = 1
    <3>1. Far(s[i]) = n + 1 /\ ~s[i].quiet
      BY <1>1, <2>2 DEF Far
    <3>2. Lands(s[i], i) = n + 3
      BY <1>1, <2>2, <3>1 DEF Lands
    <3>3. SealedAt(s, i, h)
      BY <1>1, <1>2, <3>2 DEF SealedAt
    <3>4. h[i] = FALSE
      BY <1>1, <1>2, <2>2
    <3> QED
      BY <3>1, <3>3, <3>4
  <2>3. CASE i \in 2..(n + 1)
    <3>1. Far(s[i]) = n + 1 - i /\ ~s[i].quiet
      BY <1>1, <2>3 DEF Far, PinSteps
    <3>2. Lands(s[i], i) = n + 2
      BY <1>1, <2>3, <3>1 DEF Lands
    <3>3. SealedAt(s, i, h)
      BY <1>1, <1>2, <3>2 DEF SealedAt
    <3>4. h[i] = FALSE
      BY <1>1, <1>2, <2>3
    <3> QED
      BY <3>1, <3>3, <3>4
  <2>4. CASE i = n + 2
    <3>1. s[i].do \in DropSteps /\ s[i].do \notin Fallible
      BY <1>1, <2>4 DEF DropSteps, Fallible, AcquireSteps, SelectSteps, EepromSteps, PinSteps
    <3>2. h[i + 1] = TRUE
      <4>1. i + 1 = n + 3
        BY <1>1, <2>4
      <4> QED
        BY <1>2, <4>1
    <3> QED
      BY <3>1, <3>2
  <2> QED
    BY <2>1, <2>2, <2>3, <2>4
<1>4. Len(s) + 1 = n + 3
  BY <1>1
<1>5. Sealing(s, h)
  BY <1>1, <1>2, <1>3, <1>4 DEF Sealing
<1>6. h[1] = FALSE /\ h[Len(s) + 1] = TRUE
  BY <1>1, <1>2, <1>4
<1> QED
  BY <1>1, <1>5, <1>6 DEF Seals

(* A test between two sections, a refusal. *)
LEMMA OuterSeals ==
  /\ Seals(<< Return >>, TRUE, FALSE)
  /\ Refuse \in Clean /\ << Refused >> \in Clean /\ << GoOn(Refused) >> \in Clean
<1>1. ASSUME NEW e \in Steps, NEW a \in BOOLEAN, e.do \notin Fallible,
             a => e.do = "check" /\ Far(e) = Everything
      PROVE  << e >> \in Seq(Steps) /\ Seals(<< e >>, a, FALSE)
  <2>5. << e >> \in Seq(Steps) /\ Len(<< e >>) = 1 /\ << e >>[1] = e
    OBVIOUS
  <2>1. PICK s \in Seq(Steps) : s = << e >> /\ Len(s) = 1 /\ s[1] = e
    BY <2>5
  <2> DEFINE h == [i \in 1..2 |-> IF i = 1 THEN a ELSE FALSE]
  <2>2. h \in [1..2 -> BOOLEAN] /\ h[1] = a /\ h[2] = FALSE
    OBVIOUS
  <2> HIDE DEF h
  <2>3. ASSUME NEW i \in 1..1
        PROVE  /\ s[i].do \in Fallible => ~s[i].quiet /\ SealedAt(s, i, h)
               /\ h[i] => \/ s[i].do \in DropSteps /\ h[i + 1]
                          \/ s[i].do = "check" /\ SealedAt(s, i, h)
    <3>1. i = 1
      OBVIOUS
    <3> QED
      BY <1>1, <2>1, <2>2, <3>1 DEF SealedAt
  <2>4. Sealing(s, h)
    BY <2>1, <2>2, <2>3 DEF Sealing
  <2> QED
    BY <2>1, <2>2, <2>4 DEF Seals
<1>2. /\ Return \in Steps /\ Return.do = "check" /\ Far(Return) = Everything
      /\ Refused \in Steps /\ Refused.do = "refused"
      /\ GoOn(Refused) \in Steps /\ GoOn(Refused).do = "refused"
  <2>1. Return \in Steps /\ Refused \in Steps /\ GoOn(Refused) \in Steps
    BY OuterSteps DEF Outer
  <2>2. Refused.do = "refused" /\ GoOn(Refused).do = "refused"
    BY DEF Refused, GoOn, S
  <2>3. S("check", 0) \in Steps /\ S("check", 0).do = "check"
    BY OuterSteps DEF Outer, Check, S
  <2>4. Return.do = "check" /\ Return.skip = Everything
    BY <2>3, Left1 DEF Return
  <2> QED
    BY <2>1, <2>2, <2>4 DEF Far
<1>3. "check" \notin Fallible /\ "refused" \notin Fallible
  BY DEF Fallible, AcquireSteps, SelectSteps, EepromSteps, PinSteps
<1>4. Seals(<< Return >>, TRUE, FALSE)
  BY <1>1, <1>2, <1>3
<1>5. << Refused >> \in Clean /\ << GoOn(Refused) >> \in Clean
  <2>1. ASSUME NEW e \in Steps, e.do = "refused" PROVE << e >> \in Clean
    <3>1. << e >> \in Seq(Steps) /\ Seals(<< e >>, FALSE, FALSE)
      BY <1>1, <1>3, <2>1
    <3> QED
      BY <3>1 DEF Clean
  <2> QED
    BY <1>2, <2>1
<1> QED
  BY <1>4, <1>5 DEF Refuse

(* What the sections of the strict operations are, and what one followed by *)
(* a return on its error is.                                                *)
Ends(s) == Seals(s, FALSE, TRUE)

LEMMA EndsClosed ==
  /\ \A b \in SureBodies : Ends(Qsfp(Block(b))) /\ Ends(Sfp(Block(b)))
  /\ \A b \in PinBodies : Ends(Pins(b))
  /\ \A s : Ends(s) => s \in Trails /\ s \o << Return >> \in Clean
  /\ \A s \in Clean : \A u : Ends(u) => s \o u \in Trails
  /\ \A s, u \in Clean : s \o u \in Clean
  /\ Refuse \in Clean /\ << Refused >> \in Clean /\ << GoOn(Refused) >> \in Clean /\ << >> \in Clean
  /\ Clean \subseteq Trails
<1>1. ASSUME NEW b \in SureBodies PROVE Ends(Qsfp(Block(b))) /\ Ends(Sfp(Block(b)))
  <2>1. PICK k : k = Block(b)
    OBVIOUS
  <2>2. Ending(k)
    BY <2>1, SureEnding
  <2>3. PICK s : s = Around(QsfpSelect, k, QsfpDeselect)
    OBVIOUS
  <2>4. Section(s, k)
    <3>1. k \in Seq(Steps)
      BY <2>2 DEF Ending
    <3> QED
      BY <2>3, <3>1, AroundSection
  <2>5. Ends(s)
    BY <2>2, <2>4, SectionSeals DEF Ends
  <2> QED
    BY <2>1, <2>3, <2>5, SfpAround
<1>2. ASSUME NEW b \in PinBodies PROVE Ends(Pins(b))
  BY PinsShape, PinSeals DEF Ends
<1>3. ASSUME NEW s, Ends(s) PROVE s \in Trails /\ s \o << Return >> \in Clean
  <2>1. Seals(s \o << Return >>, FALSE, FALSE)
    BY <1>3, OuterSeals, SealsCat DEF Ends
  <2>2. s \o << Return >> \in Seq(Steps)
    BY <2>1 DEF Seals
  <2>3. s \in Trails
    BY <1>3, CleanClosed DEF Ends
  <2> QED
    BY <2>1, <2>2, <2>3 DEF Clean
<1>4. ASSUME NEW s \in Clean, NEW u, Ends(u) PROVE s \o u \in Trails
  BY <1>4, CleanClosed DEF Ends
<1> QED
  BY <1>1, <1>2, <1>3, <1>4, CleanClosed, OuterSeals


LEMMA QsfpTrails ==
  ASSUME NEW d, NEW f, NEW ch \in Nat, NEW flags, NEW on, NEW k
  PROVE  /\ PresenceGet \in Trails /\ PresenceGet \o << Return >> \in Clean
         /\ ModuleMonitorStatusGet(flags) \in Trails
         /\ ChannelMonitorStatusGet(d, ch, flags) \in Trails
         /\ ChannelStatusGet(d, ch, flags) \in Trails
         /\ on \in BOOLEAN => TxControl(d, f, ch, on) \in Trails
         /\ TxControlStatusGet(d, ch) \in Trails
         /\ SpeedGet \in Trails /\ MonitorThresholdGet \in Trails
         /\ ParameterGet(d, k) \in Trails
         /\ k # "none" => Ends(ParameterGet(d, k))
         /\ VendorInfoGet \in Trails /\ TransceiverCodeGet \in Trails
         /\ ModuleMonitorGet(k) \in Trails
         /\ ChannelMonitorGet(d, ch, k) \in Trails
         /\ ModuleControlStatusGet(d, k) \in Trails
<1>1. /\ << Read(Lower) >> \in SureBodies /\ << Read(0) >> \in SureBodies /\ << Refused >> \in SureBodies
      /\ << >> \in SureBodies
  <2>1. Lower \in Int /\ 0 \in Int
    BY DEF Lower
  <2> QED
    BY <2>1, SureSteps, SureClosed
<1>2. Refuse \in Trails /\ << >> \in Trails
  BY EndsClosed
<1>3. \A c : If(c, << Read(Lower) >>) \in SureBodies
  BY <1>1 DEF If
<1>4. \A b \in SureBodies : Qsfp(Block(b)) \in Trails /\ Ends(Qsfp(Block(b)))
  BY EndsClosed
<1>5. << PinRead >> \in PinBodies
  BY PinPlainSteps, PinClosed
<1>6. PresenceGet \in Trails /\ PresenceGet \o << Return >> \in Clean
  BY <1>5, EndsClosed DEF PresenceGet
<1>7. ModuleMonitorStatusGet(flags) \in Trails
  BY <1>3, <1>4, SureClosed DEF ModuleMonitorStatusGet
<1>8. ChannelMonitorStatusGet(d, ch, flags) \in Trails
  BY <1>2, <1>3, <1>4, SureClosed DEF ChannelMonitorStatusGet
<1>9. ChannelStatusGet(d, ch, flags) \in Trails
  <2> DEFINE los == IF d.dd THEN If("txlos" \in flags, << Read(Lower) >>) \o If("rxlos" \in flags, << Read(Lower) >>)
                    ELSE If(flags \cap {"txlos", "rxlos"} # {}, << Read(Lower) >>)
  <2>1. los \in SureBodies
    BY <1>3, SureClosed
  <2> HIDE DEF los
  <2>2. If("disable" \in flags, << Read(Lower) >>) \o (If("fault" \in flags, << Read(Lower) >>) \o los) \in SureBodies
    BY <1>3, <2>1, SureClosed
  <2>4. (If("disable" \in flags, << Read(Lower) >>) \o If("fault" \in flags, << Read(Lower) >>)) \o los \in SureBodies
    BY <1>3, <2>1, SureClosed
  <2> QED
    BY <1>2, <1>4, <2>2, <2>4 DEF ChannelStatusGet, los
<1>10. ASSUME on \in BOOLEAN PROVE TxControl(d, f, ch, on) \in Trails
  <2>1. CASE ~ValidateChannel(ch, d)
    BY <1>2, <2>1 DEF TxControl
  <2>2. CASE ValidateChannel(ch, d)
    <3>1. PICK n \in Signed : n = Lane(ch, on)
      <4>1. ch \in 0..7
        BY <2>2, ValidChannels
      <4> QED
        BY <4>1, LaneSigned
    <3>2. << S("readtx", Lower), S("writetx", n), S("asked", n) >> \in SureBodies
      BY SureSteps, SureClosed
    <3>3. IsTxControlSupported \o (IF "tx" \in f THEN << S("readtx", Lower), S("writetx", n), S("asked", n) >>
                                   ELSE << Refused >>) \in SureBodies
      BY <1>1, <3>2, SureClosed DEF IsTxControlSupported
    <3> QED
      BY <1>4, <2>2, <3>1, <3>3 DEF TxControl
  <2> QED
    BY <2>1, <2>2
<1>11. TxControlStatusGet(d, ch) \in Trails
  BY <1>1, <1>2, <1>4 DEF TxControlStatusGet
<1>12. SpeedGet \in Trails /\ MonitorThresholdGet \in Trails
  BY <1>2 DEF SpeedGet, MonitorThresholdGet
<1>13. Ends(Qsfp(Block(If(d.ver >= 3 /\ k = "length", << Read(Lower) >>) \o << Read(0) >>)))
  <2>1. If(d.ver >= 3 /\ k = "length", << Read(Lower) >>) \o << Read(0) >> \in SureBodies
    BY <1>1, <1>3, SureClosed
  <2> QED
    BY <1>4, <2>1
<1>14. ParameterGet(d, k) \in Trails /\ (k # "none" => Ends(ParameterGet(d, k)))
  BY <1>2, <1>13, EndsClosed DEF ParameterGet
<1>15. VendorInfoGet \in Trails /\ TransceiverCodeGet \in Trails
  BY <1>1, <1>4 DEF VendorInfoGet, TransceiverCodeGet
<1>16. ModuleMonitorGet(k) \in Trails
  BY <1>1, <1>4 DEF ModuleMonitorGet
<1>17. ChannelMonitorGet(d, ch, k) \in Trails
  BY <1>1, <1>2, <1>4 DEF ChannelMonitorGet
<1>18. ModuleControlStatusGet(d, k) \in Trails
  BY <1>2, <1>5, EndsClosed DEF ModuleControlStatusGet
<1> QED
  BY <1>6, <1>7, <1>8, <1>9, <1>10, <1>11, <1>12, <1>14, <1>15, <1>16, <1>17, <1>18

LEMMA SfpTrails ==
  ASSUME NEW f, NEW ch, NEW flags, NEW k
  PROVE  /\ SfpModuleMonitorStatusGet(f, flags) \in Trails
         /\ SfpChannelMonitorStatusGet(f, ch, flags) \in Trails
         /\ SfpChannelStatusGet(f, ch, flags) \in Trails
         /\ SfpTxControlStatusGet(f, ch) \in Trails
         /\ SfpPresenceGet \in Trails /\ SfpLedSet(f, ch, k) \in Trails
         /\ SfpSpeedGet \in Trails /\ SfpMonitorThresholdGet \in Trails
         /\ SfpParameterGet(f, k) \in Trails
         /\ SfpVendorInfoGet \in Trails /\ SfpTransceiverCodeGet \in Trails
         /\ SfpModuleMonitorGet(f, k) \in Trails
         /\ SfpChannelMonitorGet(f, ch, k) \in Trails
<1>1. /\ << Read(Lower) >> \in SureBodies /\ << Refused >> \in SureBodies /\ << >> \in SureBodies
      /\ << Read(Lower), Read(Lower) >> \in SureBodies
      /\ << Leave(Read(2)), Leave(Read(2)) >> \in SureBodies
  <2>1. Lower \in Int /\ 2 \in Int
    BY DEF Lower
  <2> QED
    BY <2>1, SureSteps, SureClosed
<1>2. Refuse \in Trails /\ << >> \in Trails
  BY EndsClosed
<1>3. \A c, b \in SureBodies : If(c, b) \in SureBodies
  BY SureClosed
<1>4. \A b \in SureBodies : Sfp(Block(b)) \in Trails /\ Ends(Sfp(Block(b)))
  BY EndsClosed
<1>5. << PinRead >> \in PinBodies /\ Pins(<< PinRead >>) \in Trails /\ Pins(<< PinRead >>) \o << Return >> \in Clean
  BY PinPlainSteps, PinClosed, EndsClosed
<1>6. SfpModuleMonitorStatusGet(f, flags) \in Trails
  <2>1. \A c : If(c, << Read(Lower) >>) \in SureBodies
    BY <1>1 DEF If
  <2> QED
    BY <1>1, <1>4, <2>1, SureClosed DEF SfpModuleMonitorStatusGet, IsAlarmFlagsSupported
<1>7. SfpChannelMonitorStatusGet(f, ch, flags) \in Trails
  <2>1. \A c : If(c, << Read(Lower) >>) \in SureBodies
    BY <1>1 DEF If
  <2> QED
    BY <1>1, <1>2, <1>4, <2>1, SureClosed DEF SfpChannelMonitorStatusGet, IsAlarmFlagsSupported, Channel0
<1>8. SfpChannelStatusGet(f, ch, flags) \in Trails
  <2> DEFINE soft == IF {"txpin", "lospin", "faultpin"} \subseteq f THEN << >>
                     ELSE Sfp(SfpOptions(f, << Read(Lower) >>)) \o << Return >>
             One(flag, pin, bit) ==
               IF flag \notin flags THEN << >>
               ELSE IF pin \in f THEN Pins(<< PinRead >>) \o << Return >>
               ELSE If({bit, "options"} \ f # {}, << GoOn(Refused) >>)
  <2>1. soft \in Clean
    <3>1. << Read(Lower) >> \o If("options" \in f, << Read(Lower) >>) \in SureBodies
      BY <1>1, SureClosed DEF If
    <3>2. Sfp(SfpOptions(f, << Read(Lower) >>)) \o << Return >> \in Clean
      BY <1>4, <3>1, EndsClosed DEF SfpOptions
    <3> QED
      BY <3>2, EndsClosed
  <2>2. ASSUME NEW flag, NEW pin, NEW bit PROVE One(flag, pin, bit) \in Clean
    <3>1. If({bit, "options"} \ f # {}, << GoOn(Refused) >>) \in Clean
      BY EndsClosed DEF If
    <3> QED
      BY <1>5, <3>1, EndsClosed
  <2>3. If("txlos" \in flags, << Refused >>) \in Clean
    BY EndsClosed DEF If
  <2> HIDE DEF soft, One
  <2>4. soft \o One("disable", "txpin", "softtx") \o One("fault", "faultpin", "softfault")
            \o One("rxlos", "lospin", "softlos") \o If("txlos" \in flags, << Refused >>) \in Clean
    <3>1. soft \o One("disable", "txpin", "softtx") \in Clean
      BY <2>1, <2>2, EndsClosed
    <3>2. soft \o One("disable", "txpin", "softtx") \o One("fault", "faultpin", "softfault") \in Clean
      BY <2>2, <3>1, EndsClosed
    <3>3. soft \o One("disable", "txpin", "softtx") \o One("fault", "faultpin", "softfault")
            \o One("rxlos", "lospin", "softlos") \in Clean
      BY <2>2, <3>2, EndsClosed
    <3> QED
      BY <2>3, <3>3, EndsClosed
  <2>5. soft \o One("disable", "txpin", "softtx") \o One("fault", "faultpin", "softfault")
            \o One("rxlos", "lospin", "softlos") \o If("txlos" \in flags, << Refused >>) \in Trails
    BY <2>4, EndsClosed
  <2> QED
    BY <1>2, <2>5 DEF SfpChannelStatusGet, Channel0, soft, One
<1>9. SfpTxControlStatusGet(f, ch) \in Trails
  <2>1. << Read(Lower) >> \o If("options" \in f, << Read(Lower) >> \o If("softtx" \notin f, << Refused >>)) \in SureBodies
    BY <1>1, SureClosed DEF If
  <2> QED
    BY <1>2, <1>4, <1>5, <2>1 DEF SfpTxControlStatusGet, Channel0, SfpOptions
<1>10. SfpPresenceGet \in Trails /\ SfpSpeedGet \in Trails /\ SfpMonitorThresholdGet \in Trails
  BY <1>2, <1>5 DEF SfpPresenceGet, SfpSpeedGet, SfpMonitorThresholdGet
<1>11. SfpLedSet(f, ch, k) \in Trails
  <2>1. << PinRead >> \o (IF k = "other" THEN << Refused >> ELSE << PinWrite(0) >>) \in PinBodies
    BY PinPlainSteps, PinClosed
  <2> QED
    BY <1>2, <2>1, EndsClosed DEF SfpLedSet, Channel0
<1>12. \A q : q # "none" => Ends(SfpParameterGet(f, q))
  <2> TAKE q
  <2>1. If(q = "wavelength", IsWavelengthTuneSupported) \in SureBodies
    BY <1>1 DEF IsWavelengthTuneSupported, If
  <2>2. SfpPageSelect(2) \in SureBodies /\ SfpPageSelect(0) \in SureBodies
    BY Pages4, SureSteps, SureClosed DEF SfpPageSelect
  <2>3. SfpPageSelect(2) \o << Leave(Read(2)), Leave(Read(2)) >> \o SfpPageSelect(0) \in SureBodies
    BY <1>1, <2>2, SureClosed
  <2>4. (IF q = "tuned" \/ (q = "wavelength" /\ "tunable" \in f)
         THEN SfpPageSelect(2) \o << Leave(Read(2)), Leave(Read(2)) >> \o SfpPageSelect(0)
         ELSE << Read(Lower) >>) \in SureBodies
    BY <1>1, <2>3
  <2>5. Ends(Sfp(Block(If(q = "wavelength", IsWavelengthTuneSupported) \o
         IF q = "tuned" \/ (q = "wavelength" /\ "tunable" \in f)
         THEN SfpPageSelect(2) \o << Leave(Read(2)), Leave(Read(2)) >> \o SfpPageSelect(0)
         ELSE << Read(Lower) >>)))
    BY <1>4, <2>1, <2>4, SureClosed
  <2> QED
    BY <2>5 DEF SfpParameterGet
<1>13. SfpParameterGet(f, k) \in Trails
  <2>1. CASE k = "none"
    BY <1>2, <2>1 DEF SfpParameterGet
  <2>2. CASE k # "none"
    BY <1>12, <2>2, EndsClosed
  <2> QED
    BY <2>1, <2>2
<1>14. SfpVendorInfoGet \in Trails /\ SfpTransceiverCodeGet \in Trails
  BY <1>1, <1>4 DEF SfpVendorInfoGet, SfpTransceiverCodeGet
<1>15. \A section : Ends(section) => Diagnosed(f, section) \in Trails
  <2> TAKE section
  <2> HAVE Ends(section)
  <2>1. SfpParameterGet(f, "diag") \o << Return >> \in Clean
    BY <1>12, EndsClosed
  <2>2. SfpParameterGet(f, "diag") \o << Return >> \o section \in Trails
    BY <2>1, EndsClosed
  <2>3. SfpParameterGet(f, "diag") \o << Return >> \o << Refused >> \in Trails
    BY <2>1, EndsClosed
  <2> QED
    BY <2>2, <2>3 DEF Diagnosed
<1>16. RxPowerValueRead(f) \in SureBodies /\ ModuleMonitorValueRead(f) \in SureBodies
  BY <1>1, SureClosed DEF RxPowerValueRead, ModuleMonitorValueRead, If
<1>17. SfpModuleMonitorGet(f, k) \in Trails
  BY <1>1, <1>4, <1>15, <1>16 DEF SfpModuleMonitorGet
<1>18. SfpChannelMonitorGet(f, ch, k) \in Trails
  BY <1>1, <1>2, <1>4, <1>15, <1>16 DEF SfpChannelMonitorGet, Channel0
<1> QED
  BY <1>6, <1>7, <1>8, <1>9, <1>10, <1>11, <1>13, <1>14, <1>17, <1>18


LEMMA StrictTrails ==
  ASSUME NEW c, c.first \in Nat
  PROVE  StrictCalls(c) \subseteq Trails
<1>0. \A q, s : q \in Trails /\ s \in Trails => By(c, q, s) \in Trails /\ IfQsfp(c, q) \in Trails
  <2>1. Refuse \in Trails
    BY EndsClosed
  <2> QED
    BY <2>1 DEF By, IfQsfp
<1>1. MediaPresenceGet(c) \subseteq Trails
  <2>1. PresenceGet \in Trails /\ PresenceGet \o << Return >> \in Clean /\ Ends(ParameterGet(c.d, "id"))
    <3>1. 0 \in Nat /\ "id" # "none"
      OBVIOUS
    <3> QED
      BY <3>1, QsfpTrails
  <2>2. DdPresenceGet(c) \in Trails
    <3>1. PresenceGet \o << Return >> \o ParameterGet(c.d, "id") \in Trails
      BY <2>1, EndsClosed
    <3>2. PresenceGet \o << Return >> \o << >> \in Trails
      BY <2>1, EndsClosed
    <3> QED
      BY <3>1, <3>2 DEF DdPresenceGet, If
  <2>3. SfpPresenceGet \in Trails
    BY SfpTrails
  <2> QED
    BY <1>0, <2>1, <2>2, <2>3 DEF MediaPresenceGet
<1>2. MediaModuleMonitorStatusGet(c) \subseteq Trails
  <2>1. \A g, h : By(c, ModuleMonitorStatusGet(g), SfpModuleMonitorStatusGet(c.f, h)) \in Trails
    <3> TAKE g, h
    <3>1. ModuleMonitorStatusGet(g) \in Trails
      <4>1. 0 \in Nat
        OBVIOUS
      <4> QED
        BY <4>1, QsfpTrails
    <3>2. SfpModuleMonitorStatusGet(c.f, h) \in Trails
      BY SfpTrails
    <3> QED
      BY <1>0, <3>1, <3>2
  <2> QED
    BY <2>1 DEF MediaModuleMonitorStatusGet
<1>3. ASSUME NEW ch \in Channels, NEW g, NEW h
      PROVE  /\ By(c, ChannelMonitorStatusGet(c.d, Ch(c, ch), g), SfpChannelMonitorStatusGet(c.f, Ch(c, ch), h)) \in Trails
             /\ By(c, ChannelStatusGet(c.d, Ch(c, ch), g), SfpChannelStatusGet(c.f, Ch(c, ch), g)) \in Trails
             /\ By(c, TxControlStatusGet(c.d, Ch(c, ch)), SfpTxControlStatusGet(c.f, Ch(c, ch))) \in Trails
             /\ By(c, ChannelMonitorGet(c.d, Ch(c, ch), g), SfpChannelMonitorGet(c.f, Ch(c, ch), g)) \in Trails
             /\ SfpLedSet(c.f, Ch(c, ch), g) \in Trails
  <2>1. PICK n \in Nat : n = Ch(c, ch)
    BY ChannelNat
  <2>2. /\ ChannelMonitorStatusGet(c.d, n, g) \in Trails /\ ChannelStatusGet(c.d, n, g) \in Trails
        /\ TxControlStatusGet(c.d, n) \in Trails /\ ChannelMonitorGet(c.d, n, g) \in Trails
    BY QsfpTrails
  <2>3. /\ SfpChannelMonitorStatusGet(c.f, n, h) \in Trails /\ SfpChannelStatusGet(c.f, n, g) \in Trails
        /\ SfpTxControlStatusGet(c.f, n) \in Trails /\ SfpLedSet(c.f, n, g) \in Trails
        /\ SfpChannelMonitorGet(c.f, n, g) \in Trails
    BY SfpTrails
  <2> QED
    BY <1>0, <2>1, <2>2, <2>3
<1>4. /\ MediaChannelMonitorStatusGet(c) \subseteq Trails /\ MediaChannelStatusGet(c) \subseteq Trails
      /\ MediaTxControlStatusGet(c) \subseteq Trails /\ MediaChannelMonitorGet(c) \subseteq Trails
      /\ MediaLedSet(c) \subseteq Trails
  <2>1. MediaChannelMonitorStatusGet(c) \subseteq Trails
    BY <1>3 DEF MediaChannelMonitorStatusGet
  <2>2. MediaChannelStatusGet(c) \subseteq Trails
    BY <1>3 DEF MediaChannelStatusGet
  <2>3. MediaTxControlStatusGet(c) \subseteq Trails
    BY <1>3 DEF MediaTxControlStatusGet
  <2>4. MediaChannelMonitorGet(c) \subseteq Trails
    BY <1>3 DEF MediaChannelMonitorGet
  <2>5. MediaLedSet(c) \subseteq Trails
    BY <1>3 DEF MediaLedSet
  <2> QED
    BY <2>1, <2>2, <2>3, <2>4, <2>5
<1>5. ASSUME NEW g, NEW h
      PROVE  /\ By(c, SpeedGet, SfpSpeedGet) \in Trails
             /\ By(c, ParameterGet(c.d, g), SfpParameterGet(c.f, h)) \in Trails
             /\ By(c, VendorInfoGet, SfpVendorInfoGet) \in Trails
             /\ By(c, TransceiverCodeGet, SfpTransceiverCodeGet) \in Trails
             /\ By(c, MonitorThresholdGet, SfpMonitorThresholdGet) \in Trails
             /\ By(c, ModuleMonitorGet(g), SfpModuleMonitorGet(c.f, g)) \in Trails
             /\ IfQsfp(c, ModuleControlStatusGet(c.d, g)) \in Trails
  <2>1. 0 \in Nat
    OBVIOUS
  <2>2. /\ SpeedGet \in Trails /\ ParameterGet(c.d, g) \in Trails /\ VendorInfoGet \in Trails
        /\ TransceiverCodeGet \in Trails /\ MonitorThresholdGet \in Trails /\ ModuleMonitorGet(g) \in Trails
        /\ ModuleControlStatusGet(c.d, g) \in Trails
    BY <2>1, QsfpTrails
  <2>3. /\ SfpSpeedGet \in Trails /\ SfpParameterGet(c.f, h) \in Trails /\ SfpVendorInfoGet \in Trails
        /\ SfpTransceiverCodeGet \in Trails /\ SfpMonitorThresholdGet \in Trails
        /\ SfpModuleMonitorGet(c.f, g) \in Trails
    BY SfpTrails
  <2> QED
    BY <1>0, <2>2, <2>3
<1>6. /\ MediaSpeedGet(c) \subseteq Trails /\ MediaParameterGet(c) \subseteq Trails
      /\ MediaVendorInfoGet(c) \subseteq Trails /\ MediaTransceiverCodeGet(c) \subseteq Trails
      /\ MediaMonitorThresholdGet(c) \subseteq Trails /\ MediaModuleMonitorGet(c) \subseteq Trails
      /\ MediaModuleControlStatusGet(c) \subseteq Trails
  BY <1>5 DEF MediaSpeedGet, MediaParameterGet, MediaVendorInfoGet, MediaTransceiverCodeGet,
              MediaMonitorThresholdGet, MediaModuleMonitorGet, MediaModuleControlStatusGet
<1>7. FixedPortCalls \subseteq Trails
  BY EndsClosed DEF FixedPortCalls
<1>8. ASSUME IsQsfp(c) /\ ~c.d.qsa PROVE MediaTxControl(c) \subseteq Trails
  <2>1. ASSUME NEW ch \in Channels, NEW on \in BOOLEAN
        PROVE  By(c, TxControl(c.d, c.f, Ch(c, ch), on), SfpTxControl(c.f, Ch(c, ch), on)) \in Trails
    <3>1. PICK n \in Nat : n = Ch(c, ch)
      BY ChannelNat
    <3>2. TxControl(c.d, c.f, n, on) \in Trails
      BY QsfpTrails
    <3> QED
      BY <1>8, <3>1, <3>2 DEF By
  <2> QED
    BY <2>1 DEF MediaTxControl
<1> QED
  BY <1>1, <1>2, <1>4, <1>6, <1>7, <1>8 DEF StrictCalls

LEMMA PortTrails ==
  ASSUME NEW p \in Ports, NEW d \in Drivers, NEW m \in Modules \cup {NoModule}
  PROVE  /\ \A alone \in BOOLEAN : \A call \in CallsOf[Context(p, d, m)][alone] :
              call.lax = TRUE \/ (call.lax = FALSE /\ call.steps \in Trails)
         /\ \A pres \in BOOLEAN : \A call \in InitsOf[Context(p, d, m)][pres] : call.lax = TRUE
<1>1. PICK c \in Contexts : c = Context(p, d, m) /\ c.first \in Nat
  <2>1. Context(p, d, m) \in Contexts
    BY DEF Contexts
  <2>2. Context(p, d, m).first = Port[p].first
    BY DEF Context
  <2> QED
    BY <2>1, <2>2, PlatformAssumption
<1>2. \A call \in AllCalls(c) : call.lax = TRUE \/ (call.lax = FALSE /\ call.steps \in Trails)
  <2>1. StrictCalls(c) \subseteq Trails
    BY <1>1, StrictTrails
  <2> SUFFICES ASSUME NEW call \in AllCalls(c)
               PROVE  call.lax = TRUE \/ (call.lax = FALSE /\ call.steps \in Trails)
    OBVIOUS
  <2>2. call \in Strict(StrictCalls(c)) \/ call \in Lax(LaxCalls(c) \ StrictCalls(c))
    BY ONLY call \in AllCalls(c) DEF AllCalls
  <2>3. CASE call \in Strict(StrictCalls(c))
    <3>1. PICK s \in StrictCalls(c) : call = [lax |-> FALSE, steps |-> s]
      BY ONLY <2>3 DEF Strict
    <3> QED
      BY <2>1, <3>1
  <2>4. CASE call \in Lax(LaxCalls(c) \ StrictCalls(c))
    <3>1. PICK s \in LaxCalls(c) \ StrictCalls(c) : call = [lax |-> TRUE, steps |-> s]
      BY ONLY <2>4 DEF Lax
    <3> QED
      BY <3>1
  <2> QED
    BY <2>2, <2>3, <2>4
<1>3. \A alone \in BOOLEAN : CallsOf[c][alone] \subseteq AllCalls(c)
  BY <1>1 DEF CallsOf
<1>4. ASSUME NEW pres \in BOOLEAN, NEW call \in InitsOf[c][pres] PROVE call.lax = TRUE
  <2>1. call \in Lax(MediaModuleInit(c, pres))
    BY <1>1 DEF InitsOf
  <2>2. PICK s \in MediaModuleInit(c, pres) : call = [lax |-> TRUE, steps |-> s]
    BY ONLY <2>1 DEF Lax
  <2> QED
    BY <2>2
<1> QED
  BY <1>1, <1>2, <1>3, <1>4


--------------------------------------------------------------------------------
(* A call that must not lose an access: once one failed, what is left of it *)
(* is sealed and its return code is the error. The other calls do not count.*)
Faithful(r) ==
  r.p # Idle => IF r.lax THEN ~r.lost
                ELSE \E a, z \in BOOLEAN : Seals(r.seq, a, z) /\ (r.lost => a /\ r.rc = "err")
Owned == Inv /\ \A t \in Threads : Faithful(th[t])

(* Where the next step of such a call leads. *)
LEMMA FaithfulStep ==
  ASSUME NEW r \in Records, Faithful(r), r.p # Idle, r.seq # << >>, ~r.lax
  PROVE  \E h : /\ Head(r.seq).do \in Fallible => ~r.lost /\ ~Head(r.seq).quiet /\ SealedAt(r.seq, 1, h)
                /\ r.lost => /\ r.rc = "err"
                             /\ \/ Head(r.seq).do \in DropSteps
                                \/ Head(r.seq).do = "check" /\ SealedAt(r.seq, 1, h)
                /\ \E a, z \in BOOLEAN : /\ Seals(Tail(r.seq), a, z)
                                         /\ r.lost /\ Head(r.seq).do \in DropSteps => a
                /\ \A n \in Int :
                     \E a, z \in BOOLEAN : /\ Seals(Drop(Tail(r.seq), n), a, z)
                                           /\ Far(Head(r.seq)) = n /\ SealedAt(r.seq, 1, h) => a
<1>1. PICK s : s = r.seq
  OBVIOUS
<1>2. s \in Seq(Steps) /\ s # << >> /\ Len(s) \in Nat /\ Len(s) >= 1 /\ Head(s) = s[1] /\ 1 \in 1..Len(s)
  <2>1. s \in Seq(Steps) /\ s # << >>
    BY <1>1 DEF Records
  <2> QED
    BY <2>1
<1>3. PICK a, z \in BOOLEAN : Seals(s, a, z) /\ (r.lost => a /\ r.rc = "err")
  BY <1>1 DEF Faithful
<1>4. PICK h : Sealing(s, h) /\ h[1] = a /\ h[Len(s) + 1] = z
  BY <1>3 DEF Seals
<1>5. /\ s[1].do \in Fallible => ~s[1].quiet /\ SealedAt(s, 1, h)
      /\ h[1] => \/ s[1].do \in DropSteps /\ h[1 + 1]
                 \/ s[1].do = "check" /\ SealedAt(s, 1, h)
  BY <1>2, <1>4 DEF Sealing
<1>6. s[1].do \in Fallible => s[1].do \notin DropSteps /\ s[1].do # "check"
  BY DEF Fallible, DropSteps, AcquireSteps, SelectSteps, EepromSteps, PinSteps
<1>7. Seals(Tail(s), h[2], h[Len(s) + 1]) /\ h[2] \in BOOLEAN /\ h[Len(s) + 1] \in BOOLEAN
  <2>1. 0 \in Int
    OBVIOUS
  <2> QED
    BY <1>2, <1>4, <2>1, SealsDrop
<1>8. \A n \in Int : \E b, y \in BOOLEAN : /\ Seals(Drop(Tail(s), n), b, y)
                                           /\ Far(Head(s)) = n /\ SealedAt(s, 1, h) => b
  <2> TAKE n \in Int
  <2> QED
    BY <1>2, <1>4, SealsDrop
<1>9. s[1].do \in Fallible => ~r.lost
  BY <1>3, <1>4, <1>5, <1>6
<1>10. r.lost /\ s[1].do \in DropSteps => h[2]
  <2>1. "check" \notin DropSteps /\ 1 + 1 = 2
    BY DEF DropSteps
  <2> QED
    BY <1>3, <1>4, <1>5, <2>1
<1>11. r.lost => r.rc = "err" /\ (s[1].do \in DropSteps \/ (s[1].do = "check" /\ SealedAt(s, 1, h)))
  BY <1>3, <1>4, <1>5
<1>12. \E b, y \in BOOLEAN : Seals(Tail(s), b, y) /\ (r.lost /\ s[1].do \in DropSteps => b)
  BY <1>7, <1>10
<1> QED
  BY <1>1, <1>2, <1>5, <1>8, <1>9, <1>11, <1>12

(* Each way a step can go: on, past the steps it skips, or with an error. *)
LEMMA GoesOn ==
  ASSUME NEW r \in Records, Faithful(r), r.p # Idle, r.seq # << >>,
         NEW w, w.p = r.p, w.lax = r.lax, w.lost = r.lost, w.seq = Tail(r.seq),
         r.lost => w.rc = r.rc /\ Head(r.seq).do \in DropSteps
  PROVE  Faithful(w)
<1>1. CASE r.lax
  BY <1>1 DEF Faithful
<1>2. CASE ~r.lax
  <2>1. PICK h : /\ r.lost => r.rc = "err"
                 /\ \E a, z \in BOOLEAN : /\ Seals(Tail(r.seq), a, z)
                                          /\ r.lost /\ Head(r.seq).do \in DropSteps => a
    BY <1>2, FaithfulStep
  <2>2. PICK a, z \in BOOLEAN : Seals(Tail(r.seq), a, z) /\ (r.lost /\ Head(r.seq).do \in DropSteps => a)
    BY <2>1
  <2>3. w.lost => a /\ w.rc = "err"
    BY <2>1, <2>2
  <2> QED
    BY <1>2, <2>2, <2>3 DEF Faithful
<1> QED
  BY <1>1, <1>2

LEMMA Skips ==
  ASSUME NEW r \in Records, Faithful(r), r.p # Idle, r.seq # << >>, NEW n \in Int,
         NEW w, w.p = r.p, w.lax = r.lax, w.lost = r.lost, w.seq = Drop(Tail(r.seq), n),
         r.lost => w.rc = r.rc /\ Head(r.seq).do = "check" /\ Far(Head(r.seq)) = n
  PROVE  Faithful(w)
<1>1. CASE r.lax
  BY <1>1 DEF Faithful
<1>2. CASE ~r.lax
  <2>1. PICK h : /\ r.lost => /\ r.rc = "err"
                              /\ \/ Head(r.seq).do \in DropSteps
                                 \/ Head(r.seq).do = "check" /\ SealedAt(r.seq, 1, h)
                 /\ \E a, z \in BOOLEAN : /\ Seals(Drop(Tail(r.seq), n), a, z)
                                          /\ Far(Head(r.seq)) = n /\ SealedAt(r.seq, 1, h) => a
    BY <1>2, FaithfulStep
  <2>2. PICK a, z \in BOOLEAN : /\ Seals(Drop(Tail(r.seq), n), a, z)
                                /\ Far(Head(r.seq)) = n /\ SealedAt(r.seq, 1, h) => a
    BY <2>1
  <2>3. "check" \notin DropSteps
    BY DEF DropSteps
  <2>4. w.lost => a /\ w.rc = "err"
    BY <2>1, <2>2, <2>3
  <2> QED
    BY <1>2, <2>2, <2>4 DEF Faithful
<1> QED
  BY <1>1, <1>2

LEMMA Fails ==
  ASSUME NEW r \in Records, Faithful(r), r.p # Idle, r.seq # << >>,
         Head(r.seq) \in Steps, Head(r.seq).do \in Fallible,
         NEW w, w.p = r.p, w.lax = r.lax, w.lost = ~r.lax,
         w.seq = Drop(Tail(r.seq), Head(r.seq).skip),
         w.rc = IF Head(r.seq).quiet THEN r.rc ELSE "err"
  PROVE  Faithful(w)
<1>1. CASE r.lax
  BY <1>1 DEF Faithful
<1>2. CASE ~r.lax
  <2>1. PICK n \in Int : n = Head(r.seq).skip
    BY DEF Steps
  <2>2. Far(Head(r.seq)) = n
    BY <2>1 DEF Far, Fallible, AcquireSteps, SelectSteps, EepromSteps, PinSteps
  <2>3. PICK h : /\ ~Head(r.seq).quiet /\ SealedAt(r.seq, 1, h)
                 /\ \E a, z \in BOOLEAN : /\ Seals(Drop(Tail(r.seq), n), a, z)
                                          /\ Far(Head(r.seq)) = n /\ SealedAt(r.seq, 1, h) => a
    BY <1>2, FaithfulStep
  <2>4. PICK a, z \in BOOLEAN : Seals(Drop(Tail(r.seq), n), a, z) /\ a
    BY <2>2, <2>3
  <2>5. w.rc = "err"
    BY <2>3
  <2> QED
    BY <1>2, <2>1, <2>4, <2>5 DEF Faithful
<1> QED
  BY <1>1, <1>2

(* The others are as they were. *)
LEMMA OneMoves ==
  ASSUME Owned, NEW t \in Threads, NEW w, th' = [th EXCEPT ![t] = w], Faithful(w)
  PROVE  \A u \in Threads : Faithful(th'[u])
<1>1. th \in [Threads -> Records]
  BY DEF Owned, Inv, Typed
<1> TAKE u \in Threads
<1>2. th'[u] = IF u = t THEN w ELSE th[u]
  BY <1>1
<1> QED
  BY <1>2 DEF Owned

LEMMA SuccessFaithful ==
  ASSUME Owned, NEW t \in Threads, Running(t), Step(t).do \in Fallible,
         NEW w, w.p = th[t].p, w.lax = th[t].lax, w.lost = th[t].lost, w.seq = Tail(th[t].seq),
         th' = [th EXCEPT ![t] = w]
  PROVE  \A u \in Threads : Faithful(th'[u])
<1>1. /\ th[t] \in Records /\ Faithful(th[t]) /\ th[t].p # Idle /\ th[t].seq # << >>
      /\ Step(t) = Head(th[t].seq)
  BY DEF Owned, Inv, Typed, Running, Step
<1>2. PICK r \in Records : r = th[t]
  BY <1>1
<1>3. r.lost => r.lax
  BY <1>1, <1>2, FaithfulStep
<1>4. ~r.lost
  BY <1>1, <1>2, <1>3 DEF Faithful
<1>5. Faithful(w)
  BY <1>1, <1>2, <1>4, GoesOn
<1> QED
  BY <1>5, OneMoves

LEMMA FailureFaithful ==
  ASSUME Owned, NEW t \in Threads, Running(t), Step(t).do \in Fallible, Proceed(t, Failed(t))
  PROVE  \A u \in Threads : Faithful(th'[u])
<1>1. /\ th[t] \in Records /\ Faithful(th[t]) /\ th[t].p # Idle /\ th[t].seq # << >>
      /\ Step(t) = Head(th[t].seq) /\ Step(t) \in Steps
  BY AtStep DEF Owned, Inv, Typed, Running, Step
<1>2. PICK r \in Records : r = th[t]
  BY <1>1
<1>3. PICK w : w = Failed(t)
  OBVIOUS
<1>4. /\ w.p = r.p /\ w.lax = r.lax /\ w.lost = ~r.lax
      /\ w.seq = Drop(Tail(r.seq), Head(r.seq).skip)
      /\ w.rc = IF Head(r.seq).quiet THEN r.rc ELSE "err"
  BY <1>1, <1>2, <1>3 DEF Failed, Records
<1>5. Faithful(w)
  BY <1>1, <1>2, <1>4, Fails
<1> QED
  BY <1>3, <1>5, OneMoves DEF Proceed


LEMMA FaithfulNext ==
  ASSUME Owned, Next
  PROVE  \A u \in Threads : Faithful(th'[u])
<1>0. /\ th \in [Threads -> Records] /\ \A u \in Threads : Faithful(th[u])
      /\ \A t \in Threads : th[t] \in Records
  BY DEF Owned, Inv, Typed
<1>1. ASSUME NEW t \in Threads, Acquire(t) \/ Select(t) \/ Access(t)
      PROVE  \A u \in Threads : Faithful(th'[u])
  <2>1. Running(t) /\ Step(t).do \in Fallible
    BY <1>1 DEF Acquire, Select, Access, Fallible
  <2>2. /\ Succeeded(t).p = th[t].p /\ Succeeded(t).lax = th[t].lax /\ Succeeded(t).lost = th[t].lost
        /\ Succeeded(t).seq = Tail(th[t].seq)
    BY <1>0 DEF Succeeded, Records
  <2>3. CASE Acquire(t) \/ Select(t)
    <3>1. th' = [th EXCEPT ![t] = Succeeded(t)]
      BY <2>3 DEF Acquire, Select, Proceed
    <3> QED
      BY <2>1, <2>2, <3>1, SuccessFaithful
  <2>4. CASE Access(t)
    <3>1. PICK w : /\ th' = [th EXCEPT ![t] = w]
                   /\ \E b : w = [Succeeded(t) EXCEPT !.buf = b]
      BY <2>4 DEF Access, Proceed
    <3>2. /\ w.p = th[t].p /\ w.lax = th[t].lax /\ w.lost = th[t].lost
          /\ w.seq = Tail(th[t].seq)
      BY <1>0, <3>1 DEF Succeeded, Records
    <3> QED
      BY <2>1, <3>1, <3>2, SuccessFaithful
  <2> QED
    BY <1>1, <2>3, <2>4
<1>2. ASSUME NEW t \in Threads, SelectFails(t) \/ AccessFails(t)
      PROVE  \A u \in Threads : Faithful(th'[u])
  <2>1. Running(t) /\ Step(t).do \in Fallible /\ Proceed(t, Failed(t))
    BY <1>2 DEF SelectFails, AccessFails, Fallible
  <2> QED
    BY <2>1, FailureFaithful
<1>3. ASSUME NEW t \in Threads, Deselect(t) \/ Stray(t) \/ Decide(t) \/ Note(t)
      PROVE  \A u \in Threads : Faithful(th'[u])
  <2>1. PICK r \in Records : /\ r = th[t] /\ Faithful(r) /\ r.p # Idle /\ r.seq # << >> /\ Step(t) = Head(r.seq)
                             /\ Step(t) \in Steps
    <3>1. Running(t)
      BY <1>3 DEF Deselect, Stray, Decide, Note
    <3>2. Step(t) \in Steps
      BY <3>1, AtStep DEF Owned
    <3> QED
      BY <1>0, <3>1, <3>2 DEF Running, Step
  <2>2. ~r.lax /\ r.lost => Step(t).do \in DropSteps \/ (Step(t).do = "check" /\ r.rc = "err")
    BY <2>1, FaithfulStep
  <2>3. r.lax => ~r.lost
    BY <2>1 DEF Faithful
  <2>4. ASSUME Step(t).do \notin DropSteps, Step(t).do # "check"
        PROVE  ~r.lost
    BY <2>2, <2>3, <2>4
  <2>5. CASE Deselect(t)
    <3>1. PICK w : w = [r EXCEPT !.seq = Tail(r.seq), !.late = TRUE]
      OBVIOUS
    <3>2. /\ w.p = r.p /\ w.lax = r.lax /\ w.lost = r.lost /\ w.seq = Tail(r.seq) /\ w.rc = r.rc
          /\ th' = [th EXCEPT ![t] = w] /\ Step(t).do \in DropSteps
      BY <2>1, <2>5, <3>1 DEF Deselect, Proceed, Records
    <3>3. Faithful(w)
      BY <2>1, <3>2, GoesOn
    <3> QED
      BY <3>2, <3>3, OneMoves
  <2>6. CASE Stray(t)
    <3>1. Step(t).do = "stray"
      BY <2>6 DEF Stray
    <3>2. ~r.lost
      BY <2>4, <3>1 DEF DropSteps
    <3>3. PICK q \in {Tail(r.seq), Drop(Tail(r.seq), Step(t).skip)}, b \in BOOLEAN :
             th' = [th EXCEPT ![t] = [r EXCEPT !.seq = q, !.astray = b]]
      <4>1. r = th[t]
        BY <2>1
      <4> QED
        BY <2>6, <4>1 DEF Stray, Proceed
    <3>4. PICK w : w = [r EXCEPT !.seq = q, !.astray = b]
      OBVIOUS
    <3>5. w.p = r.p /\ w.lax = r.lax /\ w.lost = r.lost /\ w.seq = q /\ w.rc = r.rc
      BY <3>4 DEF Records
    <3>6. Step(t).skip \in Int
      BY <2>1 DEF Steps
    <3>7. Faithful(w)
      <4>1. CASE q = Tail(r.seq)
        BY <2>1, <3>2, <3>5, <4>1, GoesOn
      <4>2. CASE q = Drop(Tail(r.seq), Step(t).skip)
        BY <2>1, <3>2, <3>5, <3>6, <4>2, Skips
      <4> QED
        BY <3>3, <4>1, <4>2
    <3> QED
      BY <3>3, <3>4, <3>7, OneMoves
  <2>7. CASE Decide(t)
    <3> DEFINE s == Step(t)
               leave == \/ s.do \in {"refused", "jump", "done"}
                        \/ s.do = "check" /\ r.rc = "err"
                        \/ s.do = "wason" /\ Serdes \in r.buf
    <3>1. PICK q, rc : /\ q = IF leave THEN Drop(Tail(r.seq), Far(s)) ELSE Tail(r.seq)
                       /\ rc = IF s.do = "refused" THEN "err" ELSE r.rc
      OBVIOUS
    <3>2. PICK w : w = [r EXCEPT !.seq = q, !.rc = rc]
      OBVIOUS
    <3>3. /\ th' = [th EXCEPT ![t] = w]
          /\ s.do \in {"check", "refused", "jump", "wason", "done"}
      <4>1. Far(s) = CASE s.do = "jump" -> s.n [] s.do = "done" -> Everything [] OTHER -> s.skip
        BY DEF Far
      <4>2. Proceed(t, [th[t] EXCEPT !.seq = q, !.rc = rc])
        BY <2>1, <2>7, <3>1, <4>1 DEF Decide
      <4> QED
        BY <2>1, <2>7, <3>2, <4>2 DEF Decide, Proceed
    <3>4. w.p = r.p /\ w.lax = r.lax /\ w.lost = r.lost /\ w.seq = q /\ w.rc = rc
      BY <3>2 DEF Records
    <3>5. r.lost => s.do = "check" /\ r.rc = "err" /\ w.rc = r.rc
      BY <2>2, <2>3, <3>1, <3>3, <3>4 DEF DropSteps
    <3>6. Far(s) \in Int
      BY <2>1, FarForm
    <3>7. CASE leave
      <4>1. w.seq = Drop(Tail(r.seq), Far(s)) /\ s = Head(r.seq)
        BY <2>1, <3>1, <3>4, <3>7
      <4> HIDE DEF s, leave
      <4>2. Faithful(w)
        BY <2>1, <3>4, <3>5, <3>6, <4>1, Skips
      <4> QED
        BY <3>3, <4>2, OneMoves
    <3>8. CASE ~leave
      <4>1. w.seq = Tail(r.seq) /\ ~r.lost
        BY <3>1, <3>4, <3>5, <3>8
      <4> HIDE DEF s, leave
      <4>2. Faithful(w)
        BY <2>1, <3>4, <4>1, GoesOn
      <4> QED
        BY <3>3, <4>2, OneMoves
    <3> QED
      BY <3>7, <3>8
  <2>8. CASE Note(t)
    <3>1. Step(t).do \in {"asked", "forgetpower", "forgetversion", "absent"}
      BY <2>8 DEF Note
    <3>2. ~r.lost
      BY <2>4, <3>1 DEF DropSteps
    <3>3. PICK w : w = [r EXCEPT !.seq = Tail(r.seq)]
      OBVIOUS
    <3>4. /\ w.p = r.p /\ w.lax = r.lax /\ w.lost = r.lost /\ w.seq = Tail(r.seq) /\ w.rc = r.rc
          /\ th' = [th EXCEPT ![t] = w]
      BY <2>1, <2>8, <3>3 DEF Note, Proceed, Records
    <3>5. Faithful(w)
      BY <2>1, <3>2, <3>4, GoesOn
    <3> QED
      BY <3>4, <3>5, OneMoves
  <2> QED
    BY <1>3, <2>5, <2>6, <2>7, <2>8
<1>4. ASSUME NEW t \in Threads, Finish(t)
      PROVE  \A u \in Threads : Faithful(th'[u])
  <2>1. th' = [th EXCEPT ![t] = Rest] /\ Rest.p = Idle
    BY <1>4 DEF Finish, Rest
  <2>2. Faithful(Rest)
    BY <2>1 DEF Faithful
  <2> QED
    BY <2>1, <2>2, OneMoves
<1>5. ASSUME NEW t \in Threads, NEW p \in Ports, NEW call, NEW init, Begin(t, p, call, init),
             call.lax = TRUE \/ (call.lax = FALSE /\ call.steps \in Trails)
      PROVE  \A u \in Threads : Faithful(th'[u])
  <2>1. PICK w : w = [Rest EXCEPT !.p = p, !.seq = call.steps, !.lax = call.lax, !.init = init]
    OBVIOUS
  <2>2. w.seq = call.steps /\ w.lax = call.lax /\ w.lost = FALSE
    BY <2>1 DEF Rest
  <2>3. Faithful(w)
    <3>1. CASE call.lax = TRUE
      BY <2>2, <3>1 DEF Faithful
    <3>2. CASE call.lax = FALSE /\ call.steps \in Trails
      <4>1. \E a, z \in BOOLEAN : Seals(call.steps, a, z)
        BY <3>2 DEF Trails
      <4> QED
        BY <2>2, <3>2, <4>1 DEF Faithful
    <3> QED
      BY <1>5, <3>1, <3>2
  <2>4. th' = [th EXCEPT ![t] = w]
    BY <1>5, <2>1 DEF Begin
  <2> QED
    BY <2>3, <2>4, OneMoves
<1>6. ASSUME NEW t \in Threads, NEW p \in Ports, Call(t, p) \/ \E pres \in BOOLEAN : InitModule(t, p, pres)
      PROVE  \A u \in Threads : Faithful(th'[u])
  <2>1. drv[p] \in Drivers /\ module[CageOf(p)] \in Modules \cup {NoModule}
    BY PlatformAssumption DEF Owned, Inv, Typed, CageOf
  <2>2. CASE Call(t, p)
    <3>1. PICK alone \in BOOLEAN : alone = (Cardinality(scene.crew) = 1)
      OBVIOUS
    <3>2. PICK call \in CallsOf[Context(p, drv[p], module[CageOf(p)])][alone] : Begin(t, p, call, FALSE)
      BY <2>2, <3>1 DEF Call, ThisContext
    <3>3. call.lax = TRUE \/ (call.lax = FALSE /\ call.steps \in Trails)
      BY <2>1, <3>2, PortTrails
    <3> QED
      BY <1>5, <3>2, <3>3
  <2>3. CASE \E pres \in BOOLEAN : InitModule(t, p, pres)
    <3>1. PICK pres \in BOOLEAN : InitModule(t, p, pres)
      BY <2>3
    <3>2. PICK call \in InitsOf[Context(p, drv[p], module[CageOf(p)])][pres] : Begin(t, p, call, TRUE)
      BY <3>1 DEF InitModule, ThisContext
    <3>3. call.lax = TRUE
      BY <2>1, <3>2, PortTrails
    <3> QED
      BY <1>5, <3>2, <3>3
  <2> QED
    BY <1>6, <2>2, <2>3
<1>7. ASSUME NEW k \in Cages, Remove(k) \/ \E m \in scene.fits[k] : Insert(k, m)
      PROVE  \A u \in Threads : Faithful(th'[u])
  <2>1. th' = th
    BY <1>7 DEF Remove, Insert
  <2> QED
    BY <1>0, <2>1
<1> QED
  BY <1>1, <1>2, <1>3, <1>4, <1>6, <1>7 DEF Next

(* Of the operations that do not drop results by design, none that returns       *)
(* success lost an access: the failure of a selection, of a register or of a pin *)
(* reaches the caller through every block, cleanup and later section             *)
(* (sdi_qsfp_channel_status_get, sdi_sfp_channel_status_get and the rest of      *)
(* StrictCalls).                                                                 *)
THEOREM ResultsAreHonest == Spec => []HonestResult
<1>1. Init => \A t \in Threads : Faithful(th[t])
  BY DEF Init, Rest, Faithful
<1>2. Inv /\ (\A t \in Threads : Faithful(th[t])) /\ [Next]_vars => (\A t \in Threads : Faithful(th[t]))'
  <2>1. CASE Next
    BY <2>1, FaithfulNext DEF Owned
  <2>2. CASE UNCHANGED vars
    BY <2>2 DEF vars
  <2> QED
    BY <2>1, <2>2
<1>3. Inv /\ (\A t \in Threads : Faithful(th[t])) => HonestResult
  <2> SUFFICES ASSUME Inv, \A t \in Threads : Faithful(th[t]),
                      NEW t \in Threads, th[t].p # Idle, th[t].rc = "ok"
               PROVE  ~th[t].lost
    BY DEF HonestResult
  <2> QED
    BY DEF Faithful
<1> QED
  BY <1>1, <1>2, <1>3, InvHolds, PTL DEF Spec

================================================================================
