---------------------------- MODULE Vtr812Proofs ----------------------------
(***************************************************************************)
(* Theorems of Vtr812, for every set of setups.                             *)
(*                                                                          *)
(* A method is a list of register writes.  The proofs rest on what every    *)
(* list that a method can ask for has in common, Fit, and on what is known  *)
(* of the card and the driver while a part of the list is still to be done. *)
(***************************************************************************)
EXTENDS Vtr812, WindowProofs, SequenceTheorems, TLAPS

-----------------------------------------------------------------------------
(* The lists of steps *)

Rank(what) == CASE what = "disarm" -> 1 [] what = "resetIRQ" -> 2 [] what = "start" -> 3
                [] what = "enableIRQ" -> 4 [] what = "multi" -> 5 [] OTHER -> 6

\* Only CSR2 may be written more than once, in pre/post-trigger mode, and
\* nothing but a write that arms follows one.
Before(a, b) ==
    /\ Rank(a.do) < Rank(b.do) \/ b.do = "csr2"
    /\ a.do = "csr2" =>
          b.n = armPrePostTrigger /\ ("arm" \in a.bits => "arm" \in b.bits)

\* A write of CSR2 that arms the card is asked for by a request to arm, and
\* MultiPrePost has three bits.
Proper(a) ==
    /\ a.do = "csr2" /\ "arm" \in a.bits =>
          a.n \in Armings /\ ("circ" \in a.bits <=> a.n = armPrePostTrigger)
    /\ a.do = "multi" => a.n \in 0 .. 7

\* Steps of one list are in the same mode, and post-trigger mode resets
\* MultiPrePost.
Agree(a, b) ==
    /\ {a.do, b.do} \subseteq {"start", "csr2"} => a.n = b.n
    /\ a.do = "multi" /\ b.do = "csr2" /\ b.n = armPostTrigger => a.n = 0

Fit(s) ==
    /\ s \in Seq(Steps)
    /\ \A i \in 1 .. Len(s) : Proper(s[i])
    /\ \A i, j \in 1 .. Len(s) : Agree(s[i], s[j])
    /\ \A i, j \in 1 .. Len(s) : i < j => Before(s[i], s[j])

\* s has a step of the kind
Has(s, what) == \E i \in 1 .. Len(s) : s[i].do = what

LEMMA TailFit ==
    ASSUME NEW s, Fit(s), s # <<>>
    PROVE  /\ Fit(Tail(s)) /\ Head(s) = s[1] /\ 1 \in 1 .. Len(s) /\ Head(s) \in Steps
           /\ \A i \in 1 .. Len(Tail(s)) :
                 i + 1 \in 1 .. Len(s) /\ Tail(s)[i] = s[i + 1] /\ Before(Head(s), Tail(s)[i])
           /\ \A what : Has(Tail(s), what) => Has(s, what)
           /\ \A what : Has(s, what) => Has(Tail(s), what) \/ Head(s).do = what
<1>1. s \in Seq(Steps)
  BY DEF Fit
<1>2. /\ Tail(s) \in Seq(Steps) /\ Len(s) \in Nat /\ Len(s) >= 1
      /\ Len(Tail(s)) = Len(s) - 1 /\ Head(s) = s[1] /\ s[1] \in Steps
      /\ \A i \in 1 .. Len(Tail(s)) : i + 1 \in 1 .. Len(s) /\ Tail(s)[i] = s[i + 1]
  BY <1>1
<1>3. \A i \in 1 .. Len(Tail(s)) : Before(Head(s), Tail(s)[i])
  BY <1>2 DEF Fit
<1>4. Fit(Tail(s))
  BY <1>2 DEF Fit
<1>5. \A what : Has(Tail(s), what) => Has(s, what)
  BY <1>2 DEF Has
<1>6. ASSUME NEW what, Has(s, what) PROVE Has(Tail(s), what) \/ Head(s).do = what
  <2>1. PICK i \in 1 .. Len(s) : s[i].do = what
    BY <1>6 DEF Has
  <2>2. CASE i = 1
    BY <1>2, <2>1, <2>2
  <2>3. CASE i # 1
    <3>1. i - 1 \in 1 .. Len(Tail(s)) /\ (i - 1) + 1 = i
      BY <1>2, <2>3
    <3>2. Tail(s)[i - 1] = s[i]
      BY <1>2, <3>1
    <3> QED BY <2>1, <3>1, <3>2 DEF Has
  <2> QED BY <2>2, <2>3
<1> QED BY <1>2, <1>3, <1>4, <1>5, <1>6

LEMMA ConcatSteps ==
    ASSUME NEW s \in Seq(Steps), NEW t \in Seq(Steps)
    PROVE  /\ s \o t \in Seq(Steps)
           /\ \A i \in 1 .. Len(s \o t) :
                 \/ i \in 1 .. Len(s) /\ (s \o t)[i] = s[i]
                 \/ /\ i > Len(s) /\ (i - Len(s)) \in 1 .. Len(t)
                    /\ (s \o t)[i] = t[i - Len(s)]
           /\ \A what : Has(s \o t, what) <=> Has(s, what) \/ Has(t, what)
<1>1. /\ s \o t \in Seq(Steps) /\ Len(s \o t) = Len(s) + Len(t)
      /\ \A i \in 1 .. Len(s) + Len(t) :
            (s \o t)[i] = IF i <= Len(s) THEN s[i] ELSE t[i - Len(s)]
  BY ConcatProperties
<1>2. Len(s) \in Nat /\ Len(t) \in Nat
  OBVIOUS
<1>3. \A what : Has(s, what) => Has(s \o t, what)
  BY <1>1, <1>2 DEF Has
<1>4. ASSUME NEW what, Has(t, what) PROVE Has(s \o t, what)
  <2>1. PICK i \in 1 .. Len(t) : t[i].do = what
    BY <1>4 DEF Has
  <2>2. i + Len(s) \in 1 .. Len(s \o t) /\ (s \o t)[i + Len(s)] = t[i]
    BY <1>1, <1>2
  <2> QED BY <2>1, <2>2 DEF Has
<1>5. ASSUME NEW what, Has(s \o t, what) PROVE Has(s, what) \/ Has(t, what)
  <2>1. PICK i \in 1 .. Len(s \o t) : (s \o t)[i].do = what
    BY <1>5 DEF Has
  <2>2. CASE i <= Len(s)
    <3>1. i \in 1 .. Len(s) /\ (s \o t)[i] = s[i]
      BY <1>1, <1>2, <2>2
    <3> QED BY <2>1, <3>1 DEF Has
  <2>3. CASE ~(i <= Len(s))
    <3>1. i - Len(s) \in 1 .. Len(t) /\ (s \o t)[i] = t[i - Len(s)]
      BY <1>1, <1>2, <2>3
    <3> QED BY <2>1, <3>1 DEF Has
  <2> QED BY <2>2, <2>3
<1>6. \A i \in 1 .. Len(s \o t) :
         \/ i \in 1 .. Len(s) /\ (s \o t)[i] = s[i]
         \/ i > Len(s) /\ (i - Len(s)) \in 1 .. Len(t) /\ (s \o t)[i] = t[i - Len(s)]
  BY <1>1, <1>2
<1>7. \A what : Has(s \o t, what) <=> Has(s, what) \/ Has(t, what)
  BY <1>3, <1>4, <1>5
<1> QED BY <1>1, <1>6, <1>7

LEMMA ConcatFit ==
    ASSUME NEW s, NEW t, Fit(s), Fit(t),
           \A i \in 1 .. Len(s), j \in 1 .. Len(t) :
               Before(s[i], t[j]) /\ Agree(s[i], t[j]) /\ Agree(t[j], s[i])
    PROVE  Fit(s \o t)
<1>1. s \in Seq(Steps) /\ t \in Seq(Steps) /\ Len(s) \in Nat /\ Len(t) \in Nat
  BY DEF Fit
<1>2. s \o t \in Seq(Steps)
  BY <1>1, ConcatSteps
<1>3. \A i \in 1 .. Len(s \o t) :
                 \/ i \in 1 .. Len(s) /\ (s \o t)[i] = s[i]
                 \/ /\ i > Len(s) /\ (i - Len(s)) \in 1 .. Len(t)
                    /\ (s \o t)[i] = t[i - Len(s)]
  BY <1>1, ConcatSteps
<1>4. \A i \in 1 .. Len(s \o t) : Proper((s \o t)[i])
  BY <1>3 DEF Fit
<1>5. \A i, j \in 1 .. Len(s \o t) : Agree((s \o t)[i], (s \o t)[j])
  BY <1>3 DEF Fit
<1>6. ASSUME NEW i \in 1 .. Len(s \o t), NEW j \in 1 .. Len(s \o t), i < j
      PROVE  Before((s \o t)[i], (s \o t)[j])
  <2>1. CASE j \in 1 .. Len(s) /\ (s \o t)[j] = s[j]
    <3>1. i \in 1 .. Len(s) /\ (s \o t)[i] = s[i]
      BY <1>1, <1>3, <1>6, <2>1
    <3> QED BY <1>6, <2>1, <3>1 DEF Fit
  <2>2. CASE j > Len(s) /\ (j - Len(s)) \in 1 .. Len(t) /\ (s \o t)[j] = t[j - Len(s)]
    <3>1. CASE i \in 1 .. Len(s) /\ (s \o t)[i] = s[i]
      BY <2>2, <3>1
    <3>2. CASE i > Len(s) /\ (i - Len(s)) \in 1 .. Len(t) /\ (s \o t)[i] = t[i - Len(s)]
      <4>1. i - Len(s) < j - Len(s)
        BY <1>1, <1>6
      <4> QED BY <2>2, <3>2, <4>1 DEF Fit
    <3> QED BY <1>3, <3>1, <3>2
  <2> QED BY <1>3, <2>1, <2>2
<1> QED BY <1>2, <1>4, <1>5, <1>6 DEF Fit

-----------------------------------------------------------------------------
(* What the methods ask for *)

EventChoices == 0 .. nmultiEventChoices - 1

\* Does a list write CSR2 with this choice of trigger, and in this mode?
ForTrigger(s, bits) == \A i \in 1 .. Len(s) : s[i].do = "csr2" => s[i].bits \cap TriggerBits = bits
ForMode(s, v)       == \A i \in 1 .. Len(s) : s[i].do = "csr2" => s[i].n = v
Does(s, kinds)      == \A i \in 1 .. Len(s) : s[i].do \in kinds

LEMMA ConcatDoes ==
    ASSUME NEW s \in Seq(Steps), NEW t \in Seq(Steps),
           NEW bits, ForTrigger(s, bits), ForTrigger(t, bits),
           NEW v, ForMode(s, v), ForMode(t, v),
           NEW kinds, Does(s, kinds), NEW others, Does(t, others)
    PROVE  /\ ForTrigger(s \o t, bits) /\ ForMode(s \o t, v)
           /\ Does(s \o t, kinds \cup others)
<1>1. \A i \in 1 .. Len(s \o t) :
         \/ i \in 1 .. Len(s) /\ (s \o t)[i] = s[i]
         \/ (i - Len(s)) \in 1 .. Len(t) /\ (s \o t)[i] = t[i - Len(s)]
  BY ConcatSteps
<1>2. ForTrigger(s \o t, bits)
  BY <1>1 DEF ForTrigger
<1>3. ForMode(s \o t, v)
  BY <1>1 DEF ForMode
<1>4. Does(s \o t, kinds \cup others)
  BY <1>1 DEF Does
<1> QED BY <1>2, <1>3, <1>4

\* A list that divides the memory divides it as MultiPrePost = n says.
ForMulti(s, n)   == \A i \in 1 .. Len(s) : s[i].do = "multi" => s[i].n = n
HasMode(s, v)    == \E i \in 1 .. Len(s) : s[i].do = "csr2" /\ s[i].n = v

LEMMA ConcatMulti ==
    ASSUME NEW s \in Seq(Steps), NEW t \in Seq(Steps),
           NEW n, ForMulti(s, n), ForMulti(t, n)
    PROVE  ForMulti(s \o t, n)
<1>1. \A i \in 1 .. Len(s \o t) :
         \/ i \in 1 .. Len(s) /\ (s \o t)[i] = s[i]
         \/ (i - Len(s)) \in 1 .. Len(t) /\ (s \o t)[i] = t[i - Len(s)]
  BY ConcatSteps
<1> QED BY <1>1 DEF ForMulti

\* What vtrarm writes to MultiPrePost for the choices of 4 events and more.
MultiOf(ind) == 4 + ind - 1

LEMMA MultiStepsFacts ==
    ASSUME drv.ind \in EventChoices
    PROVE  /\ MultiSteps \in Seq(Steps) /\ ForMulti(MultiSteps, MultiOf(drv.ind))
           /\ drv.ind > 1 => Has(MultiSteps, "multi")
<1> DEFINE m == Step("multi", {}, 4 + drv.ind - 1)
<1>1. m \in Steps /\ m.do = "multi" /\ m.n = MultiOf(drv.ind)
  BY DEF Step, Steps, EventChoices, nmultiEventChoices, MultiOf
<1>2. MultiSteps = IF drv.ind > 1 THEN <<m>> ELSE <<>>
  BY DEF MultiSteps
<1> HIDE DEF m
<1>3. <<m>> \in Seq(Steps) /\ Len(<<m>>) = 1 /\ <<m>>[1] = m
  BY <1>1
<1>4. ForMulti(<<m>>, MultiOf(drv.ind)) /\ Has(<<m>>, "multi")
  BY <1>1, <1>3 DEF ForMulti, Has
<1>5. <<>> \in Seq(Steps) /\ ForMulti(<<>>, MultiOf(drv.ind))
  BY DEF ForMulti
<1> QED BY <1>2, <1>3, <1>4, <1>5

\* The steps that program a mode.
ModeSteps(v, kept) ==
    CASE v = armPostTrigger    -> <<Step("multi", {}, 0), Step("csr2", kept \cup {"arm"}, v)>>
      [] v = armPrePostTrigger ->
            MultiSteps \o <<Step("csr2", kept \cup {"circ"}, v),
                            Step("csr2", kept \cup {"circ", "arm"}, v),
                            Step("csr2", kept \cup {"circ", "arm"}, v)>>
      [] OTHER -> <<>>

LEMMA EmptyFit ==
    Fit(<<>>) /\ \A bits, v, kinds : ForTrigger(<<>>, bits) /\ ForMode(<<>>, v) /\ Does(<<>>, kinds)
BY DEF Fit, ForTrigger, ForMode, Does

LEMMA ModeFit ==
    ASSUME drv.ind \in EventChoices, NEW v \in Int, NEW kept \in SUBSET Bits,
           "arm" \notin kept, "circ" \notin kept
    PROVE  LET s == ModeSteps(v, kept) IN
           /\ Fit(s) /\ ForTrigger(s, kept \cap TriggerBits) /\ ForMode(s, v)
           /\ Does(s, {"multi", "csr2"})
           /\ v \notin Armings => s = <<>>
           /\ v = armPostTrigger => Has(s, "multi")
           /\ Has(s, "multi") => Has(s, "csr2")
           /\ v = armPrePostTrigger => ForMulti(s, MultiOf(drv.ind))
           /\ v = armPrePostTrigger /\ drv.ind > 1 => Has(s, "multi")
<1> USE DEF Armings, armPostTrigger, armPrePostTrigger, Steps, Bits, TriggerBits
<1>1. CASE v = armPostTrigger
  <2> DEFINE a == Step("multi", {}, 0)
             b == Step("csr2", kept \cup {"arm"}, v)
  <2>1. /\ a \in Steps /\ b \in Steps
        /\ a.do = "multi" /\ a.n = 0 /\ b.do = "csr2" /\ b.n = v /\ b.bits = kept \cup {"arm"}
    BY <1>1 DEF Step
  <2>2. ModeSteps(v, kept) = <<a, b>>
    BY <1>1 DEF ModeSteps
  <2>3. Proper(a) /\ Proper(b) /\ Before(a, b)
        /\ Agree(a, a) /\ Agree(a, b) /\ Agree(b, a) /\ Agree(b, b)
    BY <1>1, <2>1 DEF Proper, Before, Agree, Rank
  <2> HIDE DEF a, b
  <2>4. Fit(<<a, b>>)
    <3>1. <<a, b>> \in Seq(Steps) /\ Len(<<a, b>>) = 2
      BY <2>1
    <3> QED BY <2>3, <3>1 DEF Fit
  <2>5. b.bits \cap TriggerBits = kept \cap TriggerBits
    BY <2>1
  <2>6. ForTrigger(<<a, b>>, kept \cap TriggerBits) /\ ForMode(<<a, b>>, v)
        /\ Does(<<a, b>>, {"multi", "csr2"}) /\ Has(<<a, b>>, "multi") /\ Has(<<a, b>>, "csr2")
    BY <2>1, <2>5 DEF ForTrigger, ForMode, Does, Has
  <2>7. v # armPrePostTrigger
    BY <1>1
  <2> QED BY <1>1, <2>2, <2>4, <2>6, <2>7
<1>2. CASE v = armPrePostTrigger
  <2> DEFINE b == Step("csr2", kept \cup {"circ"}, v)
             c == Step("csr2", kept \cup {"circ", "arm"}, v)
             m == Step("multi", {}, 4 + drv.ind - 1)
  <2>1. /\ b \in Steps /\ c \in Steps /\ m \in Steps
        /\ b.do = "csr2" /\ b.n = v /\ b.bits = kept \cup {"circ"}
        /\ c.do = "csr2" /\ c.n = v /\ c.bits = kept \cup {"circ", "arm"}
        /\ m.do = "multi" /\ m.n \in 0 .. 7
    BY <1>2 DEF Step, EventChoices, nmultiEventChoices
  <2>2. ModeSteps(v, kept) = MultiSteps \o <<b, c, c>>
    BY <1>2 DEF ModeSteps
  <2>3. MultiSteps \in {<<>>, <<m>>}
    BY DEF MultiSteps
  <2> HIDE DEF b, c, m
  <2>4. /\ \A x \in {b, c} : /\ Proper(x) /\ Before(m, x) /\ Agree(m, x) /\ Agree(x, m)
                             /\ Before(x, c)
        /\ \A x, y \in {b, c} : Agree(x, y)
        /\ Proper(m) /\ Agree(m, m)
    <3>1. \A x \in {b, c} : x.do = "csr2" /\ x.n = 2
      BY <1>2, <2>1
    <3>2. Proper(b) /\ Proper(c) /\ Proper(m)
      BY <1>2, <2>1 DEF Proper
    <3>3. \A x \in {b, c} : Before(m, x) /\ Before(x, c)
      <4>1. "arm" \in c.bits /\ c.n = armPrePostTrigger /\ c.do = "csr2" /\ m.do = "multi"
        BY <1>2, <2>1
      <4> QED BY <3>1, <4>1 DEF Before, Rank
    <3>4. \A x \in {b, c} : Agree(m, x) /\ Agree(x, m)
      BY <2>1, <3>1 DEF Agree
    <3>5. \A x, y \in {b, c} : Agree(x, y)
      BY <3>1 DEF Agree
    <3>6. Agree(m, m)
      BY <2>1 DEF Agree
    <3> QED BY <3>2, <3>3, <3>4, <3>5, <3>6
  <2>5. b.bits \cap TriggerBits = kept \cap TriggerBits
        /\ c.bits \cap TriggerBits = kept \cap TriggerBits
    BY <2>1
  <2>6. /\ \A i \in 1 .. Len(<<b, c, c>>) : <<b, c, c>>[i] \in {b, c}
        /\ \A i, j \in 1 .. Len(<<b, c, c>>) : i < j => <<b, c, c>>[j] = c
    OBVIOUS
  <2>7. Fit(<<b, c, c>>) /\ ForTrigger(<<b, c, c>>, kept \cap TriggerBits)
        /\ ForMode(<<b, c, c>>, v) /\ Does(<<b, c, c>>, {"csr2"})
    BY <2>1, <2>4, <2>5, <2>6 DEF Fit, ForTrigger, ForMode, Does
  <2>8. Fit(<<m>>) /\ ForTrigger(<<m>>, kept \cap TriggerBits)
        /\ ForMode(<<m>>, v) /\ Does(<<m>>, {"multi"})
    BY <2>1, <2>4 DEF Fit, ForTrigger, ForMode, Does
  <2>9. Fit(MultiSteps) /\ ForTrigger(MultiSteps, kept \cap TriggerBits)
        /\ ForMode(MultiSteps, v) /\ Does(MultiSteps, {"multi"})
    BY <2>3, <2>8, EmptyFit
  <2>10. \A i \in 1 .. Len(MultiSteps) : MultiSteps[i] = m
    BY <2>3
  <2>11. Fit(MultiSteps \o <<b, c, c>>)
    BY <2>4, <2>6, <2>7, <2>9, <2>10, ConcatFit
  <2>12. /\ ForTrigger(MultiSteps \o <<b, c, c>>, kept \cap TriggerBits)
         /\ ForMode(MultiSteps \o <<b, c, c>>, v)
         /\ Does(MultiSteps \o <<b, c, c>>, {"multi"} \cup {"csr2"})
    <3>1. MultiSteps \in Seq(Steps) /\ <<b, c, c>> \in Seq(Steps)
      BY <2>7, <2>9 DEF Fit
    <3> QED BY <2>7, <2>9, <3>1, ConcatDoes
  <2>13. {"multi"} \cup {"csr2"} = {"multi", "csr2"}
    OBVIOUS
  <2>14. v \in Armings /\ v # armPostTrigger
    BY <1>2
  <2>16. Has(MultiSteps \o <<b, c, c>>, "csr2")
    <3>1. MultiSteps \in Seq(Steps) /\ <<b, c, c>> \in Seq(Steps)
      BY <2>7, <2>9 DEF Fit
    <3>2. Has(<<b, c, c>>, "csr2")
      BY <2>1 DEF Has
    <3> QED BY <3>1, <3>2, ConcatSteps
  <2>17. /\ ForMulti(MultiSteps \o <<b, c, c>>, MultiOf(drv.ind))
         /\ drv.ind > 1 => Has(MultiSteps \o <<b, c, c>>, "multi")
    <3>1. <<b, c, c>> \in Seq(Steps)
      BY <2>7 DEF Fit
    <3>2. ForMulti(<<b, c, c>>, MultiOf(drv.ind))
      BY <2>1, <2>6 DEF ForMulti
    <3>3. /\ MultiSteps \in Seq(Steps) /\ ForMulti(MultiSteps, MultiOf(drv.ind))
          /\ drv.ind > 1 => Has(MultiSteps, "multi")
      BY MultiStepsFacts
    <3>4. ForMulti(MultiSteps \o <<b, c, c>>, MultiOf(drv.ind))
      BY <3>1, <3>2, <3>3, ConcatMulti
    <3> QED BY <3>1, <3>3, <3>4, ConcatSteps
  <2> DEFINE s == ModeSteps(v, kept)
  <2>15. Fit(s) /\ ForTrigger(s, kept \cap TriggerBits) /\ ForMode(s, v)
         /\ Does(s, {"multi", "csr2"})
    BY <2>2, <2>11, <2>12, <2>13
  <2> QED BY <2>2, <2>14, <2>15, <2>16, <2>17
<1>3. CASE v \notin Armings
  <2>1. ModeSteps(v, kept) = <<>>
    BY <1>3 DEF ModeSteps
  <2>2. v # armPostTrigger /\ v # armPrePostTrigger
    BY <1>3
  <2> DEFINE s == ModeSteps(v, kept)
  <2>3. Fit(s) /\ ForTrigger(s, kept \cap TriggerBits) /\ ForMode(s, v)
        /\ Does(s, {"multi", "csr2"})
    BY <2>1, EmptyFit
  <2>4. ~Has(s, "multi")
    BY <2>1 DEF Has
  <2> QED BY <1>3, <2>1, <2>2, <2>3, <2>4
<1> QED BY <1>1, <1>2, <1>3

\* The whole of vtrarm.
LEMMA ArmFit ==
    ASSUME drv.ind \in EventChoices, reg.csr2 \in SUBSET Bits, NEW v \in Int, vtrarm(v)
    PROVE  LET s == call'.todo IN
           /\ Fit(s) /\ s # <<>> /\ Head(s).do = "disarm" /\ Has(s, "disarm")
           /\ ForTrigger(s, reg.csr2 \cap TriggerBits) /\ ForMode(s, v)
           /\ Has(s, "csr2") => Has(s, "start")
           /\ Has(s, "csr2") /\ v = armPostTrigger => Has(s, "multi")
           /\ Has(s, "multi") => Has(s, "csr2")
           /\ v = armPrePostTrigger => ForMulti(s, MultiOf(drv.ind))
           /\ v = armPrePostTrigger /\ drv.ind > 1 => Has(s, "multi")
<1> DEFINE kept == reg.csr2 \ {"arm", "circ"}
           d == Step("disarm", {}, 0)
           r == Step("resetIRQ", {}, 0)
           f == Step("start", {}, v)
           e == Step("enableIRQ", {}, 0)
           rest == IF v = armDisarm THEN <<>> ELSE <<f, e>> \o ModeSteps(v, kept)
<1>1. call'.todo = <<d, r>> \o rest
  BY DEF vtrarm, Enter, ArmSteps, ModeSteps
<1>2. kept \in SUBSET Bits /\ "arm" \notin kept /\ "circ" \notin kept
      /\ kept \cap TriggerBits = reg.csr2 \cap TriggerBits
  BY DEF Bits, TriggerBits
<1>3. /\ {d, r, f, e} \subseteq Steps
      /\ d.do = "disarm" /\ r.do = "resetIRQ" /\ f.do = "start" /\ f.n = v /\ e.do = "enableIRQ"
  BY DEF Step, Steps, Bits
<1>4. /\ \A x, y \in {d, r} : Agree(x, y)
      /\ Before(d, r) /\ Proper(d) /\ Proper(r)
  BY <1>3 DEF Agree, Before, Rank, Proper
<1>5. /\ \A x, y \in {f, e} : Agree(x, y)
      /\ Before(f, e) /\ Proper(f) /\ Proper(e)
  BY <1>3 DEF Agree, Before, Rank, Proper
<1> HIDE DEF d, r, f, e, kept
<1>6. (\A i \in 1 .. Len(<<d, r>>) : <<d, r>>[i] \in {d, r})
      /\ (\A i \in 1 .. Len(<<f, e>>) : <<f, e>>[i] \in {f, e})
  OBVIOUS
<1>7. Fit(<<d, r>>) /\ Fit(<<f, e>>) /\ Has(<<d, r>>, "disarm") /\ Has(<<f, e>>, "start")
  BY <1>3, <1>4, <1>5 DEF Fit, Has
<1>8. \A bits : /\ ForTrigger(<<d, r>>, bits) /\ ForMode(<<d, r>>, v)
                /\ ForTrigger(<<f, e>>, bits) /\ ForMode(<<f, e>>, v)
  BY <1>3, <1>6 DEF ForTrigger, ForMode
<1> DEFINE mode == ModeSteps(v, kept)
<1>9. /\ Fit(mode) /\ ForTrigger(mode, kept \cap TriggerBits) /\ ForMode(mode, v)
      /\ Does(mode, {"multi", "csr2"})
      /\ v = armPostTrigger => Has(mode, "multi")
      /\ Has(mode, "multi") => Has(mode, "csr2")
      /\ v = armPrePostTrigger => ForMulti(mode, MultiOf(drv.ind))
      /\ v = armPrePostTrigger /\ drv.ind > 1 => Has(mode, "multi")
  BY <1>2, ModeFit
<1> HIDE DEF mode
<1>10. Fit(<<f, e>> \o mode)
  <2>1. \A i \in 1 .. Len(<<f, e>>), j \in 1 .. Len(mode) :
          /\ Before(<<f, e>>[i], mode[j])
          /\ Agree(<<f, e>>[i], mode[j]) /\ Agree(mode[j], <<f, e>>[i])
    BY <1>3, <1>6, <1>9 DEF Before, Rank, Agree, ForMode, Does
  <2> QED BY <1>7, <1>9, <2>1, ConcatFit
<1>11. /\ ForTrigger(<<f, e>> \o mode, kept \cap TriggerBits) /\ ForMode(<<f, e>> \o mode, v)
       /\ Has(<<f, e>> \o mode, "start") /\ (v = armPostTrigger => Has(<<f, e>> \o mode, "multi"))
       /\ Has(<<f, e>> \o mode, "multi") => Has(<<f, e>> \o mode, "csr2")
       /\ Does(<<f, e>> \o mode, {"start", "enableIRQ"} \cup {"multi", "csr2"})
  <2>1. mode \in Seq(Steps) /\ <<f, e>> \in Seq(Steps)
    BY <1>7, <1>9 DEF Fit
  <2>2. Does(<<f, e>>, {"start", "enableIRQ"}) /\ ~Has(<<f, e>>, "multi")
    BY <1>3, <1>6 DEF Does, Has
  <2>3. /\ ForTrigger(<<f, e>> \o mode, kept \cap TriggerBits) /\ ForMode(<<f, e>> \o mode, v)
        /\ Does(<<f, e>> \o mode, {"start", "enableIRQ"} \cup {"multi", "csr2"})
    BY <1>8, <1>9, <2>1, <2>2, ConcatDoes
  <2>4. \A what : Has(<<f, e>> \o mode, what) <=> Has(<<f, e>>, what) \/ Has(mode, what)
    BY <2>1, ConcatSteps
  <2> QED BY <1>7, <1>9, <2>2, <2>3, <2>4
<1>12. /\ Fit(rest) /\ ForTrigger(rest, kept \cap TriggerBits) /\ ForMode(rest, v)
       /\ Does(rest, {"start", "enableIRQ"} \cup {"multi", "csr2"})
       /\ rest = <<>> \/ Has(rest, "start")
       /\ v = armPostTrigger => Has(rest, "multi")
       /\ Has(rest, "multi") => Has(rest, "csr2")
  <2>1. ~Has(<<>>, "multi")
    BY DEF Has
  <2> QED BY <1>10, <1>11, <2>1, EmptyFit DEF mode, armPostTrigger, armDisarm
<1>20. /\ v = armPrePostTrigger => ForMulti(rest, MultiOf(drv.ind))
       /\ v = armPrePostTrigger /\ drv.ind > 1 => Has(rest, "multi")
  <2> SUFFICES ASSUME v = armPrePostTrigger
               PROVE  ForMulti(rest, MultiOf(drv.ind)) /\ (drv.ind > 1 => Has(rest, "multi"))
    OBVIOUS
  <2>1. rest = <<f, e>> \o mode
    BY DEF rest, mode, armPrePostTrigger, armDisarm
  <2>2. mode \in Seq(Steps) /\ <<f, e>> \in Seq(Steps)
    BY <1>7, <1>9 DEF Fit
  <2>3. ForMulti(<<f, e>>, MultiOf(drv.ind))
    BY <1>3, <1>6 DEF ForMulti
  <2>4. ForMulti(<<f, e>> \o mode, MultiOf(drv.ind))
    BY <1>9, <2>2, <2>3, ConcatMulti
  <2>5. drv.ind > 1 => Has(<<f, e>> \o mode, "multi")
    BY <1>9, <2>2, ConcatSteps
  <2> QED BY <2>1, <2>4, <2>5
<1> HIDE DEF rest
<1>13. Fit(<<d, r>> \o rest)
  <2>1. \A i \in 1 .. Len(<<d, r>>), j \in 1 .. Len(rest) :
          /\ Before(<<d, r>>[i], rest[j])
          /\ Agree(<<d, r>>[i], rest[j]) /\ Agree(rest[j], <<d, r>>[i])
    BY <1>3, <1>6, <1>12 DEF Before, Rank, Agree, Does
  <2> QED BY <1>7, <1>12, <2>1, ConcatFit
<1>14. <<d, r>> \in Seq(Steps) /\ rest \in Seq(Steps)
  BY <1>7, <1>12 DEF Fit
<1>15. /\ ForTrigger(<<d, r>> \o rest, kept \cap TriggerBits) /\ ForMode(<<d, r>> \o rest, v)
  <2>1. Does(<<d, r>>, {"disarm", "resetIRQ"})
    BY <1>3 DEF Does
  <2> QED BY <1>8, <1>12, <1>14, <2>1, ConcatDoes
<1>16. \A what : Has(<<d, r>> \o rest, what) <=> Has(<<d, r>>, what) \/ Has(rest, what)
  BY <1>14, ConcatSteps
<1>17. Has(<<d, r>>, "disarm") /\ ~Has(<<d, r>>, "multi") /\ ~Has(<<d, r>>, "csr2")
  BY <1>3, <1>6, <1>7 DEF Has
<1>18. <<d, r>> \o rest # <<>> /\ Head(<<d, r>> \o rest).do = "disarm"
  <2>1. Len(<<d, r>> \o rest) = 2 + Len(rest) /\ (<<d, r>> \o rest)[1] = d
    BY <1>14, ConcatProperties
  <2>2. Len(rest) \in Nat
    BY <1>14
  <2>3. <<d, r>> \o rest \in Seq(Steps)
    BY <1>13 DEF Fit
  <2>4. <<d, r>> \o rest # <<>>
    BY <2>1, <2>2
  <2> QED BY <1>3, <2>1, <2>3, <2>4
<1>19. Has(rest, "csr2") => Has(rest, "start")
  BY <1>12 DEF Has
<1>21. v = armPrePostTrigger => ForMulti(<<d, r>> \o rest, MultiOf(drv.ind))
  <2>1. ForMulti(<<d, r>>, MultiOf(drv.ind))
    BY <1>3, <1>6 DEF ForMulti
  <2> QED BY <1>14, <1>20, <2>1, ConcatMulti
<1>22. /\ Has(<<d, r>> \o rest, "csr2") => Has(<<d, r>> \o rest, "start")
       /\ Has(<<d, r>> \o rest, "csr2") /\ v = armPostTrigger => Has(<<d, r>> \o rest, "multi")
       /\ Has(<<d, r>> \o rest, "multi") => Has(<<d, r>> \o rest, "csr2")
       /\ v = armPrePostTrigger /\ drv.ind > 1 => Has(<<d, r>> \o rest, "multi")
       /\ Has(<<d, r>> \o rest, "disarm")
  BY <1>12, <1>16, <1>17, <1>19, <1>20
<1> QED
  BY <1>1, <1>2, <1>13, <1>15, <1>18, <1>21, <1>22


-----------------------------------------------------------------------------
(* The invariant *)

\* The fields that the rest speaks of, and what the operator may put.
Fields ==
    /\ setup \in Setups
    /\ {"arm", "pts", "trigger", "ind", "events"} \subseteq DOMAIN drv
    /\ drv.ind \in EventChoices /\ drv.events = numberEvents[drv.ind + 1]
    /\ {"csr2", "multi"} \subseteq DOMAIN reg /\ reg.csr2 \in SUBSET Bits
    /\ "gate" \in DOMAIN hw
    /\ "todo" \in DOMAIN call

\* CSR2 has the trigger that the driver knows, as soon as it is written.
TriggerKept ==
    LET bits == TriggerBit(drv.trigger) IN
    /\ ForTrigger(call.todo, bits)
    /\ ~Has(call.todo, "csr2") => reg.csr2 \cap TriggerBits = bits

\* Under a method the card is armed only until it is disarmed, and again
\* between the two writes that arm it.
Arming(a) == a.do = "csr2" /\ "arm" \in a.bits
ArmedWhen ==
    isArmed => \/ call.todo = <<>>
               \/ Head(call.todo).do = "disarm"
               \/ Arming(Head(call.todo))

\* Once the card has been prepared to record, the driver and the gate register
\* agree with every step that is left to arm it.
Started == ~Has(call.todo, "disarm") /\ ~Has(call.todo, "start")
StartsFirst ==
    Has(call.todo, "disarm") /\ Has(call.todo, "csr2") => Has(call.todo, "start")
ModeSet ==
    Started =>
        /\ \A i \in 1 .. Len(call.todo) : Arming(call.todo[i]) =>
              drv.arm = call.todo[i].n /\ hw.gate = drv.pts
        /\ isArmed => /\ drv.arm \in Armings /\ hw.gate = drv.pts
                      /\ Circular = (drv.arm = armPrePostTrigger)

\* Post-trigger mode records one event only.
MultiReset ==
    /\ (\E i \in 1 .. Len(call.todo) :
            call.todo[i].do = "csr2" /\ call.todo[i].n = armPostTrigger)
          /\ ~Has(call.todo, "multi") => reg.multi = 0
    /\ isArmed /\ ~Has(call.todo, "disarm") /\ drv.arm = armPostTrigger => reg.multi = 0

\* Pre/post-trigger mode divides the memory into the driver's events, for the
\* choices that vtrarm programs.
MultiSet ==
    drv.ind > 1 =>
        /\ HasMode(call.todo, armPrePostTrigger) =>
              /\ ForMulti(call.todo, MultiOf(drv.ind))
              /\ Has(call.todo, "multi") \/ reg.multi = MultiOf(drv.ind)
        /\ isArmed /\ ~Has(call.todo, "disarm") /\ drv.arm = armPrePostTrigger =>
              reg.multi = MultiOf(drv.ind)

Inv == /\ Fields /\ Fit(call.todo) /\ TriggerKept /\ ArmedWhen
       /\ StartsFirst /\ ModeSet /\ MultiReset /\ MultiSet

LEMMA InvGives == Inv => ArmedAsSet
<1> SUFFICES ASSUME Inv, Idle, isArmed PROVE ArmedAsSet
  BY DEF ArmedAsSet
<1>1. call.todo = <<>> /\ Len(call.todo) = 0
  BY DEF Idle
<1>2. \A what : ~Has(call.todo, what)
  BY <1>1 DEF Has
<1>3. /\ drv.arm \in Armings /\ hw.gate = drv.pts /\ Circular = (drv.arm = armPrePostTrigger)
      /\ reg.csr2 \cap TriggerBits = TriggerBit(drv.trigger)
      /\ drv.arm = armPostTrigger => reg.multi = 0
      /\ drv.arm = armPrePostTrigger /\ drv.ind > 1 => reg.multi = MultiOf(drv.ind)
      /\ drv.ind \in EventChoices /\ drv.events = numberEvents[drv.ind + 1]
  BY <1>2 DEF Inv, ModeSet, Started, TriggerKept, MultiReset, MultiSet, Fields
<1>4. Divided
  <2>1. CASE drv.arm = armPostTrigger
    <3>1. drv.arm # armPrePostTrigger
      BY <2>1 DEF armPostTrigger, armPrePostTrigger
    <3>2. reg.multi = 0
      BY <1>3, <2>1
    <3>3. EventsOf(reg.multi) = 1
      BY <3>2 DEF EventsOf
    <3>4. ~Circular
      BY <1>3, <3>1
    <3> QED BY <3>3, <3>4 DEF Divided
  <2>2. CASE drv.arm = armPrePostTrigger
    <3>1. ASSUME drv.ind > 1 PROVE EventsOf(reg.multi) = drv.events
      <4>1. reg.multi >= 4 /\ reg.multi - 2 = drv.ind + 1
        BY <1>3, <2>2, <3>1 DEF EventChoices, nmultiEventChoices, MultiOf
      <4>2. EventsOf(reg.multi) = numberEvents[reg.multi - 2]
        BY <4>1 DEF EventsOf
      <4> QED BY <1>3, <4>1, <4>2
    <3> QED BY <1>3, <2>2, <3>1 DEF Divided
  <2> QED BY <1>3, <2>1, <2>2 DEF Armings
<1> QED BY <1>3, <1>4 DEF ArmedAsSet

LEMMA InitInv == Init => Inv
<1> SUFFICES ASSUME Init PROVE Inv
  OBVIOUS
<1>1. call.todo = <<>> /\ Len(call.todo) = 0 /\ reg.csr2 = {} /\ drv.trigger = triggerSoft
  BY DEF Init
<1>2. \A what : ~Has(call.todo, what)
  BY <1>1 DEF Has
<1>3. Fields
  BY DEF Init, Fields, Bits, EventChoices, nmultiEventChoices, numberEvents
<1>4. TriggerKept
  BY <1>1, EmptyFit DEF TriggerKept, TriggerBit, triggerSoft, triggerExt, triggerGate
<1>5. ArmedWhen /\ StartsFirst /\ ModeSet /\ MultiReset /\ MultiSet
  BY <1>1, <1>2 DEF ArmedWhen, StartsFirst, ModeSet, MultiReset, MultiSet, HasMode, isArmed
<1> QED BY <1>1, <1>3, <1>4, <1>5, EmptyFit DEF Inv

\* The digitizer, the interrupt handler, the callback task and the exit hook at
\* most disarm the card, between any two steps of a method.
LEMMA AtMostDisarmed ==
    ASSUME Inv, UNCHANGED <<setup, call>>,
           drv'.arm = drv.arm, drv'.pts = drv.pts, drv'.trigger = drv.trigger,
           drv'.ind = drv.ind, drv'.events = drv.events, DOMAIN drv' = DOMAIN drv,
           reg'.csr2 \in {reg.csr2, reg.csr2 \ {"arm"}}, reg'.multi = reg.multi,
           DOMAIN reg' = DOMAIN reg,
           hw'.gate = hw.gate, DOMAIN hw' = DOMAIN hw
    PROVE  Inv' /\ (isArmed' => isArmed)
<1>1. isArmed' => isArmed /\ reg'.csr2 = reg.csr2
  BY DEF isArmed
<1>2. reg'.csr2 \cap TriggerBits = reg.csr2 \cap TriggerBits
  BY DEF TriggerBits
<1>3. Fields'
  BY DEF Inv, Fields
<1>4. TriggerKept'
  BY <1>2 DEF Inv, TriggerKept
<1>5. ArmedWhen' /\ StartsFirst' /\ Fit(call.todo)'
  BY <1>1 DEF Inv, ArmedWhen, StartsFirst
<1>6. ModeSet'
  BY <1>1 DEF Inv, ModeSet, Started, Circular
<1>7. MultiReset' /\ MultiSet'
  BY <1>1 DEF Inv, MultiReset, MultiSet
<1> QED BY <1>1, <1>3, <1>4, <1>5, <1>6, <1>7 DEF Inv

LEMMA EnvironmentKeeps ==
    ASSUME Inv, \/ IH \/ Callback \/ PreSample \/ HwTrigger \/ HwGateDone \/ vtrReboot
                \/ UNCHANGED vars
    PROVE  Inv' /\ (isArmed' => isArmed)
<1>0. /\ {"arm", "pts", "trigger", "ind", "events"} \subseteq DOMAIN drv
      /\ {"csr2", "multi"} \subseteq DOMAIN reg /\ "gate" \in DOMAIN hw
  BY DEF Inv, Fields
<1>1. UNCHANGED <<setup, call>>
  BY DEF IH, Callback, PreSample, HwTrigger, HwGateDone, vtrReboot, vars, UnwantedInterrupt,
         IgnoreInterrupt, CompleteInterrupt, Interrupt, ReadStart, ReadGroup, Post
<1>2. /\ drv'.arm = drv.arm /\ drv'.pts = drv.pts /\ drv'.trigger = drv.trigger
      /\ drv'.ind = drv.ind /\ drv'.events = drv.events /\ DOMAIN drv' = DOMAIN drv
  <2>1. drv' = drv \/ CountTrigger
    BY DEF IH, Callback, PreSample, HwTrigger, HwGateDone, vtrReboot, vars, UnwantedInterrupt,
           IgnoreInterrupt, CompleteInterrupt, ReadStart, ReadGroup, Post
  <2> QED BY <1>0, <2>1 DEF CountTrigger
<1>3. /\ reg'.csr2 \in {reg.csr2, reg.csr2 \ {"arm"}} /\ reg'.multi = reg.multi
      /\ DOMAIN reg' = DOMAIN reg
  <2>1. reg' = reg \/ WriteDisarm \/ vtrReboot
    BY DEF IH, Callback, PreSample, HwTrigger, HwGateDone, vars, UnwantedInterrupt,
           IgnoreInterrupt, CompleteInterrupt, ReadStart, ReadGroup, Post
  <2> QED BY <1>0, <2>1 DEF WriteDisarm, vtrReboot
<1>4. hw'.gate = hw.gate /\ DOMAIN hw' = DOMAIN hw
  <2>1. CASE hw' = hw
    BY <2>1
  <2>2. CASE IH
    BY <1>0, <2>2 DEF IH, UnwantedInterrupt, IgnoreInterrupt, CompleteInterrupt, WriteDisarm,
                      Disarmed
  <2>3. CASE PreSample \/ HwTrigger
    BY <1>0, <2>3 DEF PreSample, HwTrigger
  <2>4. CASE HwGateDone
    BY <1>0, <2>4 DEF HwGateDone
  <2> QED
    BY <2>1, <2>2, <2>3, <2>4 DEF Callback, vtrReboot, vars, ReadStart, ReadGroup, Post
<1> QED BY <1>1, <1>2, <1>3, <1>4, AtMostDisarmed
-----------------------------------------------------------------------------
(* The methods *)

LEMMA IdleFacts ==
    ASSUME Inv, Idle
    PROVE  /\ call.todo = <<>> /\ Len(call.todo) = 0 /\ \A what : ~Has(call.todo, what)
           /\ reg.csr2 \cap TriggerBits = TriggerBit(drv.trigger)
           /\ isArmed => /\ drv.arm \in Armings /\ hw.gate = drv.pts
                         /\ Circular = (drv.arm = armPrePostTrigger)
                         /\ drv.arm = armPostTrigger => reg.multi = 0
                         /\ drv.arm = armPrePostTrigger /\ drv.ind > 1 =>
                               reg.multi = MultiOf(drv.ind)
<1>1. call.todo = <<>> /\ Len(call.todo) = 0
  BY DEF Idle
<1>2. \A what : ~Has(call.todo, what)
  BY <1>1 DEF Has
<1> QED BY <1>1, <1>2 DEF Inv, TriggerKept, ModeSet, Started, MultiReset, MultiSet

\* A method that has nothing to write but a driver field, or nothing at all.
LEMMA NothingToWrite ==
    ASSUME Inv, Idle, UNCHANGED <<setup, reg>>, call'.todo = <<>>, "todo" \in DOMAIN call',
           drv'.arm = drv.arm, drv'.trigger = drv.trigger, DOMAIN drv' = DOMAIN drv,
           drv'.ind \in EventChoices, drv'.events = numberEvents[drv'.ind + 1],
           isArmed => drv'.pts = drv.pts /\ drv'.ind = drv.ind,
           hw'.gate = hw.gate, DOMAIN hw' = DOMAIN hw
    PROVE  Inv' /\ (isArmed' => isArmed)
<1>1. Len(call'.todo) = 0 /\ \A what : ~Has(call'.todo, what)
  BY DEF Has
<1>2. Fields'
  BY DEF Inv, Fields
<1>3. TriggerKept'
  BY IdleFacts, EmptyFit DEF TriggerKept
<1>4. ArmedWhen' /\ StartsFirst' /\ Fit(call.todo)'
  BY <1>1, EmptyFit DEF ArmedWhen, StartsFirst
<1>5. ModeSet'
  BY <1>1, IdleFacts DEF ModeSet, isArmed, Circular
<1>6. MultiReset' /\ MultiSet'
  BY <1>1, IdleFacts DEF MultiReset, MultiSet, HasMode, isArmed
<1> QED BY <1>2, <1>3, <1>4, <1>5, <1>6 DEF Inv, isArmed

\* A method that writes CSR2 once, of a card that is not armed.
LEMMA OneWrite ==
    ASSUME Inv, Idle, ~isArmed, UNCHANGED <<setup, hw>>,
           NEW bits \in SUBSET Bits, "arm" \notin bits,
           call'.todo = <<Step("csr2", bits, 0)>>, "todo" \in DOMAIN call',
           bits \cap TriggerBits = TriggerBit(drv'.trigger),
           drv'.ind = drv.ind, drv'.events = drv.events, DOMAIN drv' = DOMAIN drv,
           reg'.csr2 = reg.csr2, DOMAIN reg' = DOMAIN reg
    PROVE  Inv' /\ (isArmed' => isArmed)
<1> DEFINE a == Step("csr2", bits, 0)
<1>1. a \in Steps /\ a.do = "csr2" /\ a.bits = bits /\ a.n = 0
  BY DEF Step, Steps
<1> HIDE DEF a
<1>2. call'.todo = <<a>>
  BY DEF a
<1>3. <<a>> \in Seq(Steps) /\ Len(<<a>>) = 1 /\ <<a>>[1] = a
  BY <1>1
<1>4. Has(<<a>>, "csr2") /\ ~Has(<<a>>, "disarm") /\ ~Has(<<a>>, "start")
  BY <1>1, <1>3 DEF Has
<1>5. Fit(<<a>>)
  <2>1. Proper(a) /\ Agree(a, a)
    BY <1>1 DEF Proper, Agree
  <2> QED BY <1>3, <2>1 DEF Fit
<1>6. Fields'
  BY DEF Inv, Fields
<1>7. TriggerKept'
  BY <1>1, <1>2, <1>3, <1>4 DEF TriggerKept, ForTrigger
<1>8. ~isArmed'
  BY DEF isArmed
<1>9. ~Arming(a)
  BY <1>1 DEF Arming, Armings, armPostTrigger, armPrePostTrigger
<1>10. ArmedWhen' /\ StartsFirst' /\ ModeSet'
  BY <1>2, <1>3, <1>4, <1>8, <1>9 DEF ArmedWhen, StartsFirst, ModeSet
<1>11. MultiReset' /\ MultiSet'
  BY <1>1, <1>2, <1>3, <1>8
     DEF MultiReset, MultiSet, HasMode, armPostTrigger, armPrePostTrigger
<1> QED BY <1>2, <1>5, <1>6, <1>7, <1>8, <1>10, <1>11 DEF Inv

LEMMA ArmKeeps ==
    ASSUME Inv, Idle, UNCHANGED setup, NEW v \in Int, vtrarm(v)
    PROVE  Inv' /\ (isArmed' => isArmed)
<1>1. /\ drv' = [drv EXCEPT !.arm = armDisarm] /\ reg' = reg /\ hw' = hw
      /\ "todo" \in DOMAIN call'
  BY DEF vtrarm, Enter
<1>2. /\ drv'.trigger = drv.trigger /\ drv'.ind = drv.ind /\ drv'.events = drv.events
      /\ DOMAIN drv' = DOMAIN drv /\ drv.ind \in EventChoices /\ reg.csr2 \in SUBSET Bits
  BY <1>1 DEF Inv, Fields
<1> DEFINE s == call'.todo
<1>3. /\ Fit(s) /\ s # <<>> /\ Head(s).do = "disarm" /\ Has(s, "disarm")
      /\ ForTrigger(s, reg.csr2 \cap TriggerBits) /\ ForMode(s, v)
      /\ Has(s, "csr2") => Has(s, "start")
      /\ Has(s, "csr2") /\ v = armPostTrigger => Has(s, "multi")
      /\ v = armPrePostTrigger => ForMulti(s, MultiOf(drv.ind))
      /\ v = armPrePostTrigger /\ drv.ind > 1 => Has(s, "multi")
  BY <1>2, ArmFit
<1> HIDE DEF s
<1>4. Fields'
  BY <1>1, <1>2 DEF Inv, Fields
<1>5. TriggerKept'
  BY <1>1, <1>2, <1>3, IdleFacts DEF TriggerKept, s
<1>6. ArmedWhen' /\ StartsFirst' /\ ModeSet'
  BY <1>3 DEF ArmedWhen, StartsFirst, ModeSet, Started, s
<1>7. MultiReset'
  <2>1. ASSUME NEW i \in 1 .. Len(s), s[i].do = "csr2", s[i].n = armPostTrigger
        PROVE  Has(s, "multi")
    BY <1>3, <2>1 DEF ForMode, Has
  <2> QED BY <1>3, <2>1 DEF MultiReset, s
<1>8. MultiSet'
  <2>1. HasMode(s, armPrePostTrigger) => v = armPrePostTrigger
    BY <1>3 DEF ForMode, HasMode
  <2> QED BY <1>2, <1>3, <2>1 DEF MultiSet, s
<1> QED BY <1>1, <1>3, <1>4, <1>5, <1>6, <1>7, <1>8 DEF Inv, isArmed, s

LEMMA PutKeeps ==
    ASSUME Inv, NEW r \in Records, NEW v \in Values[r], Put(r, v)
    PROVE  Inv' /\ (isArmed' => isArmed)
<1>1. Idle /\ UNCHANGED setup
  BY DEF Put
<1>2. /\ {"arm", "pts", "trigger", "ind", "events"} \subseteq DOMAIN drv
      /\ drv.ind \in EventChoices /\ drv.events = numberEvents[drv.ind + 1]
      /\ {"csr2", "multi"} \subseteq DOMAIN reg /\ reg.csr2 \in SUBSET Bits
      /\ "gate" \in DOMAIN hw
  BY DEF Inv, Fields
<1>3. v \in Int
  BY Vtr812Assumption DEF Inv, Fields, Values
<1>4. ASSUME NEW status, Refuse(status) PROVE Inv' /\ (isArmed' => isArmed)
  BY <1>1, <1>2, <1>4, NothingToWrite DEF Refuse, Enter
<1>5. ASSUME NEW field \in {"pts", "pps", "pte"}, Setting(field, v)
      PROVE  Inv' /\ (isArmed' => isArmed)
  <2>1. CASE isArmed
    BY <1>4, <1>5, <2>1 DEF Setting
  <2>2. CASE ~isArmed
    <3>1. /\ drv' = [drv EXCEPT ![field] = v] /\ reg' = reg /\ hw' = hw
          /\ call'.todo = <<>> /\ "todo" \in DOMAIN call'
      BY <1>5, <2>2 DEF Setting, Enter
    <3>2. /\ drv'.arm = drv.arm /\ drv'.trigger = drv.trigger /\ DOMAIN drv' = DOMAIN drv
          /\ drv'.ind = drv.ind /\ drv'.events = drv.events
      BY <1>2, <3>1
    <3> QED BY <1>1, <1>2, <2>2, <3>1, <3>2, NothingToWrite
  <2> QED BY <2>1, <2>2
<1>6. CASE vtrclock(v)
  <2> SUFFICES ASSUME ~isArmed, ~isRebooting, v \in 0 .. nclockChoices - 1
               PROVE  Inv' /\ (isArmed' => isArmed)
    BY <1>4, <1>6 DEF vtrclock
  <2> DEFINE half == nclockChoices \div 2
             ext  == IF v >= half THEN {"clkExt"} ELSE {}
             bits == (reg.csr2 \ {"clkExt"}) \cup ext
  <2>1. /\ reg' = [reg EXCEPT !.clock = v % half] /\ UNCHANGED <<drv, hw>>
        /\ call'.todo = <<Step("csr2", bits, 0)>> /\ "todo" \in DOMAIN call'
    BY <1>6 DEF vtrclock, Enter
  <2>2. ext \subseteq {"clkExt"}
    OBVIOUS
  <2> HIDE DEF half, ext
  <2>3. /\ bits \in SUBSET Bits /\ "arm" \notin bits
        /\ bits \cap TriggerBits = reg.csr2 \cap TriggerBits
    BY <1>2, <2>2 DEF Bits, TriggerBits, isArmed
  <2>4. reg'.csr2 = reg.csr2 /\ DOMAIN reg' = DOMAIN reg
    BY <1>2, <2>1
  <2> HIDE DEF bits
  <2>5. bits \cap TriggerBits = TriggerBit(drv'.trigger)
    BY <1>1, <2>1, <2>3, IdleFacts
  <2> QED BY <1>1, <2>1, <2>3, <2>4, <2>5, OneWrite
<1>7. CASE vtrtrigger(v)
  <2> SUFFICES ASSUME ~isRebooting, v \in 0 .. ntriggerChoices, ~isArmed, v # ntriggerChoices
               PROVE  Inv' /\ (isArmed' => isArmed)
    BY <1>4, <1>7 DEF vtrtrigger
  <2> DEFINE bits == (reg.csr2 \ TriggerBits) \cup TriggerBit(v)
  <2>1. /\ drv' = [drv EXCEPT !.trigger = v] /\ UNCHANGED <<reg, hw>>
        /\ call'.todo = <<Step("csr2", bits, 0)>> /\ "todo" \in DOMAIN call'
    BY <1>7 DEF vtrtrigger, Enter
  <2>2. TriggerBit(v) \subseteq TriggerBits
    BY DEF TriggerBit, TriggerBits
  <2>3. /\ bits \in SUBSET Bits /\ "arm" \notin bits
        /\ bits \cap TriggerBits = TriggerBit(v)
    BY <1>2, <2>2 DEF Bits, TriggerBits, isArmed
  <2>4. /\ drv'.trigger = v /\ drv'.ind = drv.ind /\ drv'.events = drv.events
        /\ DOMAIN drv' = DOMAIN drv
    BY <1>2, <2>1
  <2> HIDE DEF bits
  <2> QED BY <1>1, <2>1, <2>3, <2>4, OneWrite
<1>8. CASE vtrmultiEvent(v)
  <2> SUFFICES ASSUME HasMultiPrePost, v \in 0 .. nmultiEventChoices - 1, ~isArmed, ~isRebooting
               PROVE  Inv' /\ (isArmed' => isArmed)
    BY <1>4, <1>8 DEF vtrmultiEvent
  <2>1. /\ drv' = [drv EXCEPT !.ind = v, !.events = numberEvents[v + 1]] /\ UNCHANGED <<reg, hw>>
        /\ call'.todo = <<>> /\ "todo" \in DOMAIN call'
    BY <1>8 DEF vtrmultiEvent, Enter
  <2>2. /\ drv'.arm = drv.arm /\ drv'.trigger = drv.trigger /\ DOMAIN drv' = DOMAIN drv
        /\ drv'.ind = v /\ drv'.events = numberEvents[v + 1] /\ drv'.pts = drv.pts
    BY <1>2, <2>1
  <2> QED BY <1>1, <1>3, <2>1, <2>2, NothingToWrite DEF EventChoices
<1>9. CASE vtrsoftTrigger
  <2>1. /\ UNCHANGED <<drv, reg>> /\ call'.todo = <<>> /\ "todo" \in DOMAIN call'
    BY <1>9 DEF vtrsoftTrigger, Enter
  <2>2. hw'.gate = hw.gate /\ DOMAIN hw' = DOMAIN hw
    BY <1>2, <1>9 DEF vtrsoftTrigger
  <2> QED BY <1>1, <1>2, <2>1, <2>2, NothingToWrite
<1>10. CASE vtrarm(v)
  BY <1>1, <1>3, <1>10, ArmKeeps
<1>11. CASE \/ vtrnumberPTS(v) \/ vtrnumberPPS(v) \/ vtrnumberPTE(v)
  BY <1>5, <1>11 DEF vtrnumberPTS, vtrnumberPPS, vtrnumberPTE
<1> QED BY <1>6, <1>7, <1>8, <1>9, <1>10, <1>11 DEF Put
-----------------------------------------------------------------------------
(* The steps of a method *)

LEMMA DoingFacts ==
    ASSUME Inv, NEW what, Doing(what)
    PROVE  LET s == call.todo
               t == call'.todo IN
           /\ s # <<>> /\ Head(s).do = what /\ Head(s) \in Steps /\ t = Tail(s)
           /\ Head(s) = s[1] /\ 1 \in 1 .. Len(s) /\ Fit(t)
           /\ "todo" \in DOMAIN call' /\ UNCHANGED setup
           /\ Len(s) \in Nat /\ Len(t) \in Nat
           /\ \A i \in 1 .. Len(t) :
                 /\ i + 1 \in 1 .. Len(s) /\ t[i] = s[i + 1]
                 /\ Before(Head(s), t[i]) /\ Agree(Head(s), t[i])
           /\ \A kind : Has(t, kind) => Has(s, kind)
           /\ \A kind : Has(s, kind) => Has(t, kind) \/ what = kind
           /\ ~Has(t, "disarm") /\ (Has(s, what) /\ (what # "disarm" => ~Has(s, "disarm")))
           /\ ~Arming(Head(s)) /\ what # "disarm" => ~isArmed
<1> DEFINE s == call.todo
           t == call'.todo
<1>1. s # <<>> /\ Head(s).do = what /\ t = Tail(s) /\ Fit(s) /\ "todo" \in DOMAIN call'
      /\ UNCHANGED setup
  BY DEF Doing, Idle, Inv, Fields
<1>2. /\ Fit(t) /\ Head(s) = s[1] /\ 1 \in 1 .. Len(s) /\ Head(s) \in Steps
      /\ \A i \in 1 .. Len(t) :
            i + 1 \in 1 .. Len(s) /\ t[i] = s[i + 1] /\ Before(Head(s), t[i])
      /\ \A kind : Has(t, kind) => Has(s, kind)
      /\ \A kind : Has(s, kind) => Has(t, kind) \/ Head(s).do = kind
  BY <1>1, TailFit
<1>3. s \in Seq(Steps) /\ t \in Seq(Steps) /\ Len(s) \in Nat /\ Len(t) \in Nat
  BY <1>1, <1>2 DEF Fit
<1>4. \A i \in 1 .. Len(t) : Agree(Head(s), t[i])
  BY <1>1, <1>2 DEF Fit
<1>5. ~Has(t, "disarm")
  <2>1. ASSUME NEW i \in 1 .. Len(t) PROVE t[i].do # "disarm"
    BY <1>2 DEF Before, Rank
  <2> QED BY <2>1 DEF Has
<1>6. Has(s, what)
  BY <1>1, <1>2 DEF Has
<1>7. ~Arming(Head(s)) /\ what # "disarm" => ~isArmed
  BY <1>1 DEF Inv, ArmedWhen
<1> HIDE DEF s, t
<1>8. what # "disarm" => ~Has(s, "disarm")
  BY <1>1, <1>2, <1>5
<1> QED BY <1>1, <1>2, <1>3, <1>4, <1>5, <1>6, <1>7, <1>8 DEF s, t

\* A step that does not write CSR2, and leaves the card disarmed.
LEMMA OtherStep ==
    ASSUME Inv, NEW what, Doing(what), what \notin {"start", "csr2"},
           drv' = drv, hw'.gate = hw.gate, DOMAIN hw' = DOMAIN hw,
           DOMAIN reg' = DOMAIN reg,
           reg'.csr2 \in {reg.csr2, reg.csr2 \ {"arm"}},
           what = "disarm" => reg'.csr2 = reg.csr2 \ {"arm"},
           reg'.multi = (IF what = "multi" THEN Head(call.todo).n ELSE reg.multi)
    PROVE  Inv' /\ ~isArmed'
<1> DEFINE s == call.todo
           t == call'.todo
<1>1. /\ s # <<>> /\ Head(s).do = what /\ Fit(t) /\ "todo" \in DOMAIN call' /\ UNCHANGED setup
      /\ \A i \in 1 .. Len(t) :
            i + 1 \in 1 .. Len(s) /\ t[i] = s[i + 1] /\ Agree(Head(s), t[i])
      /\ \A kind : Has(t, kind) => Has(s, kind)
      /\ \A kind : Has(s, kind) => Has(t, kind) \/ what = kind
      /\ ~Has(t, "disarm") /\ Has(s, what) /\ (what # "disarm" => ~Has(s, "disarm"))
      /\ ~Arming(Head(s)) /\ what # "disarm" => ~isArmed
  BY DoingFacts
<1>10. Head(s) = s[1] /\ 1 \in 1 .. Len(s)
  BY DoingFacts
<1>2. ~Arming(Head(s))
  BY <1>1 DEF Arming
<1>3. ~isArmed'
  BY <1>1, <1>2 DEF isArmed
<1>4. Fields'
  BY <1>1 DEF Inv, Fields
<1>5. TriggerKept'
  <2>1. reg'.csr2 \cap TriggerBits = reg.csr2 \cap TriggerBits
    BY DEF TriggerBits
  <2>2. ForTrigger(t, TriggerBit(drv.trigger))
    BY <1>1 DEF Inv, TriggerKept, ForTrigger
  <2>3. ~Has(t, "csr2") => reg.csr2 \cap TriggerBits = TriggerBit(drv.trigger)
    BY <1>1 DEF Inv, TriggerKept
  <2> QED BY <2>1, <2>2, <2>3 DEF TriggerKept
<1>6. ArmedWhen' /\ StartsFirst'
  BY <1>1, <1>3 DEF ArmedWhen, StartsFirst
<1>7. ModeSet'
  <2> SUFFICES ASSUME ~Has(t, "start"), NEW i \in 1 .. Len(t), Arming(t[i])
               PROVE  drv.arm = t[i].n /\ hw.gate = drv.pts
    BY <1>3 DEF ModeSet, Started
  <2>1. Has(t, "csr2")
    BY DEF Arming, Has
  <2>2. what # "disarm"
    BY <1>1, <2>1 DEF Inv, StartsFirst
  <2>3. Started
    BY <1>1, <2>2 DEF Started
  <2> QED BY <1>1, <2>3 DEF Inv, ModeSet
<1>8. MultiReset'
  <2> SUFFICES ASSUME NEW i \in 1 .. Len(t), t[i].do = "csr2", t[i].n = armPostTrigger,
                      ~Has(t, "multi")
               PROVE  reg'.multi = 0
    BY <1>3 DEF MultiReset
  <2>1. CASE what = "multi"
    BY <1>1, <2>1 DEF Agree
  <2>2. CASE what # "multi"
    <3>1. ~Has(s, "multi")
      BY <1>1, <2>2
    <3> QED BY <1>1, <2>2, <3>1 DEF Inv, MultiReset
  <2> QED BY <2>1, <2>2
<1>9. MultiSet'
  <2> SUFFICES ASSUME drv.ind > 1, HasMode(t, armPrePostTrigger)
               PROVE  /\ ForMulti(t, MultiOf(drv.ind))
                      /\ Has(t, "multi") \/ reg'.multi = MultiOf(drv.ind)
    BY <1>3 DEF MultiSet
  <2>1. HasMode(s, armPrePostTrigger)
    BY <1>1 DEF HasMode
  <2>2. ForMulti(s, MultiOf(drv.ind)) /\ (Has(s, "multi") \/ reg.multi = MultiOf(drv.ind))
    BY <2>1 DEF Inv, MultiSet
  <2>3. ForMulti(t, MultiOf(drv.ind))
    BY <1>1, <2>2 DEF ForMulti
  <2>4. CASE what = "multi"
    <3>1. Head(s).n = MultiOf(drv.ind)
      BY <1>1, <1>10, <2>2, <2>4 DEF ForMulti
    <3> QED BY <2>3, <2>4, <3>1
  <2>5. CASE what # "multi"
    BY <1>1, <2>2, <2>3, <2>5
  <2> QED BY <2>4, <2>5
<1> QED BY <1>1, <1>3, <1>4, <1>5, <1>6, <1>7, <1>8, <1>9 DEF Inv

LEMMA StartKeeps ==
    ASSUME Inv, Start
    PROVE  Inv' /\ ~isArmed'
<1> DEFINE s == call.todo
           t == call'.todo
<1>1. /\ s # <<>> /\ Head(s).do = "start" /\ Fit(t) /\ "todo" \in DOMAIN call'
      /\ UNCHANGED setup
      /\ \A i \in 1 .. Len(t) :
            i + 1 \in 1 .. Len(s) /\ t[i] = s[i + 1] /\ Agree(Head(s), t[i])
      /\ \A kind : Has(t, kind) => Has(s, kind)
      /\ \A kind : Has(s, kind) => Has(t, kind) \/ "start" = kind
      /\ ~Has(t, "disarm")
  BY DoingFacts DEF Start
<1>2. /\ {"arm", "pts", "trigger", "ind", "events"} \subseteq DOMAIN drv
      /\ drv.ind \in EventChoices /\ drv.events = numberEvents[drv.ind + 1]
      /\ {"csr2", "multi"} \subseteq DOMAIN reg /\ reg.csr2 \in SUBSET Bits
      /\ "gate" \in DOMAIN hw
  BY DEF Inv, Fields
<1>3. /\ drv'.arm = Head(s).n /\ drv'.pts = drv.pts /\ drv'.trigger = drv.trigger
      /\ drv'.ind = drv.ind /\ drv'.events = drv.events /\ DOMAIN drv' = DOMAIN drv
  BY <1>2 DEF Start
<1>4. /\ reg'.csr2 = reg.csr2 \ {"arm", "circ"} /\ reg'.multi = reg.multi
      /\ DOMAIN reg' = DOMAIN reg
  BY <1>2 DEF Start
<1>5. hw'.gate = drv.pts /\ DOMAIN hw' = DOMAIN hw
  BY <1>2 DEF Start
<1>6. ~isArmed' /\ reg'.csr2 \cap TriggerBits = reg.csr2 \cap TriggerBits
  BY <1>4 DEF isArmed, TriggerBits
<1>7. Fields'
  BY <1>1, <1>2, <1>3, <1>4, <1>5 DEF Inv, Fields
<1>8. TriggerKept'
  <2>1. ForTrigger(t, TriggerBit(drv.trigger))
    BY <1>1 DEF Inv, TriggerKept, ForTrigger
  <2>2. ~Has(t, "csr2") => reg.csr2 \cap TriggerBits = TriggerBit(drv.trigger)
    BY <1>1 DEF Inv, TriggerKept
  <2> QED BY <1>3, <1>6, <2>1, <2>2 DEF TriggerKept
<1>9. ArmedWhen' /\ StartsFirst'
  BY <1>1, <1>6 DEF ArmedWhen, StartsFirst
<1>10. ModeSet'
  BY <1>1, <1>3, <1>5, <1>6 DEF ModeSet, Agree, Arming
<1>11. MultiReset'
  <2> SUFFICES ASSUME NEW i \in 1 .. Len(t), t[i].do = "csr2", t[i].n = armPostTrigger,
                      ~Has(t, "multi")
               PROVE  reg'.multi = 0
    BY <1>6 DEF MultiReset
  <2>1. ~Has(s, "multi")
    BY <1>1
  <2> QED BY <1>1, <1>4, <2>1 DEF Inv, MultiReset
<1>12. MultiSet'
  <2> SUFFICES ASSUME drv.ind > 1, HasMode(t, armPrePostTrigger)
               PROVE  /\ ForMulti(t, MultiOf(drv.ind))
                      /\ Has(t, "multi") \/ reg.multi = MultiOf(drv.ind)
    BY <1>3, <1>4, <1>6 DEF MultiSet
  <2>1. HasMode(s, armPrePostTrigger)
    BY <1>1 DEF HasMode
  <2>2. ForMulti(s, MultiOf(drv.ind)) /\ (Has(s, "multi") \/ reg.multi = MultiOf(drv.ind))
    BY <2>1 DEF Inv, MultiSet
  <2>3. ForMulti(t, MultiOf(drv.ind))
    BY <1>1, <2>2 DEF ForMulti
  <2> QED BY <1>1, <2>2, <2>3
<1> QED BY <1>1, <1>6, <1>7, <1>8, <1>9, <1>10, <1>11, <1>12 DEF Inv

LEMMA WriteCSR2Keeps ==
    ASSUME Inv, WriteCSR2
    PROVE  Inv' /\ (isArmed' => Head(call.todo).n \in Armings)
<1> DEFINE s == call.todo
           t == call'.todo
           a == Head(s)
<1>1. /\ s # <<>> /\ a.do = "csr2" /\ Fit(t) /\ "todo" \in DOMAIN call' /\ UNCHANGED setup
      /\ a \in Steps /\ a = s[1] /\ 1 \in 1 .. Len(s) /\ t = Tail(s)
      /\ Len(s) \in Nat /\ Len(t) \in Nat
      /\ \A i \in 1 .. Len(t) :
            /\ i + 1 \in 1 .. Len(s) /\ t[i] = s[i + 1]
            /\ Before(a, t[i]) /\ Agree(a, t[i])
      /\ \A kind : Has(t, kind) => Has(s, kind)
      /\ \A kind : Has(s, kind) => Has(t, kind) \/ "csr2" = kind
      /\ ~Has(t, "disarm") /\ ~Has(s, "disarm")
  BY DoingFacts DEF WriteCSR2
<1>2. /\ {"csr2", "multi"} \subseteq DOMAIN reg
  BY DEF Inv, Fields
<1>3. /\ reg'.csr2 = a.bits /\ reg'.multi = reg.multi /\ DOMAIN reg' = DOMAIN reg
      /\ UNCHANGED <<drv, hw>>
  BY <1>2 DEF WriteCSR2
<1>4. Proper(a) /\ a.bits \in SUBSET Bits
  BY <1>1 DEF Inv, Fit, Steps
<1>5. \A i \in 1 .. Len(t) : t[i].do = "csr2"
  BY <1>1 DEF Before, Rank
<1>6. ~Has(t, "start") /\ ~Has(t, "multi") /\ ~Has(s, "start") /\ ~Has(s, "multi")
  BY <1>1, <1>5 DEF Has
<1>7. Started
  BY <1>1, <1>6 DEF Started
<1>8. isArmed' => /\ a.n \in Armings /\ Arming(a)
                  /\ ("circ" \in a.bits <=> a.n = armPrePostTrigger)
                  /\ drv.arm = a.n /\ hw.gate = drv.pts
  <2>1. isArmed' => /\ Arming(a) /\ a.n \in Armings
                    /\ ("circ" \in a.bits <=> a.n = armPrePostTrigger)
    BY <1>1, <1>3, <1>4 DEF Proper, Arming, isArmed
  <2>2. Arming(a) => drv.arm = a.n /\ hw.gate = drv.pts
    BY <1>1, <1>7 DEF Inv, ModeSet
  <2> QED BY <2>1, <2>2 DEF Arming
<1>9. Fields'
  BY <1>1, <1>3, <1>4 DEF Inv, Fields
<1>10. TriggerKept'
  <2>1. ForTrigger(s, TriggerBit(drv.trigger))
    BY DEF Inv, TriggerKept
  <2>2. ForTrigger(t, TriggerBit(drv.trigger))
    BY <1>1, <2>1 DEF ForTrigger
  <2>3. a.bits \cap TriggerBits = TriggerBit(drv.trigger)
    BY <1>1, <2>1 DEF ForTrigger
  <2> QED BY <1>3, <2>2, <2>3 DEF TriggerKept
<1>11. ArmedWhen'
  <2> SUFFICES ASSUME isArmed', t # <<>> PROVE Arming(Head(t))
    BY DEF ArmedWhen
  <2>1. t \in Seq(Steps)
    BY <1>1 DEF Fit
  <2>2. Head(t) = t[1] /\ 1 \in 1 .. Len(t)
    BY <2>1
  <2>3. "arm" \in t[1].bits
    BY <1>1, <1>8, <2>2 DEF Before, Arming
  <2> QED BY <1>5, <2>2, <2>3 DEF Arming
<1>12. StartsFirst'
  BY <1>1 DEF StartsFirst
<1>13. ModeSet'
  <2>1. \A i \in 1 .. Len(t) : Arming(t[i]) => drv.arm = t[i].n /\ hw.gate = drv.pts
    BY <1>1, <1>7 DEF Inv, ModeSet
  <2>2. isArmed' => Circular' = (drv.arm = armPrePostTrigger)
    BY <1>3, <1>8 DEF Circular
  <2> QED BY <1>3, <1>8, <2>1, <2>2 DEF ModeSet
<1>14. MultiReset'
  <2>1. (\E i \in 1 .. Len(s) : s[i].do = "csr2" /\ s[i].n = armPostTrigger) => reg.multi = 0
    BY <1>6 DEF Inv, MultiReset
  <2>2. (\E i \in 1 .. Len(t) : t[i].do = "csr2" /\ t[i].n = armPostTrigger) => reg.multi = 0
    BY <1>1, <2>1
  <2>3. isArmed' /\ drv.arm = armPostTrigger => reg.multi = 0
    BY <1>1, <1>8, <2>1
  <2> QED BY <1>3, <2>2, <2>3 DEF MultiReset
<1>15. MultiSet'
  <2> SUFFICES ASSUME drv.ind > 1 PROVE MultiSet'
    BY <1>3 DEF MultiSet
  <2>1. HasMode(s, armPrePostTrigger) =>
           ForMulti(s, MultiOf(drv.ind)) /\ reg.multi = MultiOf(drv.ind)
    BY <1>6 DEF Inv, MultiSet
  <2>2. HasMode(t, armPrePostTrigger) =>
           ForMulti(t, MultiOf(drv.ind)) /\ reg.multi = MultiOf(drv.ind)
    BY <1>1, <2>1 DEF HasMode, ForMulti
  <2>3. isArmed' /\ drv.arm = armPrePostTrigger => HasMode(s, armPrePostTrigger)
    BY <1>1, <1>8 DEF HasMode
  <2> QED BY <1>3, <2>1, <2>2, <2>3 DEF MultiSet
<1> QED BY <1>1, <1>8, <1>9, <1>10, <1>11, <1>12, <1>13, <1>14, <1>15 DEF Inv

LEMMA MethodStepKeeps ==
    ASSUME Inv, MethodStep
    PROVE  Inv' /\ (isArmed' => Head(call.todo).n \in Armings)
<1>1. /\ {"csr2", "multi"} \subseteq DOMAIN reg /\ "gate" \in DOMAIN hw
  BY DEF Inv, Fields
<1>2. CASE Disarm
  <2>1. /\ Doing("disarm") /\ drv' = drv /\ reg' = [reg EXCEPT !.csr2 = @ \ {"arm"}]
        /\ hw' = Disarmed(hw)
    BY <1>2 DEF Disarm
  <2>2. hw'.gate = hw.gate /\ DOMAIN hw' = DOMAIN hw
    BY <1>1, <2>1 DEF Disarmed
  <2>3. /\ reg'.csr2 = reg.csr2 \ {"arm"} /\ reg'.multi = reg.multi
        /\ DOMAIN reg' = DOMAIN reg
    BY <1>1, <2>1
  <2> QED BY <2>1, <2>2, <2>3, OtherStep
<1>3. CASE ResetIRQ
  <2>1. /\ Doing("resetIRQ") /\ drv' = drv
    BY <1>3 DEF ResetIRQ
  <2>2. hw'.gate = hw.gate /\ DOMAIN hw' = DOMAIN hw
    BY <1>1, <1>3 DEF ResetIRQ
  <2>3. /\ reg'.csr2 = reg.csr2 /\ reg'.multi = reg.multi
        /\ DOMAIN reg' = DOMAIN reg
    BY <1>1, <1>3 DEF ResetIRQ
  <2> QED BY <2>1, <2>2, <2>3, OtherStep
<1>4. CASE EnableIRQ
  <2>1. /\ Doing("enableIRQ") /\ UNCHANGED <<drv, hw>>
    BY <1>4 DEF EnableIRQ
  <2>2. /\ reg'.csr2 = reg.csr2 /\ reg'.multi = reg.multi
        /\ DOMAIN reg' = DOMAIN reg
    BY <1>1, <1>4 DEF EnableIRQ
  <2> QED BY <2>1, <2>2, OtherStep
<1>5. CASE WriteMulti
  <2>1. /\ Doing("multi") /\ UNCHANGED <<drv, hw>>
    BY <1>5 DEF WriteMulti
  <2>2. /\ reg'.csr2 = reg.csr2 /\ reg'.multi = Head(call.todo).n
        /\ DOMAIN reg' = DOMAIN reg
    BY <1>1, <1>5 DEF WriteMulti
  <2> QED BY <2>1, <2>2, OtherStep
<1> QED BY <1>2, <1>3, <1>4, <1>5, StartKeeps, WriteCSR2Keeps DEF MethodStep

-----------------------------------------------------------------------------
(* Every step *)

LEMMA NextKeeps ==
    ASSUME Inv, [Next]_vars
    PROVE  Inv' /\ (~isArmed /\ isArmed' => Head(call.todo).n \in Armings)
<1>1. CASE \E r \in Records : \E v \in Values[r] : Put(r, v)
  BY <1>1, PutKeeps
<1>2. CASE MethodStep
  BY <1>2, MethodStepKeeps
<1>3. CASE \/ IH \/ Callback \/ PreSample \/ HwTrigger \/ HwGateDone \/ vtrReboot
           \/ UNCHANGED vars
  BY <1>3, EnvironmentKeeps
<1> QED BY <1>1, <1>2, <1>3 DEF Next

-----------------------------------------------------------------------------
(* Types *)

LEMMA SetupTypes ==
    ASSUME setup \in Setups
    PROVE  /\ Groups \in Nat \ {0} /\ ArraySize \in Nat /\ ArraySize >= 16
           /\ BUFLEN \in Nat \ {0} /\ MaxPre \in Nat
           /\ ChanLen \in [0 .. Groups - 1 -> [Halves -> Nat]]
           /\ Values \in [Records -> SUBSET Int]
BY Vtr812Assumption DEF Groups, ArraySize, BUFLEN, MaxPre, ChanLen, Values

\* However the memory is divided, an event has room for a sample.
LEMMA EventSizes ==
    ASSUME NEW size \in Nat, size >= 16
    PROVE  \A n \in {1, 2, 4, 8, 16} : size \div n \in Nat /\ size \div n >= 1
OBVIOUS

LEMMA EventsOfType == \A multi \in 0 .. 7 : EventsOf(multi) \in {1, 2, 4, 8, 16}
<1> SUFFICES ASSUME NEW multi \in 0 .. 7 PROVE EventsOf(multi) \in {1, 2, 4, 8, 16}
  OBVIOUS
<1>1. /\ numberEvents[2] = 2 /\ numberEvents[3] = 4 /\ numberEvents[4] = 8
      /\ numberEvents[5] = 16
  BY DEF numberEvents
<1>2. multi < 4 \/ multi - 2 \in {2, 3, 4, 5}
  OBVIOUS
<1> QED BY <1>1, <1>2 DEF EventsOf

LEMMA EventSizeType == TypeOK => EventSize \in Nat /\ EventSize >= 1
<1> SUFFICES ASSUME TypeOK PROVE EventSize \in Nat /\ EventSize >= 1
  OBVIOUS
<1>1. ArraySize \in Nat /\ ArraySize >= 16 /\ reg.multi \in 0 .. 7
  BY SetupTypes DEF TypeOK, Registers
<1> QED BY <1>1, EventsOfType, EventSizes DEF EventSize

LEMMA SampleInType ==
    ASSUME NEW i \in Int, NEW total \in Int, NEW size \in Nat, size >= 1
    PROVE  SampleIn(i, total, size) \in Int
<1>1. (total - 1 - i) % size \in Int
  OBVIOUS
<1> QED BY <1>1 DEF SampleIn, Stale

LEMMA WordType ==
    ASSUME TypeOK, NEW cell \in Nat
    PROVE  Word(cell) \in Words
<1> DEFINE event == cell \div EventSize
<1>1. EventSize \in Nat /\ EventSize >= 1 /\ ArraySize \in Nat /\ ArraySize >= 1
  BY EventSizeType, SetupTypes DEF TypeOK
<1>2. event \in Nat /\ cell % EventSize \in Int
  BY <1>1
<1>3. hw.total \in Int /\ hw.done \in Seq(Nat)
  BY DEF TypeOK, Hardware
<1> HIDE DEF event
<1>4. event + 1 <= Len(hw.done) => hw.done[event + 1] \in Int
  BY <1>2, <1>3
<1>5. event + 1 <= Len(hw.done) =>
         SampleIn(cell % EventSize, hw.done[event + 1], EventSize) \in Int
  <2>1. SUFFICES ASSUME event + 1 <= Len(hw.done)
                 PROVE  SampleIn(cell % EventSize, hw.done[event + 1], EventSize) \in Int
    OBVIOUS
  <2>2. hw.done[event + 1] \in Int
    BY <1>4, <2>1
  <2> QED BY ONLY <1>1, <1>2, <2>2, SampleInType
<1>6. SampleIn(cell, hw.total, ArraySize) \in Int
  <2>1. cell \in Int
    OBVIOUS
  <2> QED BY ONLY <1>1, <1>3, <2>1, SampleInType
<1>7. (IF event + 1 > Len(hw.done) THEN Stale
       ELSE SampleIn(cell % EventSize, hw.done[event + 1], EventSize)) \in Int
  BY <1>2, <1>3, <1>5 DEF Stale
<1> QED BY <1>2, <1>6, <1>7 DEF Word, Words, event

LEMMA CopyType ==
    ASSUME TypeOK, NEW cells \in Seq(Nat)
    PROVE  Copy(cells) \in Seq(Words) /\ Len(Copy(cells)) = Len(cells)
<1>1. \A i \in 1 .. Len(cells) : Word(cells[i]) \in Words
  BY WordType
<1>2. DOMAIN cells = 1 .. Len(cells) /\ Len(cells) \in Nat
  OBVIOUS
<1> QED BY <1>1, <1>2 DEF Copy

LEMMA ContiguousType ==
    ASSUME NEW first \in Nat, NEW n \in Int, NEW skip \in Nat, NEW room \in Int
    PROVE  /\ readContiguous(first, n, skip, room) \in Seq(Nat)
           /\ Len(readContiguous(first, n, skip, room)) = MaxOf(MinOf(n - skip, room), 0)
           /\ Len(readContiguous(first, n, skip, room)) \in Nat
           /\ Len(readContiguous(first, n, skip, room)) <= MaxOf(room, 0)
<1> DEFINE len == MaxOf(MinOf(n - skip, room), 0)
<1>1. len \in Nat /\ len <= MaxOf(room, 0)
  BY DEF MinOf, MaxOf
<1>2. \A i \in 1 .. len : first + skip + i - 1 \in Nat
  BY <1>1
<1>3. readContiguous(first, n, skip, room) = [i \in 1 .. len |-> first + skip + i - 1]
  BY DEF readContiguous
<1> HIDE DEF len
<1> QED BY <1>1, <1>2, <1>3 DEF len

RoomKept == \A g \in 0 .. Groups - 1 : \A h \in Halves : Len(chan[g][h]) <= ChanLen[g][h]

LEMMA GroupRead ==
    ASSUME TypeOK, setup' = setup, NEW g \in 0 .. Groups - 1, NEW new \in [Halves -> Seq(Words)],
           \A h \in Halves : Len(new[h]) <= ChanLen[g][h],
           chan' = [chan EXCEPT ![g] = new]
    PROVE  chan' \in Shown' /\ RoomKept'
<1>1. chan \in [0 .. Groups - 1 -> [Halves -> Seq(Words)]] /\ RoomKept
  BY DEF TypeOK, Shown, RoomKept
<1>2. Groups' = Groups /\ ChanLen' = ChanLen
  BY DEF Groups, ChanLen
<1>3. chan' \in [0 .. Groups - 1 -> [Halves -> Seq(Words)]]
  BY <1>1
<1>4. \A f \in 0 .. Groups - 1 : chan'[f] = (IF f = g THEN new ELSE chan[f])
  BY <1>1
<1>5. RoomKept'
  BY <1>1, <1>2, <1>4 DEF RoomKept
<1> QED BY <1>2, <1>3, <1>5 DEF Shown

LEMMA WordsReadType ==
    ASSUME NEW n \in Int, NEW k \in WordsRead(n)
    PROVE  k \in Nat /\ k <= MaxOf(n, 0)
BY DEF WordsRead, MaxOf

LEMMA PostReadTypes ==
    ASSUME TypeOK, setup' = setup, NEW g \in 0 .. Groups - 1, readPostTrigger(g)
    PROVE  chan' \in Shown' /\ RoomKept'
<1> DEFINE ndata == MinOf(drv.pts * drv.pte, ArraySize)
<1>1. ndata \in Int
  <2>1. drv.pts * drv.pte \in Int /\ ArraySize \in Int
    BY SetupTypes DEF TypeOK, Drivers
  <2> QED BY <2>1 DEF MinOf
<1>2. PICK k \in WordsRead(ndata) :
        chan' = [chan EXCEPT ![g] =
                    [h \in Halves |-> Copy(readContiguous(0, k, 0, ChanLen[g][h]))]]
  BY DEF readPostTrigger
<1> HIDE DEF ndata
<1>3. k \in Int
  BY <1>1, WordsReadType
<1>4. ASSUME NEW h \in Halves
      PROVE  /\ Copy(readContiguous(0, k, 0, ChanLen[g][h])) \in Seq(Words)
             /\ Len(Copy(readContiguous(0, k, 0, ChanLen[g][h]))) <= ChanLen[g][h]
  <2>1. ChanLen[g][h] \in Nat
    BY SetupTypes DEF TypeOK
  <2> DEFINE cells == readContiguous(0, k, 0, ChanLen[g][h])
  <2>2. cells \in Seq(Nat) /\ Len(cells) <= MaxOf(ChanLen[g][h], 0)
    <3>1. k \in Int /\ 0 \in Nat /\ ChanLen[g][h] \in Int
      BY <1>3, <2>1
    <3> QED BY ONLY <3>1, ContiguousType
  <2> HIDE DEF cells
  <2>3. Copy(cells) \in Seq(Words) /\ Len(Copy(cells)) = Len(cells)
    BY <2>2, CopyType
  <2>4. Len(Copy(cells)) <= ChanLen[g][h]
    BY <2>1, <2>2, <2>3 DEF MaxOf
  <2> QED BY <2>3, <2>4 DEF cells
<1> DEFINE new == [h \in Halves |-> Copy(readContiguous(0, k, 0, ChanLen[g][h]))]
<1>5. new \in [Halves -> Seq(Words)] /\ \A h \in Halves : Len(new[h]) <= ChanLen[g][h]
  BY <1>4
<1>6. chan' = [chan EXCEPT ![g] = new]
  BY <1>2
<1> HIDE DEF new
<1> QED BY <1>5, <1>6, GroupRead

\* What the two runs of an event add to a channel.
LEMMA TwoRuns ==
    ASSUME TypeOK, NEW old \in Seq(Words), NEW len \in Nat, Len(old) <= len,
           NEW first \in Nat, NEW base \in Nat, NEW k1 \in Nat, NEW k2 \in Nat, NEW skip \in Nat
    PROVE  LET run1 == readContiguous(first, k1, skip, len - Len(old))
               run2 == readContiguous(base, k2, MaxOf(skip - k1, 0),
                                      (len - Len(old)) - Len(run1))
           IN /\ old \o Copy(run1) \o Copy(run2) \in Seq(Words)
              /\ Len(old \o Copy(run1) \o Copy(run2)) <= len
<1> DEFINE room == len - Len(old)
           run1 == readContiguous(first, k1, skip, room)
           rest == room - Len(run1)
           skips == MaxOf(skip - k1, 0)
           run2 == readContiguous(base, k2, skips, rest)
<1>1. Len(old) \in Nat /\ room \in Nat
  OBVIOUS
<1>2. run1 \in Seq(Nat) /\ Len(run1) \in Nat /\ Len(run1) <= MaxOf(room, 0)
  <2>1. first \in Nat /\ k1 \in Int /\ skip \in Nat /\ room \in Int
    BY <1>1
  <2> HIDE DEF room
  <2> QED BY ONLY <2>1, ContiguousType
<1> HIDE DEF run1
<1>3. rest \in Nat /\ skips \in Nat
  BY <1>1, <1>2 DEF MaxOf
<1> HIDE DEF rest, skips
<1>4. run2 \in Seq(Nat) /\ Len(run2) \in Nat /\ Len(run2) <= MaxOf(rest, 0)
  <2>1. base \in Nat /\ k2 \in Int /\ skips \in Nat /\ rest \in Int
    BY <1>3
  <2> QED BY ONLY <2>1, ContiguousType
<1> HIDE DEF run2
<1>5. /\ Copy(run1) \in Seq(Words) /\ Len(Copy(run1)) = Len(run1)
      /\ Copy(run2) \in Seq(Words) /\ Len(Copy(run2)) = Len(run2)
  BY <1>2, <1>4, CopyType
<1> DEFINE c1 == Copy(run1)
           c2 == Copy(run2)
<1> HIDE DEF c1, c2
<1>6. c1 \in Seq(Words) /\ c2 \in Seq(Words) /\ Len(c1) = Len(run1) /\ Len(c2) = Len(run2)
  BY <1>5 DEF c1, c2
<1>7. old \o c1 \o c2 \in Seq(Words) /\ Len(old \o c1 \o c2) = Len(old) + Len(c1) + Len(c2)
  <2>1. old \o c1 \in Seq(Words) /\ Len(old \o c1) = Len(old) + Len(c1)
    BY <1>6, ConcatProperties
  <2>2. (old \o c1) \o c2 \in Seq(Words) /\ Len((old \o c1) \o c2) = Len(old \o c1) + Len(c2)
    BY <1>6, <2>1, ConcatProperties
  <2> QED BY <2>1, <2>2
<1>8. Len(run1) + Len(run2) <= room
  BY <1>1, <1>2, <1>3, <1>4 DEF MaxOf, rest
<1>9. Len(old \o c1 \o c2) <= len
  BY <1>1, <1>2, <1>4, <1>6, <1>7, <1>8
<1> QED BY <1>7, <1>9 DEF c1, c2, run1, run2, rest, skips

\* The callback task reads in the mode it found, no more of an event than the
\* event has.
ReadsRing ==
    cb.at = "read" =>
        \/ cb.arm = armPostTrigger
        \/ cb.arm = armPrePostTrigger /\ cb.pps <= ArraySize \div cb.events

LEMMA RunsType ==
    ASSUME NEW loc \in Nat, NEW nmax \in Nat, NEW size \in Nat, loc < size, nmax <= size
    PROVE  LET runs == Runs(loc, nmax, size) IN
           runs.first \in Nat /\ runs.n1 \in Nat /\ runs.n2 \in Nat
BY DEF Runs

LEMMA RingReadTypes ==
    ASSUME TypeOK, setup' = setup, cb.at = "read", ReadsRing, cb.arm # armPostTrigger,
           NEW g \in 0 .. Groups - 1, readPrePostTrigger(g)
    PROVE  chan' \in Shown' /\ RoomKept'
<1> DEFINE size   == ArraySize \div cb.events
           base   == cb.event * size
           last   == (IF cb.events = 1 THEN readLocation ELSE readPmemAddress(cb.event)) - base
           loc    == AfterLast(last, size)
           room(h) == ChanLen[g][h] - Len(chan[g][h])
           want(h) == MinOf(room(h), cb.pps)
           nmax   == MaxOf(want("high"), want("low"))
           skip(h) == nmax - want(h)
           runs   == Runs(loc, nmax, size)
           run1(k1, h) == readContiguous(base + runs.first, k1, skip(h), room(h))
           run2(k1, k2, h) == readContiguous(base, k2, MaxOf(skip(h) - k1, 0),
                                             room(h) - Len(run1(k1, h)))
           new(k1, k2) == [h \in Halves |-> chan[g][h] \o Copy(run1(k1, h))
                                              \o Copy(run2(k1, k2, h))]
<1>1. /\ chan \in [0 .. Groups - 1 -> [Halves -> Seq(Words)]] /\ RoomKept
      /\ ChanLen \in [0 .. Groups - 1 -> [Halves -> Nat]]
  BY SetupTypes DEF TypeOK, Shown, RoomKept
<1>2. CASE chan' = chan
  <2>1. Groups' = Groups /\ ChanLen' = ChanLen
    BY DEF Groups, ChanLen
  <2> QED BY <1>1, <1>2, <2>1 DEF RoomKept, Shown
<1>3. CASE /\ ~(last \notin 0 .. size - 1 \/ nmax <= 0)
           /\ \E k1 \in WordsRead(runs.n1), k2 \in WordsRead(runs.n2) :
                 chan' = [chan EXCEPT ![g] = new(k1, k2)]
  <2>1. size \in Nat /\ base \in Nat /\ cb.pps \in Nat /\ cb.pps <= size
    <3>1. size \in Nat /\ cb.event \in Nat /\ cb.pps \in Nat
      BY SetupTypes, EventSizes DEF TypeOK, Readers
    <3>2. cb.pps <= size
      BY DEF ReadsRing
    <3> HIDE DEF size
    <3>3. cb.event * size \in Nat
      BY <3>1
    <3> QED BY <3>1, <3>2, <3>3
  <2> HIDE DEF size, base
  <2>2. \A h \in Halves : /\ room(h) \in Nat /\ want(h) \in Nat /\ want(h) <= cb.pps
                          /\ chan[g][h] \in Seq(Words) /\ ChanLen[g][h] \in Nat
                          /\ Len(chan[g][h]) <= ChanLen[g][h]
    BY <1>1, <2>1 DEF RoomKept, MinOf
  <2> HIDE DEF want
  <2>3. nmax \in Nat /\ nmax <= size /\ \A h \in Halves : skip(h) \in Nat
    BY <2>1, <2>2 DEF MaxOf, Halves
  <2> HIDE DEF nmax, skip
  <2>4. loc \in Nat /\ loc < size
    <3> HIDE DEF last
    <3> QED BY <1>3, <2>1 DEF AfterLast
  <2> HIDE DEF last, loc
  <2>5. runs.first \in Nat /\ runs.n1 \in Nat /\ runs.n2 \in Nat
    BY <2>1, <2>3, <2>4, RunsType
  <2> HIDE DEF runs
  <2>6. PICK k1 \in WordsRead(runs.n1), k2 \in WordsRead(runs.n2) :
            chan' = [chan EXCEPT ![g] = new(k1, k2)]
    BY <1>3
  <2>7. k1 \in Nat /\ k2 \in Nat /\ base + runs.first \in Nat
    BY <2>1, <2>5, <2>6, WordsReadType
  <2>8. ASSUME NEW h \in Halves
        PROVE  new(k1, k2)[h] \in Seq(Words) /\ Len(new(k1, k2)[h]) <= ChanLen[g][h]
    <3>1. room(h) = ChanLen[g][h] - Len(chan[g][h])
      OBVIOUS
    <3>2. new(k1, k2)[h] = chan[g][h] \o Copy(run1(k1, h)) \o Copy(run2(k1, k2, h))
      OBVIOUS
    <3> QED BY <2>1, <2>2, <2>3, <2>7, <3>1, <3>2, TwoRuns
  <2>9. new(k1, k2) \in [Halves -> Seq(Words)]
    <3>1. \A h \in Halves : new(k1, k2)[h] \in Seq(Words)
      BY <2>8
    <3>2. new(k1, k2) = [h \in Halves |-> new(k1, k2)[h]]
      OBVIOUS
    <3> HIDE DEF new
    <3> QED BY <3>1, <3>2
  <2> HIDE DEF new
  <2> QED BY <2>6, <2>8, <2>9, GroupRead
<1>4. chan' = chan \/ (/\ ~(last \notin 0 .. size - 1 \/ nmax <= 0)
           /\ \E k1 \in WordsRead(runs.n1), k2 \in WordsRead(runs.n2) :
                 chan' = [chan EXCEPT ![g] = new(k1, k2)])
  <2>1. readPrePostTrigger(g)
    OBVIOUS
  <2> QED BY <2>1 DEF readPrePostTrigger
<1> QED BY <1>2, <1>3, <1>4

\* A step that leaves the callback task and its channels alone.
LEMMA OutsideTypes ==
    ASSUME TypeOK, ReadsRing, UNCHANGED <<setup, cb, chan>>, drv' \in Drivers,
           reg' \in Registers, hw' \in Hardware, isRebooting' \in BOOLEAN, call' \in Calls
    PROVE  TypeOK' /\ ReadsRing'
<1>1. Groups' = Groups /\ ChanLen' = ChanLen /\ ArraySize' = ArraySize
  BY DEF Groups, ChanLen, ArraySize
<1>2. ReadsRing'
  BY <1>1 DEF ReadsRing
<1>3. cb' \in Readers' /\ chan' \in Shown' /\ RoomKept'
  BY <1>1 DEF TypeOK, Readers, Shown, RoomKept
<1> QED BY <1>2, <1>3 DEF TypeOK, RoomKept, Drivers, Registers, Hardware, Calls

LEMMA PutTypes ==
    ASSUME Inv, TypeOK, ReadsRing, NEW r \in Records, NEW v \in Values[r], Put(r, v)
    PROVE  TypeOK' /\ ReadsRing'
<1>1. UNCHANGED <<setup, isRebooting, cb, chan>>
  BY DEF Put
<1>2. v \in Int
  BY SetupTypes DEF TypeOK
<1>3. /\ drv \in Drivers /\ reg \in Registers /\ hw \in Hardware /\ isRebooting \in BOOLEAN
      /\ call \in Calls
  BY DEF TypeOK
<1>4. Fit(call'.todo)
  BY PutKeeps DEF Inv
<1>5. call' \in Calls
  <2>1. \E status \in {"OK", "Busy", "Error", "Suspend"} : \E todo : Enter(status, todo)
    BY DEF Put, vtrclock, vtrtrigger, vtrmultiEvent, vtrnumberPTS, vtrnumberPPS, vtrnumberPTE,
           Setting, vtrarm, vtrsoftTrigger, Refuse
  <2>2. PICK status \in {"OK", "Busy", "Error", "Suspend"} : \E todo : Enter(status, todo)
    BY <2>1
  <2>3. PICK todo : Enter(status, todo)
    BY <2>2
  <2>4. call'.todo = todo /\ call' = [status |-> status, todo |-> todo]
    BY <2>3 DEF Enter
  <2>5. todo \in Seq(Steps)
    BY <1>4, <2>4 DEF Fit
  <2> QED BY <2>4, <2>5 DEF Calls
<1>6. drv' \in Drivers /\ reg' \in Registers /\ hw' \in Hardware
  <2>1. ASSUME NEW status, Refuse(status) PROVE drv' = drv /\ reg' = reg /\ hw' = hw
    BY <2>1 DEF Refuse
  <2>2. ASSUME NEW field \in {"pts", "pps", "pte"}, Setting(field, v)
        PROVE  drv' \in Drivers /\ reg' \in Registers /\ hw' \in Hardware
    <3>1. CASE isArmed
      BY <1>3, <2>1, <2>2, <3>1 DEF Setting
    <3>2. CASE ~isArmed
      <4>1. drv' = [drv EXCEPT ![field] = v] /\ UNCHANGED <<reg, hw>>
        BY <2>2, <3>2 DEF Setting
      <4> QED BY <1>2, <1>3, <4>1 DEF Drivers
    <3> QED BY <3>1, <3>2
  <2>3. CASE vtrclock(v)
    <3>1. CASE isArmed \/ isRebooting \/ v \notin 0 .. nclockChoices - 1
      BY <1>3, <2>1, <2>3, <3>1 DEF vtrclock
    <3>2. CASE ~(isArmed \/ isRebooting \/ v \notin 0 .. nclockChoices - 1)
      <4>1. reg' = [reg EXCEPT !.clock = v % 8] /\ UNCHANGED <<drv, hw>>
        BY <2>3, <3>2 DEF vtrclock, nclockChoices
      <4>2. v % 8 \in 0 .. 7
        BY <1>2
      <4> QED BY <1>3, <4>1, <4>2 DEF Registers
    <3> QED BY <3>1, <3>2
  <2>4. CASE vtrtrigger(v)
    <3>1. CASE isRebooting \/ v \notin 0 .. ntriggerChoices \/ isArmed \/ v = ntriggerChoices
      BY <1>3, <2>1, <2>4, <3>1 DEF vtrtrigger
    <3>2. CASE ~(isRebooting \/ v \notin 0 .. ntriggerChoices \/ isArmed \/ v = ntriggerChoices)
      <4>1. drv' = [drv EXCEPT !.trigger = v] /\ UNCHANGED <<reg, hw>>
        BY <2>4, <3>2 DEF vtrtrigger
      <4>2. v \in triggerSoft .. triggerGate
        BY <1>2, <3>2 DEF triggerSoft, triggerGate, ntriggerChoices
      <4> QED BY <1>3, <4>1, <4>2 DEF Drivers
    <3> QED BY <3>1, <3>2
  <2>5. CASE vtrmultiEvent(v)
    <3> DEFINE refused == \/ ~HasMultiPrePost \/ v \notin 0 .. nmultiEventChoices - 1
                          \/ isArmed \/ isRebooting
    <3>1. CASE refused
      BY <1>3, <2>1, <2>5, <3>1 DEF vtrmultiEvent
    <3>2. CASE ~refused
      <4>1. /\ drv' = [drv EXCEPT !.ind = v, !.events = numberEvents[v + 1]]
            /\ UNCHANGED <<reg, hw>>
        BY <2>5, <3>2 DEF vtrmultiEvent
      <4>2. v \in 0 .. nmultiEventChoices - 1 /\ numberEvents[v + 1] \in {1, 2, 4, 8, 16}
        <5>1. /\ numberEvents[1] = 1 /\ numberEvents[2] = 2 /\ numberEvents[3] = 4
              /\ numberEvents[4] = 8 /\ numberEvents[5] = 16
          BY DEF numberEvents
        <5>2. v + 1 \in {1, 2, 3, 4, 5}
          BY <3>2 DEF nmultiEventChoices
        <5> QED BY <3>2, <5>1, <5>2
      <4> QED BY <1>3, <4>1, <4>2 DEF Drivers
    <3> QED BY <3>1, <3>2
  <2>6. CASE vtrarm(v)
    <3>1. drv' = [drv EXCEPT !.arm = armDisarm] /\ UNCHANGED <<reg, hw>>
      BY <2>6 DEF vtrarm
    <3> QED BY <1>3, <3>1 DEF Drivers, armDisarm
  <2>7. CASE vtrsoftTrigger
    <3>1. hw' \in {hw, [hw EXCEPT !.phase = "open"]} /\ UNCHANGED <<drv, reg>>
      BY <2>7 DEF vtrsoftTrigger
    <3> QED BY <1>3, <3>1 DEF Hardware
  <2> QED
    BY <2>2, <2>3, <2>4, <2>5, <2>6, <2>7 DEF Put, vtrnumberPTS, vtrnumberPPS, vtrnumberPTE
<1> QED BY <1>1, <1>3, <1>5, <1>6, OutsideTypes

LEMMA MethodStepTypes ==
    ASSUME Inv, TypeOK, ReadsRing, MethodStep
    PROVE  TypeOK' /\ ReadsRing'
<1>1. PICK what \in {"disarm", "resetIRQ", "start", "enableIRQ", "multi", "csr2"} : Doing(what)
  BY DEF MethodStep, Disarm, ResetIRQ, Start, EnableIRQ, WriteMulti, WriteCSR2
<1>2. UNCHANGED <<setup, isRebooting, cb, chan>> /\ call' = [call EXCEPT !.todo = Tail(@)]
  BY <1>1 DEF Doing
<1>3. /\ drv \in Drivers /\ reg \in Registers /\ hw \in Hardware /\ isRebooting \in BOOLEAN
      /\ call \in Calls
  BY DEF TypeOK
<1>4. Fit(call'.todo) /\ Head(call.todo) \in Steps /\ Head(call.todo) = call.todo[1]
      /\ 1 \in 1 .. Len(call.todo) /\ Head(call.todo).do = what
  BY <1>1, DoingFacts
<1>5. Proper(Head(call.todo))
  BY <1>4 DEF Inv, Fit
<1>6. call' \in Calls
  <2>1. call'.todo = Tail(call.todo)
    BY <1>2, <1>3 DEF Calls
  <2> QED BY <1>2, <1>3, <1>4, <2>1 DEF Calls, Fit
<1>7. drv' \in Drivers /\ reg' \in Registers /\ hw' \in Hardware
  <2>1. CASE Disarm
    <3>1. /\ reg' = [reg EXCEPT !.csr2 = @ \ {"arm"}] /\ drv' = drv
          /\ hw' = [hw EXCEPT !.phase = "wait"]
      BY <2>1 DEF Disarm, Disarmed
    <3> QED BY <1>3, <3>1 DEF Registers, Hardware
  <2>2. CASE ResetIRQ
    <3>1. /\ reg' = [reg EXCEPT !.irqOn = FALSE] /\ drv' = drv
          /\ hw' = [hw EXCEPT !.irq = FALSE]
      BY <2>2 DEF ResetIRQ
    <3> QED BY <1>3, <3>1 DEF Registers, Hardware
  <2>3. CASE Start
    <3> DEFINE soFar == IF Head(call.todo).n = armPostTrigger THEN 0 ELSE drv.soFar
    <3>1. /\ drv' = [drv EXCEPT !.arm = Head(call.todo).n, !.soFar = soFar]
          /\ reg' = [reg EXCEPT !.csr2 = @ \ {"arm", "circ"}]
          /\ hw' = [hw EXCEPT !.total = 0, !.done = <<>>, !.gate = drv.pts]
      BY <2>3 DEF Start
    <3>2. Head(call.todo).n \in Int /\ drv.pts \in Int /\ soFar \in Nat
      BY <1>3, <1>4 DEF Steps, Drivers
    <3> HIDE DEF soFar
    <3>3. drv' \in Drivers
      BY <1>3, <3>1, <3>2 DEF Drivers
    <3>4. reg' \in Registers
      BY <1>3, <3>1 DEF Registers
    <3>5. hw' \in Hardware
      <4>1. hw \in Hardware /\ drv.pts \in Int /\ <<>> \in Seq(Nat)
        BY <1>3, <3>2
      <4> QED BY ONLY <3>1, <4>1 DEF Hardware
    <3> QED BY <3>3, <3>4, <3>5
  <2>4. CASE EnableIRQ
    <3>1. reg' = [reg EXCEPT !.irqOn = TRUE] /\ UNCHANGED <<drv, hw>>
      BY <2>4 DEF EnableIRQ
    <3> QED BY <1>3, <3>1 DEF Registers
  <2>5. CASE WriteMulti
    <3>1. /\ reg' = [reg EXCEPT !.multi = Head(call.todo).n] /\ UNCHANGED <<drv, hw>>
          /\ Head(call.todo).do = "multi"
      BY <2>5 DEF WriteMulti, Doing
    <3>2. Head(call.todo).n \in 0 .. 7
      BY <1>5, <3>1 DEF Proper
    <3> QED BY <1>3, <3>1, <3>2 DEF Registers
  <2>6. CASE WriteCSR2
    <3>1. reg' = [reg EXCEPT !.csr2 = Head(call.todo).bits] /\ UNCHANGED <<drv, hw>>
      BY <2>6 DEF WriteCSR2
    <3>2. Head(call.todo).bits \in SUBSET Bits
      BY <1>4 DEF Steps
    <3> QED BY <1>3, <3>1, <3>2 DEF Registers
  <2> QED BY <2>1, <2>2, <2>3, <2>4, <2>5, <2>6 DEF MethodStep
<1> QED BY <1>2, <1>3, <1>6, <1>7, OutsideTypes

\* The interrupt handler, the digitizer and the exit hook.
LEMMA EnvironmentTypes ==
    ASSUME TypeOK, ReadsRing,
           IH \/ PreSample \/ HwTrigger \/ HwGateDone \/ vtrReboot \/ UNCHANGED vars
    PROVE  TypeOK' /\ ReadsRing'
<1>1. /\ drv \in Drivers /\ reg \in Registers /\ hw \in Hardware /\ isRebooting \in BOOLEAN
      /\ call \in Calls /\ cb \in Readers
  BY DEF TypeOK
<1>2. /\ hw.total \in Nat /\ hw.done \in Seq(Nat) /\ Gate \in Nat /\ ArraySize \in Nat
  <2>1. hw.gate \in Int
    BY <1>1 DEF Hardware
  <2>2. Gate \in Nat
    BY <2>1 DEF Gate, MaxOf
  <2> QED BY <1>1, <2>2, SetupTypes DEF Hardware, TypeOK
<1>3. CASE IH
  <2>1. CountTrigger => drv' \in Drivers
    <3>1. drv.soFar + 1 \in Nat
      BY <1>1 DEF Drivers
    <3>2. CountTrigger => drv' \in {drv, [drv EXCEPT !.soFar = @ + 1]}
      BY DEF CountTrigger
    <3> QED BY <1>1, <3>1, <3>2 DEF Drivers
  <2>2. drv' \in Drivers
    BY <1>1, <1>3, <2>1 DEF IH, UnwantedInterrupt, IgnoreInterrupt, CompleteInterrupt
  <2>3. reg' \in Registers
    <3>1. reg' = reg \/ reg' = [reg EXCEPT !.csr2 = @ \ {"arm"}]
      BY <1>3 DEF IH, UnwantedInterrupt, IgnoreInterrupt, CompleteInterrupt, WriteDisarm
    <3> QED BY <1>1, <3>1 DEF Registers
  <2>4. hw' \in Hardware
    <3>1. hw' \in {[hw EXCEPT !.irq = FALSE], [[hw EXCEPT !.irq = FALSE] EXCEPT !.phase = "wait"]}
      BY <1>3 DEF IH, UnwantedInterrupt, IgnoreInterrupt, CompleteInterrupt, WriteDisarm,
                  Disarmed
    <3> QED BY <1>1, <3>1 DEF Hardware
  <2>5. UNCHANGED <<setup, isRebooting, call, chan>>
    BY <1>3 DEF IH, UnwantedInterrupt, IgnoreInterrupt, CompleteInterrupt, Interrupt
  <2>6. cb' = cb \/ cb' = [cb EXCEPT !.pending = TRUE]
    BY <1>3 DEF IH, UnwantedInterrupt, IgnoreInterrupt, CompleteInterrupt
  <2>7. cb' \in Readers /\ ReadsRing'
    <3>1. ArraySize' = ArraySize
      BY <2>5 DEF ArraySize
    <3>2. /\ cb' \in Readers /\ cb'.at = cb.at /\ cb'.arm = cb.arm /\ cb'.pps = cb.pps
          /\ cb'.events = cb.events
      BY <1>1, <2>6 DEF Readers
    <3> QED BY <3>1, <3>2 DEF ReadsRing
  <2>8. Groups' = Groups /\ ChanLen' = ChanLen
    BY <2>5 DEF Groups, ChanLen
  <2>9. cb' \in Readers' /\ chan' \in Shown' /\ RoomKept'
    BY <2>5, <2>7, <2>8 DEF TypeOK, Readers, Shown, RoomKept
  <2> QED BY <1>1, <2>2, <2>3, <2>4, <2>5, <2>7, <2>9
          DEF TypeOK, RoomKept, Drivers, Registers, Hardware, Calls
<1>4. CASE PreSample \/ HwTrigger \/ HwGateDone
  <2>1. UNCHANGED <<drv, reg, setup, isRebooting, call, cb, chan>>
    BY <1>4 DEF PreSample, HwTrigger, HwGateDone
  <2>2. CASE PreSample \/ HwTrigger
    <3>1. hw' \in {[hw EXCEPT !.total = @ + 1], [hw EXCEPT !.phase = "open"]}
      BY <2>2 DEF PreSample, HwTrigger
    <3>2. hw.total + 1 \in Nat
      BY <1>2
    <3>3. hw' \in Hardware
      BY <1>1, <3>1, <3>2 DEF Hardware
    <3> QED BY <1>1, <2>1, <3>3, OutsideTypes
  <2>3. CASE HwGateDone
    <3>1. hw.total + Gate \in Nat /\ MinOf(hw.total + Gate, ArraySize) \in Nat
      BY <1>2 DEF MinOf
    <3>2. Append(hw.done, hw.total + Gate) \in Seq(Nat)
      BY <1>2, <3>1
    <3>3. hw' = IF Circular
                THEN [hw EXCEPT !.total = 0, !.done = Append(@, hw.total + Gate), !.irq = TRUE,
                                !.phase = IF Len(hw.done) + 1 >= EventsOf(reg.multi)
                                          THEN "stopped" ELSE "wait"]
                ELSE [hw EXCEPT !.total = MinOf(@ + Gate, ArraySize), !.irq = TRUE,
                                !.phase = "wait"]
      BY <2>3 DEF HwGateDone
    <3>4. hw' \in Hardware
      <4>1. CASE Circular
        BY <1>1, <3>2, <3>3, <4>1 DEF Hardware
      <4>2. CASE ~Circular
        BY <1>1, <3>1, <3>3, <4>2 DEF Hardware
      <4> QED BY <4>1, <4>2
    <3> QED BY <1>1, <2>1, <3>4, OutsideTypes
  <2> QED BY <1>4, <2>2, <2>3
<1>5. CASE vtrReboot
  <2>1. /\ reg' = [reg EXCEPT !.irqOn = FALSE] /\ UNCHANGED <<setup, drv, hw, call, cb, chan>>
        /\ isRebooting' = TRUE
    BY <1>5 DEF vtrReboot
  <2>2. reg' \in Registers
    BY <1>1, <2>1 DEF Registers
  <2> QED BY <1>1, <2>1, <2>2, OutsideTypes
<1>6. CASE UNCHANGED vars
  BY <1>1, <1>6, OutsideTypes DEF vars
<1> QED BY <1>3, <1>4, <1>5, <1>6

LEMMA AtGroup ==
    ASSUME NEW reader \in Readers, NEW n \in 0 .. Groups - 1, NEW event \in Nat
    PROVE  /\ [reader EXCEPT !.group = n] \in Readers
           /\ [reader EXCEPT !.group = n, !.event = event] \in Readers
           /\ [reader EXCEPT !.at = "post", !.group = n, !.event = event] \in Readers
<1> DEFINE Numbers == 0 .. Groups - 1
<1> HIDE DEF Numbers
<1>1. Readers = [pending : BOOLEAN, at : {"idle", "read", "post"}, group : Numbers,
                 event : Nat, arm : Int, events : {1, 2, 4, 8, 16}, pps : Nat]
  BY DEF Readers, Numbers
<1>2. n \in Numbers
  BY DEF Numbers
<1> QED BY <1>1, <1>2

LEMMA CallbackTypes ==
    ASSUME TypeOK, ReadsRing, Callback
    PROVE  TypeOK' /\ ReadsRing'
<1>1. UNCHANGED <<drv, reg, hw, setup, isRebooting, call>>
  BY DEF Callback, ReadStart, ReadGroup, Post
<1>2. Groups' = Groups /\ ChanLen' = ChanLen /\ ArraySize' = ArraySize
  BY <1>1 DEF Groups, ChanLen, ArraySize
<1>3. /\ Groups \in Nat \ {0} /\ ArraySize \in Nat
      /\ ChanLen \in [0 .. Groups - 1 -> [Halves -> Nat]] /\ ArraySize >= 16
  BY SetupTypes DEF TypeOK
<1>4. cb \in Readers /\ drv \in Drivers /\ chan \in Shown /\ RoomKept
  BY DEF TypeOK, RoomKept
<1>5. SUFFICES cb' \in Readers /\ ReadsRing' /\ chan' \in Shown /\ RoomKept'
  <2>1. Readers' = Readers /\ Shown' = Shown
    BY <1>2 DEF Readers, Shown
  <2> QED BY <1>1, <2>1 DEF TypeOK, RoomKept, Drivers, Registers, Hardware, Calls
<1>6. CASE ReadStart
  <2> DEFINE size == ArraySize \div drv.events
             pps  == IF drv.pps \in 0 .. size THEN drv.pps ELSE size
             some == \/ drv.arm = armPostTrigger
                     \/ drv.arm = armPrePostTrigger /\ pps # 0
             at     == IF some THEN "read" ELSE "post"
             events == IF drv.arm = armPrePostTrigger THEN drv.events ELSE 1
             none   == [g \in 0 .. Groups - 1 |-> [h \in Halves |-> <<>>]]
  <2>1. cb' = [pending |-> FALSE, at |-> at, group |-> 0, event |-> 0, arm |-> drv.arm,
               events |-> events, pps |-> pps]
    BY <1>6 DEF ReadStart
  <2>2. chan' \in {chan, none}
    BY <1>6 DEF ReadStart
  <2>3. drv.events \in {1, 2, 4, 8, 16} /\ drv.arm \in Int /\ drv.pps \in Int
    BY <1>4 DEF Drivers
  <2>4. size \in Nat
    BY <1>3, <2>3, EventSizes
  <2>5. pps \in Nat /\ pps <= size
    <3> HIDE DEF size
    <3> QED BY <2>3, <2>4
  <2>6. events \in {1, 2, 4, 8, 16} /\ 0 \in 0 .. Groups - 1
    BY <1>3, <2>3
  <2>7. at = "read" =>
          \/ drv.arm = armPostTrigger
          \/ drv.arm = armPrePostTrigger /\ pps <= ArraySize \div events
    BY <2>5
  <2> HIDE DEF size, pps, events, at
  <2>8. cb' \in Readers
    <3>1. at \in {"read", "post"}
      BY DEF at
    <3> QED BY <2>1, <2>3, <2>5, <2>6, <3>1 DEF Readers
  <2>9. ReadsRing'
    BY <1>2, <2>1, <2>7 DEF ReadsRing
  <2>10. none \in Shown /\ \A g \in 0 .. Groups - 1 : \A h \in Halves : Len(none[g][h]) = 0
    BY DEF Shown
  <2> HIDE DEF none
  <2>11. chan' \in Shown /\ RoomKept'
    BY <1>2, <1>3, <1>4, <2>2, <2>10 DEF RoomKept
  <2> QED BY <2>8, <2>9, <2>11
<1>7. CASE ReadGroup
  <2>1. /\ cb.at = "read" /\ cb' = NextGroup
        /\ IF cb.arm = armPostTrigger THEN readPostTrigger(cb.group)
           ELSE readPrePostTrigger(cb.group)
    BY <1>7 DEF ReadGroup
  <2>2. cb.group \in 0 .. Groups - 1 /\ cb.event \in Nat
    BY <1>4 DEF Readers
  <2>3. chan' \in Shown /\ RoomKept'
    <3>1. Shown' = Shown
      BY <1>2 DEF Shown
    <3> QED BY <1>1, <2>1, <2>2, <3>1, PostReadTypes, RingReadTypes
  <2>4. cb' \in Readers
    <3>1. CASE cb.group + 1 < Groups
      <4>1. cb' = [cb EXCEPT !.group = cb.group + 1] /\ cb.group + 1 \in 0 .. Groups - 1
        BY <1>3, <2>1, <2>2, <3>1 DEF NextGroup
      <4> QED BY <1>4, <2>2, <4>1, AtGroup
    <3>2. CASE ~(cb.group + 1 < Groups)
      <4>1. cb' \in {[cb EXCEPT !.group = 0, !.event = cb.event + 1],
                     [cb EXCEPT !.at = "post", !.group = 0, !.event = 0]}
        BY <2>1, <3>2 DEF NextGroup
      <4>2. 0 \in 0 .. Groups - 1 /\ cb.event + 1 \in Nat /\ 0 \in Nat
        BY <1>3, <2>2
      <4>3. /\ [cb EXCEPT !.group = 0, !.event = cb.event + 1] \in Readers
            /\ [cb EXCEPT !.at = "post", !.group = 0, !.event = 0] \in Readers
        BY <1>4, <4>2, AtGroup
      <4> QED BY <4>1, <4>3
    <3> QED BY <3>1, <3>2
  <2>5. cb'.arm = cb.arm /\ cb'.pps = cb.pps /\ cb'.events = cb.events
    BY <1>4, <2>1 DEF NextGroup, Readers
  <2>6. ReadsRing'
    BY <1>2, <2>1, <2>5 DEF ReadsRing
  <2> QED BY <2>3, <2>4, <2>6
<1>8. CASE Post
  <2>1. cb' = [cb EXCEPT !.at = "idle"] /\ chan' = chan
    BY <1>8 DEF Post
  <2>2. cb' \in Readers /\ cb'.at = "idle"
    BY <1>4, <2>1 DEF Readers
  <2>3. ReadsRing' /\ RoomKept'
    BY <1>2, <1>4, <2>1, <2>2 DEF ReadsRing, RoomKept
  <2> QED BY <1>4, <2>1, <2>2, <2>3
<1> QED BY <1>6, <1>7, <1>8 DEF Callback

LEMMA InitTypes == Init => TypeOK /\ ReadsRing
<1> SUFFICES ASSUME Init PROVE TypeOK /\ ReadsRing
  OBVIOUS
<1>1. /\ Groups \in Nat \ {0} /\ ChanLen \in [0 .. Groups - 1 -> [Halves -> Nat]]
  BY SetupTypes DEF Init
<1>2. drv \in Drivers
  BY DEF Init, Drivers, armDisarm, triggerSoft, triggerGate, nmultiEventChoices
<1>3. reg \in Registers /\ hw \in Hardware /\ call \in Calls
  BY DEF Init, Registers, Hardware, Calls
<1>4. cb \in Readers /\ ReadsRing
  BY <1>1 DEF Init, Readers, armDisarm, ReadsRing
<1>5. chan \in Shown /\ \A g \in 0 .. Groups - 1 : \A h \in Halves : Len(chan[g][h]) = 0
  BY DEF Init, Shown
<1>6. \A g \in 0 .. Groups - 1 : \A h \in Halves : Len(chan[g][h]) <= ChanLen[g][h]
  BY <1>1, <1>5
<1> QED BY <1>2, <1>3, <1>4, <1>5, <1>6 DEF Init, TypeOK

Typed == Inv /\ TypeOK /\ ReadsRing

LEMMA TypedKept == Typed /\ [Next]_vars => Typed'
<1> SUFFICES ASSUME Typed, [Next]_vars PROVE Typed'
  OBVIOUS
<1>1. Inv'
  BY NextKeeps DEF Typed
<1>2. CASE \E r \in Records : \E v \in Values[r] : Put(r, v)
  BY <1>1, <1>2, PutTypes DEF Typed
<1>3. CASE MethodStep
  BY <1>1, <1>3, MethodStepTypes DEF Typed
<1>4. CASE IH \/ PreSample \/ HwTrigger \/ HwGateDone \/ vtrReboot \/ UNCHANGED vars
  BY <1>1, <1>4, EnvironmentTypes DEF Typed
<1>5. CASE Callback
  BY <1>1, <1>5, CallbackTypes DEF Typed
<1> QED BY <1>2, <1>3, <1>4, <1>5 DEF Next

LEMMA InitTyped == Init => Typed
BY InitInv, InitTypes DEF Typed

-----------------------------------------------------------------------------
(* The callback task and an operator who waits *)

CbBusy == cb.pending \/ cb.at # "idle"

\* A digitizer that is not armed does not record.
Waits == hw.phase # "wait" => isArmed

\* Nothing but a put changes the choice of trigger.
OnlySoft == SoftTriggered => drv.trigger = triggerSoft /\ reg.csr2 \cap TriggerBits = {}

\* Nothing happens to a card while it is being prepared.  Once the driver has
\* set its arm, an external trigger may come between the two writes that arm the
\* card in pre/post-trigger mode, but none before the only write of post-trigger
\* mode.
Alone ==
    OperatorWaits =>
        /\ Has(call.todo, "start") => ~isArmed /\ ~hw.irq /\ ~CbBusy
        /\ Has(call.todo, "csr2") /\ (SoftTriggered \/ drv.arm # armPrePostTrigger) =>
              /\ hw.phase = "wait" /\ ~hw.irq /\ ~CbBusy
              /\ drv.arm # armPrePostTrigger => ~isArmed

\* A set that is being read, or going to be, is read of a card at rest: no
\* method is left that could arm it.
AtRest == ~isArmed /\ ~hw.irq /\ ~Has(call.todo, "start") /\ ~Has(call.todo, "csr2")
Posting ==
    \/ SoftTriggered /\ CbBusy
    \/ cb.at # "idle" /\ cb.arm = armPostTrigger
    \/ cb.pending /\ drv.arm = armPostTrigger
ReadsAlone == OperatorWaits /\ Posting => AtRest

Waiting == Typed /\ Waits /\ OnlySoft /\ Alone /\ ReadsAlone

LEMMA WaitingGives == Waiting => NoReadWhileArmed
<1> SUFFICES ASSUME Waiting, OperatorWaits, cb.at \in {"read", "post"},
                    SoftTriggered \/ cb.arm = armPostTrigger
             PROVE  ~isArmed
  BY DEF NoReadWhileArmed, DisarmedWhenRead
<1>1. Posting
  BY DEF Posting, CbBusy
<1> QED BY <1>1 DEF Waiting, ReadsAlone, AtRest

LEMMA InitWaiting == Init => Waiting
<1> SUFFICES ASSUME Init PROVE Waiting
  OBVIOUS
<1>1. Len(call.todo) = 0 /\ reg.csr2 = {} /\ ~hw.irq /\ hw.phase = "wait"
  BY DEF Init
<1>2. \A what : ~Has(call.todo, what)
  BY <1>1 DEF Has
<1>3. Waits /\ OnlySoft
  BY <1>1 DEF Init, Waits, OnlySoft
<1>4. Alone /\ ReadsAlone
  BY <1>1, <1>2 DEF Alone, ReadsAlone, AtRest, isArmed
<1> QED BY <1>3, <1>4, InitTyped DEF Waiting

\* What a put may change.
LEMMA PutShape ==
    ASSUME Typed, NEW r \in Records, NEW v \in Values[r], Put(r, v)
    PROVE  /\ UNCHANGED <<setup, cb>> /\ reg'.csr2 = reg.csr2
           /\ drv'.arm \in {drv.arm, armDisarm}
           /\ SoftTriggered => drv'.trigger \in {drv.trigger, triggerSoft}
           /\ hw'.irq = hw.irq
           /\ hw'.phase = hw.phase \/ (isArmed /\ call'.todo = <<>>)
           /\ \/ ~OperatorWaits \/ Quiet
              \/ ~Has(call'.todo, "start") /\ ~Has(call'.todo, "csr2")
<1>1. drv \in Drivers /\ reg \in Registers /\ hw \in Hardware
  BY DEF Typed, TypeOK
<1>2. UNCHANGED <<setup, cb>> /\ Idle /\ Allowed(r, v)
  BY DEF Put
<1>3. reg'.csr2 = reg.csr2
  <2>1. reg' = reg \/ \E x : reg' = [reg EXCEPT !.clock = x]
    BY DEF Put, vtrclock, vtrtrigger, vtrmultiEvent, vtrnumberPTS, vtrnumberPPS, vtrnumberPTE,
           Setting, vtrarm, vtrsoftTrigger, Refuse
  <2> QED BY <1>1, <2>1 DEF Registers
<1>4. drv'.arm \in {drv.arm, armDisarm}
  <2>1. \/ drv' = drv \/ drv' = [drv EXCEPT !.arm = armDisarm]
        \/ \E x : drv' = [drv EXCEPT !.trigger = x]
        \/ \E x, y : drv' = [drv EXCEPT !.ind = x, !.events = y]
        \/ \E x : \E f \in {"pts", "pps", "pte"} : drv' = [drv EXCEPT ![f] = x]
    BY DEF Put, vtrclock, vtrtrigger, vtrmultiEvent, vtrnumberPTS, vtrnumberPPS, vtrnumberPTE,
           Setting, vtrarm, vtrsoftTrigger, Refuse
  <2> QED BY <1>1, <2>1 DEF Drivers
<1>5. SoftTriggered => drv'.trigger \in {drv.trigger, triggerSoft}
  <2> SUFFICES ASSUME SoftTriggered PROVE drv'.trigger \in {drv.trigger, triggerSoft}
    OBVIOUS
  <2>1. CASE r = "trigger"
    <3>1. v = triggerSoft
      BY <2>1 DEF SoftTriggered
    <3>2. drv' = drv \/ drv' = [drv EXCEPT !.trigger = v]
      BY <2>1 DEF Put, vtrtrigger, Refuse
    <3> QED BY <1>1, <3>1, <3>2 DEF Drivers
  <2>2. CASE r # "trigger"
    <3>1. \/ drv' = drv \/ drv' = [drv EXCEPT !.arm = armDisarm]
          \/ \E x, y : drv' = [drv EXCEPT !.ind = x, !.events = y]
          \/ \E x : \E f \in {"pts", "pps", "pte"} : drv' = [drv EXCEPT ![f] = x]
      BY <2>2 DEF Put, vtrclock, vtrmultiEvent, vtrnumberPTS, vtrnumberPPS, vtrnumberPTE,
             Setting, vtrarm, vtrsoftTrigger, Refuse
    <3> QED BY <1>1, <3>1 DEF Drivers
  <2> QED BY <2>1, <2>2
<1>6. hw'.irq = hw.irq /\ (hw'.phase = hw.phase \/ (isArmed /\ call'.todo = <<>>))
  <2>1. CASE r = "softTrigger"
    <3>1. hw' = IF CanTrigger /\ reg.csr2 \cap TriggerBits = {}
                THEN [hw EXCEPT !.phase = "open"] ELSE hw
      BY <2>1 DEF Put, vtrsoftTrigger
    <3>2. call'.todo = <<>>
      BY <2>1 DEF Put, vtrsoftTrigger, Enter
    <3> QED BY <1>1, <3>1, <3>2 DEF Hardware, CanTrigger
  <2>2. CASE r # "softTrigger"
    BY <2>2 DEF Put, vtrclock, vtrtrigger, vtrmultiEvent, vtrnumberPTS, vtrnumberPPS,
                vtrnumberPTE, Setting, vtrarm, Refuse
  <2> QED BY <2>1, <2>2
<1>7. \/ ~OperatorWaits \/ Quiet
      \/ ~Has(call'.todo, "start") /\ ~Has(call'.todo, "csr2")
  <2>1. CASE r = "softTrigger"
    <3>1. call'.todo = <<>>
      BY <2>1 DEF Put, vtrsoftTrigger, Enter
    <3> QED BY <3>1 DEF Has
  <2>2. CASE r = "arm" /\ v = armDisarm
    <3>1. vtrarm(armDisarm)
      BY <2>2 DEF Put
    <3>2. call'.todo = <<Step("disarm", {}, 0), Step("resetIRQ", {}, 0)>> \o <<>>
      BY <3>1 DEF vtrarm, Enter
    <3> DEFINE d == Step("disarm", {}, 0)
               e == Step("resetIRQ", {}, 0)
    <3>3. d.do = "disarm" /\ e.do = "resetIRQ"
      BY DEF Step
    <3> HIDE DEF d, e
    <3>4. call'.todo = <<d, e>>
      <4>1. <<d, e>> \in Seq({d, e})
        OBVIOUS
      <4> QED BY <3>2, <4>1, ConcatEmptySeq DEF d, e
    <3>5. \A i \in 1 .. Len(call'.todo) : call'.todo[i].do \in {"disarm", "resetIRQ"}
      BY <3>3, <3>4
    <3> QED BY <3>5 DEF Has
  <2> QED BY <1>2, <2>1, <2>2 DEF Allowed
<1> QED BY <1>2, <1>3, <1>4, <1>5, <1>6, <1>7

LEMMA PutWaits ==
    ASSUME Waiting, NEW r \in Records, NEW v \in Values[r], Put(r, v)
    PROVE  Waits' /\ OnlySoft' /\ Alone' /\ ReadsAlone'
<1> DEFINE todo == call'.todo
<1>1. /\ UNCHANGED <<setup, cb>> /\ reg'.csr2 = reg.csr2
      /\ drv'.arm \in {drv.arm, armDisarm}
      /\ SoftTriggered => drv'.trigger \in {drv.trigger, triggerSoft}
      /\ hw'.irq = hw.irq
      /\ hw'.phase = hw.phase \/ (isArmed /\ todo = <<>>)
      /\ \/ ~OperatorWaits \/ Quiet
         \/ ~Has(todo, "start") /\ ~Has(todo, "csr2")
  BY PutShape DEF Waiting
<1>2. /\ isArmed' = isArmed /\ OperatorWaits' = OperatorWaits /\ CbBusy' = CbBusy
      /\ SoftTriggered' = SoftTriggered
  BY <1>1 DEF isArmed, OperatorWaits, CbBusy, SoftTriggered, Values
<1>3. Waits'
  BY <1>1, <1>2 DEF Waiting, Waits
<1>4. OnlySoft'
  BY <1>1, <1>2 DEF Waiting, OnlySoft
<1>5. Quiet => ~isArmed /\ ~hw.irq /\ ~CbBusy /\ hw.phase = "wait"
  BY DEF Waiting, Waits, Quiet, CbBusy
<1>6. Alone'
  <2> SUFFICES ASSUME OperatorWaits, Has(todo, "start") \/ Has(todo, "csr2")
               PROVE  ~isArmed /\ ~hw'.irq /\ ~CbBusy /\ hw'.phase = "wait"
    BY <1>2 DEF Alone
  <2> QED BY <1>1, <1>5
<1>7. ReadsAlone'
  <2> SUFFICES ASSUME OperatorWaits, Posting' PROVE AtRest'
    BY <1>2 DEF ReadsAlone
  <2>1. Posting
    BY <1>1, <1>2 DEF Posting, armPostTrigger, armDisarm
  <2>2. CbBusy /\ AtRest
    BY <2>1 DEF Posting, CbBusy, Waiting, ReadsAlone
  <2> QED BY <1>1, <1>2, <1>5, <2>2 DEF AtRest
<1> QED BY <1>3, <1>4, <1>6, <1>7

\* What a step of a method may change.
LEMMA StepShape ==
    ASSUME Waiting, MethodStep
    PROVE  LET s == call.todo
               t == call'.todo IN
           /\ UNCHANGED <<setup, cb>> /\ drv'.trigger = drv.trigger
           /\ \A kind : Has(t, kind) => Has(s, kind)
           /\ (hw'.irq => hw.irq)
           /\ isArmed \/ isArmed' \/ hw'.phase \in {hw.phase, "wait"}
           /\ isArmed /\ ~isArmed' => hw'.phase = "wait"
           /\ hw.phase = "wait" => hw'.phase = "wait"
           /\ SoftTriggered => reg'.csr2 \cap TriggerBits = {}
           /\ drv'.arm = drv.arm \/ Has(s, "start")
           /\ isArmed' => /\ Has(s, "csr2") /\ ~Has(s, "start")
                          /\ Has(t, "csr2") => drv'.arm = armPrePostTrigger
<1> DEFINE s == call.todo
           t == call'.todo
<1>1. Inv /\ drv \in Drivers /\ reg \in Registers /\ hw \in Hardware
  BY DEF Waiting, Typed, TypeOK
<1>2. PICK what \in {"disarm", "resetIRQ", "start", "enableIRQ", "multi", "csr2"} : Doing(what)
  BY DEF MethodStep, Disarm, ResetIRQ, Start, EnableIRQ, WriteMulti, WriteCSR2
<1>3. /\ s # <<>> /\ Head(s).do = what /\ Head(s) = s[1] /\ 1 \in 1 .. Len(s)
      /\ \A i \in 1 .. Len(t) :
            /\ i + 1 \in 1 .. Len(s) /\ t[i] = s[i + 1]
            /\ Before(Head(s), t[i]) /\ Agree(Head(s), t[i])
      /\ \A kind : Has(t, kind) => Has(s, kind)
      /\ Has(s, what)
      /\ ~Arming(Head(s)) /\ what # "disarm" => ~isArmed
  BY <1>1, <1>2, DoingFacts
<1>4. UNCHANGED <<setup, cb>>
  BY <1>2 DEF Doing
<1>5. /\ Disarm => what = "disarm"
      /\ ResetIRQ => what = "resetIRQ"
      /\ EnableIRQ => what = "enableIRQ"
  BY <1>3 DEF Disarm, ResetIRQ, EnableIRQ, Doing
<1>6. CASE WriteCSR2
  <2>1. /\ reg' = [reg EXCEPT !.csr2 = Head(s).bits] /\ UNCHANGED <<drv, hw>>
        /\ what = "csr2"
    BY <1>3, <1>6 DEF WriteCSR2, Doing
  <2>2. reg'.csr2 = Head(s).bits
    BY <1>1, <2>1 DEF Registers
  <2>3. Arming(Head(s)) <=> isArmed'
    BY <1>3, <2>1, <2>2 DEF Arming, isArmed
  <2>4. isArmed => isArmed'
    BY <1>3, <2>1, <2>3
  <2>5. SoftTriggered => reg'.csr2 \cap TriggerBits = {}
    <3>1. ForTrigger(s, TriggerBit(drv.trigger))
      BY <1>1 DEF Inv, TriggerKept
    <3>2. reg'.csr2 \cap TriggerBits = TriggerBit(drv.trigger)
      BY <1>3, <2>1, <2>2, <3>1 DEF ForTrigger
    <3>3. TriggerBit(triggerSoft) = {}
      BY DEF TriggerBit, triggerSoft, triggerExt, triggerGate
    <3> QED BY <3>2, <3>3 DEF Waiting, OnlySoft
  <2>6. \A i \in 1 .. Len(t) : t[i].do = "csr2"
    BY <1>3, <2>1 DEF Before, Rank
  <2>7. ~Has(t, "start") /\ ~Has(s, "start")
    <3>1. ~Has(t, "start")
      BY <2>6 DEF Has
    <3>2. Has(s, "start") => Has(t, "start") \/ what = "start"
      BY <1>1, <1>2, DoingFacts
    <3> QED BY <2>1, <3>1, <3>2
  <2>8. ~Has(s, "disarm")
    BY <1>1, <1>2, <2>1, DoingFacts
  <2>9. isArmed' /\ Has(t, "csr2") => drv.arm = armPrePostTrigger
    <3> SUFFICES ASSUME isArmed', Has(t, "csr2") PROVE drv.arm = armPrePostTrigger
      OBVIOUS
    <3>1. drv.arm = Head(s).n
      BY <1>1, <1>3, <2>3, <2>7, <2>8 DEF Inv, ModeSet, Started
    <3>2. PICK i \in 1 .. Len(t) : t[i].do = "csr2"
      BY DEF Has
    <3>3. t[i].n = armPrePostTrigger /\ t[i].n = Head(s).n
      BY <1>3, <2>1, <3>2 DEF Before, Agree
    <3> QED BY <3>1, <3>3
  <2> QED BY <1>3, <1>4, <2>1, <2>4, <2>5, <2>7, <2>9
<1>7. CASE ~WriteCSR2
  <2>1. what # "csr2"
    BY <1>3, <1>7 DEF MethodStep, Disarm, ResetIRQ, Start, EnableIRQ, WriteMulti, Doing
  <2>2. ~isArmed'
    <3>1. CASE Disarm
      <4>1. reg'.csr2 = reg.csr2 \ {"arm"}
        BY <1>1, <3>1 DEF Disarm, Registers
      <4> QED BY <4>1 DEF isArmed
    <3>2. CASE Start
      BY <1>1, <3>2, StartKeeps
    <3>3. CASE ResetIRQ \/ EnableIRQ \/ WriteMulti
      <4>1. what # "disarm"
        BY <1>3, <3>3 DEF ResetIRQ, EnableIRQ, WriteMulti, Doing
      <4>2. reg'.csr2 = reg.csr2
        BY <1>1, <3>3 DEF ResetIRQ, EnableIRQ, WriteMulti, Registers
      <4> QED BY <1>3, <2>1, <4>1, <4>2 DEF Arming, isArmed
    <3> QED BY <1>7, <3>1, <3>2, <3>3 DEF MethodStep
  <2>3. drv'.trigger = drv.trigger /\ (drv'.arm = drv.arm \/ Has(s, "start"))
    <3>1. CASE Start
      <4>1. what = "start"
        BY <1>3, <3>1 DEF Start, Doing
      <4>2. drv'.trigger = drv.trigger
        BY <1>1, <3>1 DEF Start, Drivers
      <4> QED BY <1>3, <4>1, <4>2
    <3>2. CASE ~Start
      BY <1>7, <3>2 DEF MethodStep, Disarm, ResetIRQ, EnableIRQ, WriteMulti
    <3> QED BY <3>1, <3>2
  <2>4. (hw'.irq => hw.irq) /\ (Disarm => hw'.phase = "wait") /\ hw'.phase \in {hw.phase, "wait"}
    <3>1. CASE Disarm
      BY <1>1, <3>1 DEF Disarm, Disarmed, Hardware
    <3>2. CASE ResetIRQ \/ Start
      <4>1. hw'.phase = hw.phase /\ (hw'.irq => hw.irq) /\ ~Disarm
        BY <1>1, <3>2 DEF ResetIRQ, Start, Hardware, Disarm, Doing
      <4> QED BY <4>1
    <3>3. CASE EnableIRQ \/ WriteMulti
      <4>1. ~Disarm /\ hw' = hw
        BY <3>3 DEF EnableIRQ, WriteMulti, Disarm, Doing
      <4> QED BY <4>1
    <3> QED BY <1>7, <3>1, <3>2, <3>3 DEF MethodStep
  <2>5. isArmed => Disarm
    <3>1. what = "disarm" => Disarm
      BY <1>3, <1>7 DEF MethodStep, ResetIRQ, EnableIRQ, WriteMulti, Start, Doing
    <3> QED BY <1>3, <2>1, <3>1 DEF Arming
  <2>6. SoftTriggered => reg'.csr2 \cap TriggerBits = {}
    <3>1. reg'.csr2 \subseteq reg.csr2
      BY <1>1, <1>7 DEF MethodStep, Disarm, ResetIRQ, EnableIRQ, WriteMulti, Start, Registers
    <3> QED BY <3>1 DEF Waiting, OnlySoft
  <2> QED BY <1>3, <1>4, <2>2, <2>3, <2>4, <2>5, <2>6
<1> QED BY <1>6, <1>7

LEMMA StepWaits ==
    ASSUME Waiting, MethodStep
    PROVE  Waits' /\ OnlySoft' /\ Alone' /\ ReadsAlone'
<1> DEFINE s == call.todo
           t == call'.todo
<1>1. /\ UNCHANGED <<setup, cb>> /\ drv'.trigger = drv.trigger
      /\ \A kind : Has(t, kind) => Has(s, kind)
      /\ (hw'.irq => hw.irq)
      /\ isArmed \/ isArmed' \/ hw'.phase \in {hw.phase, "wait"}
      /\ isArmed /\ ~isArmed' => hw'.phase = "wait"
      /\ hw.phase = "wait" => hw'.phase = "wait"
      /\ SoftTriggered => reg'.csr2 \cap TriggerBits = {}
      /\ drv'.arm = drv.arm \/ Has(s, "start")
      /\ isArmed' => /\ Has(s, "csr2") /\ ~Has(s, "start")
                     /\ Has(t, "csr2") => drv'.arm = armPrePostTrigger
  BY StepShape
<1>2. /\ OperatorWaits' = OperatorWaits /\ CbBusy' = CbBusy
      /\ SoftTriggered' = SoftTriggered
  BY <1>1 DEF OperatorWaits, CbBusy, SoftTriggered, Values
<1>3. Waits'
  BY <1>1 DEF Waiting, Waits
<1>4. OnlySoft'
  BY <1>1, <1>2 DEF Waiting, OnlySoft
<1>5. Alone'
  <2> SUFFICES ASSUME OperatorWaits
               PROVE  /\ Has(t, "start") => ~isArmed' /\ ~hw'.irq /\ ~CbBusy
                      /\ Has(t, "csr2") /\ (SoftTriggered \/ drv'.arm # armPrePostTrigger) =>
                            /\ hw'.phase = "wait" /\ ~hw'.irq /\ ~CbBusy
                            /\ drv'.arm # armPrePostTrigger => ~isArmed'
    BY <1>2 DEF Alone
  <2>1. Has(s, "start") => ~isArmed' /\ ~hw'.irq /\ ~CbBusy /\ hw'.phase = "wait"
    BY <1>1 DEF Waiting, Alone, Waits
  <2>2. ASSUME Has(t, "csr2"), SoftTriggered \/ drv'.arm # armPrePostTrigger, ~Has(s, "start")
        PROVE  /\ hw'.phase = "wait" /\ ~hw'.irq /\ ~CbBusy
               /\ drv'.arm # armPrePostTrigger => ~isArmed'
    BY <1>1, <2>2 DEF Waiting, Alone
  <2> QED BY <1>1, <2>1, <2>2
<1>6. ReadsAlone'
  <2> SUFFICES ASSUME OperatorWaits, Posting' PROVE AtRest'
    BY <1>2 DEF ReadsAlone
  <2>1. ~Has(s, "start")
    BY <1>2 DEF Waiting, Alone, Posting, CbBusy
  <2>2. Posting
    BY <1>1, <1>2, <2>1 DEF Posting
  <2>3. AtRest
    BY <2>2 DEF Waiting, ReadsAlone
  <2> QED BY <1>1, <2>3 DEF AtRest
<1> QED BY <1>3, <1>4, <1>5, <1>6

\* The callback task, the digitizer before it has recorded, the exit hook.
LEMMA CalmWaits ==
    ASSUME Waiting, UNCHANGED <<setup, call>>, drv' = drv, reg'.csr2 = reg.csr2,
           hw'.irq = hw.irq,
           hw'.phase = hw.phase \/ (isArmed /\ reg.csr2 \cap TriggerBits # {}),
           CbBusy' => CbBusy, Posting' => Posting
    PROVE  Waits' /\ OnlySoft' /\ Alone' /\ ReadsAlone'
<1>1. /\ OperatorWaits' = OperatorWaits /\ SoftTriggered' = SoftTriggered /\ isArmed' = isArmed
  BY DEF OperatorWaits, SoftTriggered, Values, isArmed
<1>2. Waits'
  BY <1>1 DEF Waiting, Waits
<1>3. OnlySoft'
  BY <1>1 DEF Waiting, OnlySoft
<1>4. Alone'
  <2> SUFFICES ASSUME OperatorWaits
               PROVE  /\ Has(call.todo, "start") => ~isArmed /\ ~hw.irq /\ ~CbBusy
                      /\ Has(call.todo, "csr2") /\ (SoftTriggered \/ drv.arm # armPrePostTrigger) =>
                            /\ hw'.phase = "wait" /\ ~hw.irq /\ ~CbBusy
                            /\ drv.arm # armPrePostTrigger => ~isArmed
    BY <1>1 DEF Alone
  <2> QED BY DEF Waiting, Alone, OnlySoft
<1>5. ReadsAlone'
  BY <1>1 DEF Waiting, ReadsAlone, AtRest
<1> QED BY <1>2, <1>3, <1>4, <1>5

LEMMA InterruptWaits ==
    ASSUME Waiting, IH
    PROVE  Waits' /\ OnlySoft' /\ Alone' /\ ReadsAlone'
<1>1. drv \in Drivers /\ reg \in Registers /\ hw \in Hardware /\ cb \in Readers
  BY DEF Waiting, Typed, TypeOK
<1>2. UNCHANGED <<setup, call>> /\ hw.irq
  BY DEF IH, UnwantedInterrupt, IgnoreInterrupt, CompleteInterrupt, Interrupt
<1>3. /\ OperatorWaits' = OperatorWaits /\ SoftTriggered' = SoftTriggered
  BY <1>2 DEF OperatorWaits, SoftTriggered, Values
<1>4. drv'.arm = drv.arm /\ drv'.trigger = drv.trigger
  <2>1. drv' = drv \/ CountTrigger
    BY DEF IH, UnwantedInterrupt, IgnoreInterrupt, CompleteInterrupt
  <2> QED BY <1>1, <2>1 DEF CountTrigger, Drivers
<1>5. /\ ~hw'.irq
      /\ \/ reg' = reg /\ hw'.phase = hw.phase /\ cb' = cb
         \/ /\ reg'.csr2 = reg.csr2 \ {"arm"} /\ hw'.phase = "wait"
            /\ cb' = cb \/ cb' = [cb EXCEPT !.pending = TRUE]
  <2>1. CASE IgnoreInterrupt
    BY <1>1, <2>1 DEF IgnoreInterrupt, Hardware
  <2>2. CASE UnwantedInterrupt \/ CompleteInterrupt
    <3>1. WriteDisarm /\ (cb' = cb \/ cb' = [cb EXCEPT !.pending = TRUE])
      BY <2>2 DEF UnwantedInterrupt, CompleteInterrupt
    <3> QED BY <1>1, <3>1 DEF WriteDisarm, Disarmed, Registers, Hardware
  <2> QED BY <2>1, <2>2 DEF IH
<1>6. isArmed' => isArmed /\ reg' = reg /\ cb' = cb
  BY <1>5 DEF isArmed
<1>7. Waits'
  <2>1. CASE reg' = reg /\ hw'.phase = hw.phase
    BY <2>1 DEF Waiting, Waits, isArmed
  <2>2. CASE hw'.phase = "wait"
    BY <2>2 DEF Waits
  <2> QED BY <1>5, <2>1, <2>2
<1>8. OnlySoft'
  BY <1>3, <1>4, <1>5 DEF Waiting, OnlySoft
<1>9. OperatorWaits =>
        /\ ~Has(call.todo, "start") /\ ~Posting
        /\ SoftTriggered \/ drv.arm # armPrePostTrigger => ~Has(call.todo, "csr2")
  BY <1>2 DEF Waiting, Alone, ReadsAlone, AtRest
<1>10. Alone'
  BY <1>2, <1>3, <1>4, <1>9 DEF Alone
<1>11. ReadsAlone'
  <2> SUFFICES ASSUME OperatorWaits, Posting' PROVE AtRest'
    BY <1>3 DEF ReadsAlone
  <2>1. cb' = [cb EXCEPT !.pending = TRUE] /\ ~isArmed'
    <3>1. cb' # cb
      BY <1>3, <1>4, <1>9 DEF Posting, CbBusy
    <3> QED BY <1>5, <1>6, <3>1
  <2>2. cb'.at = cb.at /\ cb'.arm = cb.arm
    BY <1>1, <2>1 DEF Readers
  <2>3. SoftTriggered \/ drv.arm = armPostTrigger
    BY <1>3, <1>4, <1>9, <2>2 DEF Posting
  <2>4. ~Has(call.todo, "csr2")
    BY <1>9, <2>3 DEF armPostTrigger, armPrePostTrigger
  <2> QED BY <1>2, <1>5, <1>9, <2>1, <2>4 DEF AtRest
<1> QED BY <1>7, <1>8, <1>10, <1>11

LEMMA OtherWaits ==
    ASSUME Waiting,
           Callback \/ PreSample \/ HwTrigger \/ HwGateDone \/ vtrReboot \/ UNCHANGED vars
    PROVE  Waits' /\ OnlySoft' /\ Alone' /\ ReadsAlone'
<1>1. drv \in Drivers /\ reg \in Registers /\ hw \in Hardware /\ cb \in Readers
  BY DEF Waiting, Typed, TypeOK
<1>2. UNCHANGED <<setup, call, drv>>
  BY DEF Callback, ReadStart, ReadGroup, Post, PreSample, HwTrigger, HwGateDone, vtrReboot, vars
<1>3. SoftTriggered' = SoftTriggered
  BY <1>2 DEF SoftTriggered, Values
<1>4. CASE Callback
  <2>1. UNCHANGED <<reg, hw>>
    BY <1>4 DEF Callback, ReadStart, ReadGroup, Post
  <2>2. (CbBusy' => CbBusy) /\ (Posting' => Posting)
    <3>1. CASE ReadStart
      <4>1. cb.pending /\ ~cb'.pending /\ cb'.arm = drv.arm
        BY <3>1 DEF ReadStart
      <4> QED BY <1>2, <1>3, <4>1 DEF Posting, CbBusy
    <3>2. CASE ReadGroup \/ Post
      <4>1. cb.at # "idle" /\ cb'.pending = cb.pending /\ cb'.arm = cb.arm
        BY <1>1, <3>2 DEF ReadGroup, Post, NextGroup, Readers
      <4> QED BY <1>2, <1>3, <4>1 DEF Posting, CbBusy
    <3> QED BY <1>4, <3>1, <3>2 DEF Callback
  <2> QED BY <1>2, <2>1, <2>2, CalmWaits
<1>5. CASE PreSample \/ HwTrigger \/ vtrReboot \/ UNCHANGED vars
  <2>1. cb' = cb /\ reg'.csr2 = reg.csr2
    BY <1>1, <1>5 DEF PreSample, HwTrigger, vtrReboot, vars, Registers
  <2>2. hw'.irq = hw.irq /\ (hw'.phase = hw.phase \/ (isArmed /\ reg.csr2 \cap TriggerBits # {}))
    BY <1>1, <1>5 DEF PreSample, HwTrigger, vtrReboot, vars, Hardware, CanTrigger
  <2>3. (CbBusy' => CbBusy) /\ (Posting' => Posting)
    BY <1>2, <1>3, <2>1 DEF Posting, CbBusy
  <2> QED BY <1>2, <2>1, <2>2, <2>3, CalmWaits
<1>6. CASE HwGateDone
  <2>1. UNCHANGED <<reg, cb>> /\ hw.phase = "open"
    BY <1>6 DEF HwGateDone
  <2>2. isArmed /\ isArmed' = isArmed /\ OperatorWaits' = OperatorWaits
    BY <1>2, <2>1 DEF Waiting, Waits, isArmed, OperatorWaits
  <2>3. Waits' /\ OnlySoft'
    BY <1>2, <1>3, <2>1, <2>2 DEF Waits, Waiting, OnlySoft
  <2>4. Alone' /\ ReadsAlone'
    BY <1>2, <1>3, <2>1, <2>2 DEF Alone, ReadsAlone, AtRest, Waiting, Posting, CbBusy
  <2> QED BY <2>3, <2>4
<1> QED BY <1>4, <1>5, <1>6

LEMMA WaitingKept == Waiting /\ [Next]_vars => Waiting'
<1> SUFFICES ASSUME Waiting, [Next]_vars PROVE Waiting'
  OBVIOUS
<1>1. Typed'
  BY TypedKept DEF Waiting
<1>2. CASE \E r \in Records : \E v \in Values[r] : Put(r, v)
  BY <1>1, <1>2, PutWaits DEF Waiting
<1>3. CASE MethodStep
  BY <1>1, <1>3, StepWaits DEF Waiting
<1>4. CASE IH
  BY <1>1, <1>4, InterruptWaits DEF Waiting
<1>5. CASE Callback \/ PreSample \/ HwTrigger \/ HwGateDone \/ vtrReboot \/ UNCHANGED vars
  BY <1>1, <1>5, OtherWaits DEF Waiting
<1> QED BY <1>2, <1>3, <1>4, <1>5 DEF Next

-----------------------------------------------------------------------------
(* What a scan may rely on, if the operator waits *)

\* A method that arms or disarms has forgotten the mode before it begins.
Called == Has(call.todo, "disarm") \/ Has(call.todo, "start") => drv.arm = armDisarm

\* MultiPrePost is written only on the way to CSR2.
MultiFirst == Has(call.todo, "multi") => Has(call.todo, "csr2")

\* A set is recorded with the number of samples that the driver believes in.
GateSet == OperatorWaits /\ drv.arm # armDisarm /\ (hw.irq \/ CbBusy) => hw.gate = drv.pts

\* Since a post-trigger set was armed, at least as many gates have been recorded
\* as interrupts were taken or are pending, unless the memory is full.
Taken == drv.soFar + (IF hw.irq THEN 1 ELSE 0)
Counted == OperatorWaits /\ drv.arm = armPostTrigger =>
    hw.total <= ArraySize /\ hw.total >= MinOf(Gate * Taken, ArraySize)

\* The callback is asked for after as many as numberPTE.
Enough == OperatorWaits /\ drv.arm = armPostTrigger /\ CbBusy => drv.soFar >= drv.pte

\* The card has room for another event as long as it is armed.  Nothing has been
\* recorded while vtrarm is at work.
Ringing == OperatorWaits /\ SoftTriggered /\ drv.arm = armPrePostTrigger
Preparing(s) == \E i \in 1 .. Len(s) : Arming(s[i]) \/ s[i].do = "multi"
EventsCounted == Ringing =>
    /\ Preparing(call.todo) => hw.done = <<>>
    /\ Len(hw.done) <= EventsOf(reg.multi)
    /\ isArmed /\ hw.phase # "stopped" => Len(hw.done) < EventsOf(reg.multi)
    /\ hw.irq => hw.done # <<>>

\* The callback is asked for when all events have been recorded, if the driver
\* and the card agree how many they are.
Finished == Ringing =>
    /\ cb.pending /\ drv.events = EventsOf(reg.multi) => Len(hw.done) >= drv.events
    /\ cb.at # "idle" /\ cb.arm = drv.arm /\ cb.events = EventsOf(reg.multi) =>
          Len(hw.done) >= cb.events

Recorded == Called /\ MultiFirst /\ GateSet /\ Counted /\ Enough /\ EventsCounted /\ Finished

LEMMA InitRecorded == Init => Recorded
<1> SUFFICES ASSUME Init PROVE Recorded
  OBVIOUS
<1>1. Len(call.todo) = 0 /\ drv.arm = armDisarm
  BY DEF Init
<1>2. \A what : ~Has(call.todo, what)
  BY <1>1 DEF Has
<1>3. armDisarm # armPostTrigger /\ armDisarm # armPrePostTrigger
  BY DEF armDisarm, armPostTrigger, armPrePostTrigger
<1> QED
  BY <1>1, <1>2, <1>3
     DEF Recorded, Called, MultiFirst, GateSet, Counted, Enough, EventsCounted, Finished, Ringing

\* What a put may change of what a scan relies on.
LEMMA PutData ==
    ASSUME Typed, NEW r \in Records, NEW v \in Values[r], Put(r, v)
    PROVE  /\ UNCHANGED chan /\ reg'.multi = reg.multi
           /\ hw'.total = hw.total /\ hw'.done = hw.done /\ hw'.gate = hw.gate
           /\ hw'.phase # "stopped" => hw.phase # "stopped"
           /\ drv'.soFar = drv.soFar
           /\ \/ ~OperatorWaits \/ Quiet
              \/ /\ drv'.pts = drv.pts /\ drv'.pps = drv.pps /\ drv'.pte = drv.pte
                 /\ drv'.events = drv.events
           /\ \/ /\ drv'.arm = armDisarm
                 /\ Has(call'.todo, "multi") => Has(call'.todo, "csr2")
              \/ /\ drv'.arm = drv.arm
                 /\ \A i \in 1 .. Len(call'.todo) :
                       call'.todo[i].do = "csr2" /\ ~Arming(call'.todo[i])
<1>1. drv \in Drivers /\ reg \in Registers /\ hw \in Hardware /\ Inv
  BY DEF Typed, TypeOK
<1>2. UNCHANGED <<setup, cb, chan>> /\ Idle /\ Allowed(r, v)
  BY DEF Put
<1>3. v \in Int /\ drv.ind \in EventChoices /\ reg.csr2 \in SUBSET Bits
  BY <1>1, Vtr812Assumption DEF Inv, Fields, Values
<1>4. reg'.multi = reg.multi
  <2>1. reg' = reg \/ \E x : reg' = [reg EXCEPT !.clock = x]
    BY DEF Put, vtrclock, vtrtrigger, vtrmultiEvent, vtrnumberPTS, vtrnumberPPS, vtrnumberPTE,
           Setting, vtrarm, vtrsoftTrigger, Refuse
  <2> QED BY <1>1, <2>1 DEF Registers
<1>5. /\ hw'.total = hw.total /\ hw'.done = hw.done /\ hw'.gate = hw.gate
      /\ hw'.phase # "stopped" => hw.phase # "stopped"
  <2>1. hw' = hw \/ (hw' = [hw EXCEPT !.phase = "open"] /\ hw.phase = "wait")
    BY DEF Put, vtrclock, vtrtrigger, vtrmultiEvent, vtrnumberPTS, vtrnumberPPS, vtrnumberPTE,
           Setting, vtrarm, vtrsoftTrigger, Refuse, CanTrigger
  <2> QED BY <1>1, <2>1 DEF Hardware
<1>6. \/ drv' = drv \/ drv' = [drv EXCEPT !.arm = armDisarm]
      \/ \E x : drv' = [drv EXCEPT !.trigger = x]
      \/ /\ r \notin {"arm", "softTrigger"}
         /\ \/ \E x, y : drv' = [drv EXCEPT !.ind = x, !.events = y]
            \/ \E x : \E f \in {"pts", "pps", "pte"} : drv' = [drv EXCEPT ![f] = x]
  BY DEF Put, vtrclock, vtrtrigger, vtrmultiEvent, vtrnumberPTS, vtrnumberPPS, vtrnumberPTE,
         Setting, vtrarm, vtrsoftTrigger, Refuse
<1>7. drv'.soFar = drv.soFar
  BY <1>1, <1>6 DEF Drivers
<1>8. \/ ~OperatorWaits \/ Quiet
      \/ /\ drv'.pts = drv.pts /\ drv'.pps = drv.pps /\ drv'.pte = drv.pte
         /\ drv'.events = drv.events
  <2>1. ~OperatorWaits \/ Quiet \/ r \in {"arm", "softTrigger"}
    BY <1>2 DEF Allowed
  <2> QED BY <1>1, <1>6, <2>1 DEF Drivers
<1>9. CASE vtrarm(v)
  <2>1. drv'.arm = armDisarm
    BY <1>1, <1>9 DEF vtrarm, Drivers
  <2>2. Has(call'.todo, "multi") => Has(call'.todo, "csr2")
    BY <1>3, <1>9, ArmFit
  <2> QED BY <1>2, <1>4, <1>5, <1>7, <1>8, <2>1, <2>2
<1>10. CASE ~vtrarm(v)
  <2>1. drv'.arm = drv.arm
    <3>1. \/ drv' = drv
          \/ \E x : drv' = [drv EXCEPT !.trigger = x]
          \/ \E x, y : drv' = [drv EXCEPT !.ind = x, !.events = y]
          \/ \E x : \E f \in {"pts", "pps", "pte"} : drv' = [drv EXCEPT ![f] = x]
      BY <1>10 DEF Put, vtrclock, vtrtrigger, vtrmultiEvent, vtrnumberPTS, vtrnumberPPS,
             vtrnumberPTE, Setting, vtrsoftTrigger, Refuse
    <3> QED BY <1>1, <3>1 DEF Drivers
  <2>2. \/ call'.todo = <<>>
        \/ \E bits : call'.todo = <<Step("csr2", bits, 0)>> /\ "arm" \notin bits
    <3>1. ASSUME vtrclock(v), call'.todo # <<>>
          PROVE  \E bits : call'.todo = <<Step("csr2", bits, 0)>> /\ "arm" \notin bits
      <4> DEFINE ext  == IF v >= nclockChoices \div 2 THEN {"clkExt"} ELSE {}
                 bits == (reg.csr2 \ {"clkExt"}) \cup ext
      <4>1. call'.todo = <<Step("csr2", bits, 0)>> /\ ~isArmed
        BY <3>1 DEF vtrclock, Refuse, Enter
      <4>2. ext \subseteq {"clkExt"}
        OBVIOUS
      <4>3. "arm" \notin bits
        <5> HIDE DEF ext
        <5> QED BY <4>1, <4>2 DEF isArmed
      <4> QED BY <4>1, <4>3
    <3>2. ASSUME vtrtrigger(v), call'.todo # <<>>
          PROVE  \E bits : call'.todo = <<Step("csr2", bits, 0)>> /\ "arm" \notin bits
      <4> DEFINE bits == (reg.csr2 \ TriggerBits) \cup TriggerBit(v)
      <4>1. call'.todo = <<Step("csr2", bits, 0)>> /\ ~isArmed
        BY <3>2 DEF vtrtrigger, Refuse, Enter
      <4>2. "arm" \notin bits
        BY <4>1 DEF isArmed, TriggerBit
      <4> QED BY <4>1, <4>2
    <3>3. ASSUME ~vtrclock(v), ~vtrtrigger(v) PROVE call'.todo = <<>>
      BY <1>10, <3>3 DEF Put, vtrmultiEvent, vtrnumberPTS, vtrnumberPPS, vtrnumberPTE,
             Setting, vtrsoftTrigger, Refuse, Enter
    <3> QED BY <3>1, <3>2, <3>3
  <2>3. \A i \in 1 .. Len(call'.todo) : call'.todo[i].do = "csr2" /\ ~Arming(call'.todo[i])
    <3>1. CASE call'.todo = <<>>
      BY <3>1
    <3>2. CASE \E bits : call'.todo = <<Step("csr2", bits, 0)>> /\ "arm" \notin bits
      <4>1. PICK bits : call'.todo = <<Step("csr2", bits, 0)>> /\ "arm" \notin bits
        BY <3>2
      <4> DEFINE a == Step("csr2", bits, 0)
      <4>2. a.do = "csr2" /\ ~Arming(a) /\ call'.todo = <<a>>
        BY <4>1 DEF Step, Arming
      <4> HIDE DEF a
      <4> QED BY <4>2
    <3> QED BY <2>2, <3>1, <3>2
  <2> QED BY <1>2, <1>4, <1>5, <1>7, <1>8, <2>1, <2>3
<1> QED BY <1>9, <1>10

LEMMA PutRecords ==
    ASSUME Waiting, Recorded, NEW r \in Records, NEW v \in Values[r], Put(r, v)
    PROVE  Recorded'
<1> DEFINE todo == call'.todo
<1>1. /\ UNCHANGED <<setup, cb>> /\ reg'.csr2 = reg.csr2
      /\ drv'.arm \in {drv.arm, armDisarm}
      /\ hw'.irq = hw.irq
      /\ hw'.phase = hw.phase \/ (isArmed /\ todo = <<>>)
      /\ \/ ~OperatorWaits \/ Quiet
         \/ ~Has(todo, "start") /\ ~Has(todo, "csr2")
  BY PutShape DEF Waiting
<1>2. /\ UNCHANGED chan /\ reg'.multi = reg.multi
      /\ hw'.total = hw.total /\ hw'.done = hw.done /\ hw'.gate = hw.gate
      /\ hw'.phase # "stopped" => hw.phase # "stopped"
      /\ drv'.soFar = drv.soFar
      /\ \/ ~OperatorWaits \/ Quiet
         \/ /\ drv'.pts = drv.pts /\ drv'.pps = drv.pps /\ drv'.pte = drv.pte
            /\ drv'.events = drv.events
      /\ \/ drv'.arm = armDisarm /\ (Has(todo, "multi") => Has(todo, "csr2"))
         \/ /\ drv'.arm = drv.arm
            /\ \A i \in 1 .. Len(todo) : todo[i].do = "csr2" /\ ~Arming(todo[i])
  BY PutData DEF Waiting
<1>3. /\ isArmed' = isArmed /\ OperatorWaits' = OperatorWaits /\ CbBusy' = CbBusy
      /\ SoftTriggered' = SoftTriggered /\ ArraySize' = ArraySize /\ Gate' = Gate
  BY <1>1, <1>2 DEF isArmed, OperatorWaits, CbBusy, SoftTriggered, Values, ArraySize, Gate
<1>4. Quiet => ~isArmed /\ ~hw.irq /\ ~CbBusy /\ hw.phase = "wait"
  BY DEF Waiting, Waits, Quiet, CbBusy
<1>5. armDisarm # armPostTrigger /\ armDisarm # armPrePostTrigger
  BY DEF armDisarm, armPostTrigger, armPrePostTrigger
<1>6. Called' /\ MultiFirst'
  BY <1>2 DEF Called, MultiFirst, Has
<1>7. GateSet'
  BY <1>1, <1>2, <1>3, <1>4 DEF GateSet, Recorded
<1>8. Counted'
  BY <1>1, <1>2, <1>3, <1>5 DEF Counted, Taken, Recorded
<1>9. Enough'
  BY <1>1, <1>2, <1>3, <1>4, <1>5 DEF Enough, Recorded
<1>10. Ringing' => Ringing /\ ~Preparing(todo) /\ drv'.arm = drv.arm
  BY <1>2, <1>3, <1>5 DEF Ringing, Preparing
<1>11. EventsOf(reg'.multi) = EventsOf(reg.multi)
  BY <1>2
<1>12. EventsCounted'
  <2> SUFFICES ASSUME Ringing, ~Preparing(todo)
               PROVE  /\ Len(hw.done) <= EventsOf(reg.multi)
                      /\ isArmed /\ hw'.phase # "stopped" => Len(hw.done) < EventsOf(reg.multi)
                      /\ hw.irq => hw.done # <<>>
    BY <1>1, <1>2, <1>3, <1>10, <1>11 DEF EventsCounted
  <2> QED BY <1>2 DEF EventsCounted, Recorded
<1>13. Finished'
  <2>1. CbBusy /\ Ringing => drv'.events = drv.events
    BY <1>2, <1>4 DEF Ringing
  <2> QED BY <1>1, <1>2, <1>10, <1>11, <2>1 DEF Finished, Recorded, CbBusy
<1> QED BY <1>6, <1>7, <1>8, <1>9, <1>12, <1>13 DEF Recorded

\* What a step of a method may change of it.
LEMMA StepData ==
    ASSUME Waiting, Called, MultiFirst, MethodStep
    PROVE  LET s == call.todo
               t == call'.todo IN
           /\ UNCHANGED <<setup, cb, chan>>
           /\ drv'.pts = drv.pts /\ drv'.pps = drv.pps /\ drv'.pte = drv.pte
           /\ drv'.events = drv.events
           /\ Has(t, "multi") => Has(t, "csr2")
           /\ Preparing(t) => Preparing(s)
           /\ isArmed' => Preparing(s)
           /\ ~Has(t, "disarm") /\ (Has(t, "start") => drv'.arm = armDisarm)
           /\ (hw'.irq => hw.irq)
           /\ \/ /\ Has(s, "start") /\ reg'.multi = reg.multi /\ ~isArmed'
                 /\ hw'.total = 0 /\ hw'.done = <<>> /\ hw'.gate = drv.pts
                 /\ drv'.arm = armPostTrigger => drv'.soFar = 0
              \/ /\ drv'.arm = drv.arm /\ drv'.soFar = drv.soFar
                 /\ hw'.total = hw.total /\ hw'.done = hw.done /\ hw'.gate = hw.gate
                 /\ \/ reg'.multi = reg.multi
                    \/ Has(s, "multi") /\ Preparing(s) /\ ~isArmed' /\ reg'.multi \in 0 .. 7
<1> DEFINE s == call.todo
           t == call'.todo
<1>1. Inv /\ drv \in Drivers /\ reg \in Registers /\ hw \in Hardware
  BY DEF Waiting, Typed, TypeOK
<1>2. PICK what \in {"disarm", "resetIRQ", "start", "enableIRQ", "multi", "csr2"} : Doing(what)
  BY DEF MethodStep, Disarm, ResetIRQ, Start, EnableIRQ, WriteMulti, WriteCSR2
<1>3. /\ s # <<>> /\ Head(s).do = what /\ Head(s) = s[1] /\ 1 \in 1 .. Len(s) /\ Head(s) \in Steps
      /\ \A i \in 1 .. Len(t) :
            i + 1 \in 1 .. Len(s) /\ t[i] = s[i + 1] /\ Before(Head(s), t[i])
      /\ \A kind : Has(t, kind) => Has(s, kind)
      /\ \A kind : Has(s, kind) => Has(t, kind) \/ what = kind
      /\ Has(s, what) /\ ~Has(t, "disarm")
      /\ Fit(t)
  BY <1>1, <1>2, DoingFacts
<1>4. UNCHANGED <<setup, cb, chan>>
  BY <1>2 DEF Doing
<1>5. Preparing(t) => Preparing(s)
  BY <1>3 DEF Preparing
<1>6. what = "csr2" => ~Has(t, "multi") /\ ~Has(t, "start")
  <2>1. what = "csr2" => \A i \in 1 .. Len(t) : t[i].do = "csr2"
    BY <1>3 DEF Before, Rank
  <2> QED BY <2>1 DEF Has
<1>7. what = "start" => ~Has(t, "start")
  BY <1>3 DEF Before, Rank, Has
<1>8. Has(t, "multi") => Has(t, "csr2")
  BY <1>3, <1>6 DEF MultiFirst
<1>9. hw'.irq => hw.irq
  BY StepShape
<1> HIDE DEF s, t
<1>10. CASE Start
  <2>1. what = "start"
    BY <1>3, <1>10 DEF Start, Doing, s
  <2>2. ~isArmed'
    BY <1>1, <1>10, StartKeeps
  <2>3. /\ drv'.pts = drv.pts /\ drv'.pps = drv.pps /\ drv'.pte = drv.pte
        /\ drv'.events = drv.events
        /\ drv'.arm = armPostTrigger => drv'.soFar = 0
    BY <1>1, <1>10 DEF Start, Drivers
  <2>4. /\ reg'.multi = reg.multi
        /\ hw'.total = 0 /\ hw'.done = <<>> /\ hw'.gate = drv.pts
    BY <1>1, <1>10 DEF Start, Registers, Hardware
  <2> QED BY <1>3, <1>4, <1>5, <1>7, <1>8, <1>9, <2>1, <2>2, <2>3, <2>4 DEF s, t
<1>11. CASE ~Start
  <2>1. drv' = drv /\ what # "start"
    BY <1>3, <1>11 DEF MethodStep, Disarm, ResetIRQ, EnableIRQ, WriteMulti, WriteCSR2, Doing, s
  <2>2. hw'.total = hw.total /\ hw'.done = hw.done /\ hw'.gate = hw.gate
    BY <1>1, <1>11 DEF MethodStep, Disarm, ResetIRQ, EnableIRQ, WriteMulti, WriteCSR2, Disarmed,
                       Hardware
  <2>3. isArmed' => Preparing(s)
    <3>1. CASE WriteCSR2
      <4>1. reg' = [reg EXCEPT !.csr2 = Head(s).bits] /\ Head(s).do = "csr2"
        BY <3>1 DEF WriteCSR2, Doing, s
      <4>2. isArmed' => Arming(s[1])
        BY <1>1, <1>3, <4>1 DEF Registers, isArmed, Arming
      <4> QED BY <1>3, <4>2 DEF Preparing
    <3>2. CASE ~WriteCSR2
      <4>1. isArmed' => what = "csr2"
        <5>1. CASE Disarm
          <6>1. reg'.csr2 = reg.csr2 \ {"arm"}
            BY <1>1, <5>1 DEF Disarm, Registers
          <6> QED BY <6>1 DEF isArmed
        <5>2. CASE ~Disarm
          <6>1. reg'.csr2 = reg.csr2
            BY <1>1, <1>11, <3>2, <5>2 DEF MethodStep, ResetIRQ, EnableIRQ, WriteMulti, Registers
          <6>2. what # "disarm"
            BY <1>3, <1>11, <3>2, <5>2 DEF MethodStep, ResetIRQ, EnableIRQ, WriteMulti, Doing, s
          <6>3. ~Arming(Head(s)) /\ what # "disarm" => ~isArmed
            BY <1>1, <1>2, DoingFacts DEF s
          <6> QED BY <1>3, <6>1, <6>2, <6>3 DEF isArmed, Arming
        <5> QED BY <5>1, <5>2
      <4>2. what # "csr2"
        BY <1>3, <1>11, <3>2 DEF MethodStep, Disarm, ResetIRQ, EnableIRQ, WriteMulti, Doing, s
      <4> QED BY <4>1, <4>2
    <3> QED BY <3>1, <3>2
  <2>4. Has(t, "start") => drv'.arm = armDisarm
    BY <1>3, <2>1 DEF Called, s
  <2>5. \/ reg'.multi = reg.multi
        \/ Has(s, "multi") /\ Preparing(s) /\ ~isArmed' /\ reg'.multi \in 0 .. 7
    <3>1. CASE WriteMulti
      <4>1. what = "multi" /\ reg' = [reg EXCEPT !.multi = Head(s).n]
        BY <1>3, <3>1 DEF WriteMulti, Doing, s
      <4>2. reg'.multi = Head(s).n /\ reg'.csr2 = reg.csr2
        BY <1>1, <4>1 DEF Registers
      <4>3. reg'.multi \in 0 .. 7
        <5>1. Fit(s)
          BY <1>1 DEF Inv, s
        <5> QED BY <1>3, <4>1, <4>2, <5>1 DEF Fit, Proper
      <4>4. ~isArmed
        <5>1. ~Arming(Head(s)) /\ what # "disarm" => ~isArmed
          BY <1>1, <1>2, DoingFacts DEF s
        <5> QED BY <1>3, <4>1, <5>1 DEF Arming
      <4> QED BY <1>3, <4>1, <4>2, <4>3, <4>4 DEF Preparing, isArmed
    <3>2. CASE ~WriteMulti
      BY <1>1, <1>11, <3>2 DEF MethodStep, Disarm, ResetIRQ, EnableIRQ, WriteCSR2, Registers
    <3> QED BY <3>1, <3>2
  <2> QED BY <1>3, <1>4, <1>5, <1>8, <1>9, <2>1, <2>2, <2>3, <2>4, <2>5 DEF s, t
<1> QED BY <1>10, <1>11

-----------------------------------------------------------------------------
(* Counting gates *)

LEMMA OneMoreGate ==
    ASSUME NEW gate \in Nat, NEW n \in Nat, NEW total \in Nat, NEW size \in Nat,
           total <= size, total >= MinOf(gate * n, size)
    PROVE  /\ MinOf(total + gate, size) <= size
           /\ MinOf(total + gate, size) >= MinOf(gate * (n + 1), size)
<1>1. gate * (n + 1) = gate * n + gate /\ gate * n \in Nat
  OBVIOUS
<1>2. PICK product \in Nat : product = gate * n
  BY <1>1
<1> QED BY <1>1, <1>2 DEF MinOf

LEMMA FewerGates ==
    ASSUME NEW gate \in Nat, NEW n \in Nat, NEW m \in Nat, m = n \/ m = n + 1, NEW size \in Nat
    PROVE  MinOf(gate * n, size) <= MinOf(gate * m, size)
<1>1. gate * (n + 1) = gate * n + gate /\ gate * n \in Nat
  OBVIOUS
<1>2. PICK product \in Nat : product = gate * n
  BY <1>1
<1>3. gate * m \in {product, product + gate}
  BY <1>1, <1>2
<1> QED BY <1>2, <1>3 DEF MinOf

LEMMA StepRecords ==
    ASSUME Waiting, Recorded, MethodStep
    PROVE  Recorded'
<1> DEFINE s == call.todo
           t == call'.todo
<1>1. /\ drv \in Drivers /\ reg \in Registers /\ hw \in Hardware /\ TypeOK
      /\ drv' \in Drivers /\ hw' \in Hardware /\ ArraySize \in Nat
  <2>1. TypeOK'
    BY MethodStepTypes DEF Waiting, Typed
  <2> QED BY <2>1, SetupTypes DEF Waiting, Typed, TypeOK, Drivers, Hardware
<1>2. /\ UNCHANGED <<setup, cb, chan>>
      /\ drv'.pts = drv.pts /\ drv'.pps = drv.pps /\ drv'.pte = drv.pte
      /\ drv'.events = drv.events
      /\ Has(t, "multi") => Has(t, "csr2")
      /\ Preparing(t) => Preparing(s)
      /\ isArmed' => Preparing(s)
      /\ ~Has(t, "disarm") /\ (Has(t, "start") => drv'.arm = armDisarm)
      /\ (hw'.irq => hw.irq)
      /\ \/ /\ Has(s, "start") /\ reg'.multi = reg.multi /\ ~isArmed'
            /\ hw'.total = 0 /\ hw'.done = <<>> /\ hw'.gate = drv.pts
            /\ drv'.arm = armPostTrigger => drv'.soFar = 0
         \/ /\ drv'.arm = drv.arm /\ drv'.soFar = drv.soFar
            /\ hw'.total = hw.total /\ hw'.done = hw.done /\ hw'.gate = hw.gate
            /\ \/ reg'.multi = reg.multi
               \/ Has(s, "multi") /\ Preparing(s) /\ ~isArmed' /\ reg'.multi \in 0 .. 7
  BY StepData DEF Recorded
<1> HIDE DEF s, t
<1>3. /\ OperatorWaits' = OperatorWaits /\ CbBusy' = CbBusy
      /\ SoftTriggered' = SoftTriggered /\ ArraySize' = ArraySize
  BY <1>2 DEF OperatorWaits, CbBusy, SoftTriggered, Values, ArraySize
<1>4. armDisarm # armPostTrigger /\ armDisarm # armPrePostTrigger
  BY DEF armDisarm, armPostTrigger, armPrePostTrigger
<1>5. Called' /\ MultiFirst'
  BY <1>2 DEF Called, MultiFirst, t
<1>6. OperatorWaits /\ Has(s, "start") => ~hw.irq /\ ~CbBusy
  BY DEF Waiting, Alone, s
<1>7. Ringing /\ Has(s, "multi") => ~hw.irq /\ ~CbBusy
  BY DEF Waiting, Alone, Ringing, Recorded, MultiFirst, s
<1>8. GateSet'
  BY <1>2, <1>3, <1>6 DEF GateSet, Recorded
<1>9. Counted'
  <2> SUFFICES ASSUME OperatorWaits, drv'.arm = armPostTrigger
               PROVE  hw'.total <= ArraySize /\ hw'.total >= MinOf(Gate' * Taken', ArraySize)
    BY <1>3 DEF Counted
  <2>1. CASE hw'.total = 0 /\ drv'.soFar = 0 /\ Has(s, "start")
    <3>1. Taken' = 0 /\ Gate' \in Nat
      BY <1>1, <1>2, <1>6, <2>1 DEF Taken, Gate, MaxOf, Hardware
    <3>2. Gate' * Taken' = 0
      <4>1. PICK gate \in Nat : gate = Gate'
        BY <3>1
      <4>2. gate * 0 = 0
        OBVIOUS
      <4> QED BY <3>1, <4>1, <4>2
    <3> QED BY <1>1, <2>1, <3>2 DEF MinOf
  <2>2. CASE /\ drv'.arm = drv.arm /\ drv'.soFar = drv.soFar
             /\ hw'.total = hw.total /\ hw'.gate = hw.gate
    <3>1. hw.total <= ArraySize /\ hw.total >= MinOf(Gate * Taken, ArraySize)
      BY <2>2 DEF Recorded, Counted
    <3>2. Gate' = Gate /\ Gate \in Nat
      BY <1>1, <2>2 DEF Gate, MaxOf, Hardware
    <3>3. Taken \in Nat /\ Taken' \in Nat /\ (Taken = Taken' \/ Taken = Taken' + 1)
      BY <1>1, <1>2, <2>2 DEF Taken, Drivers, Hardware
    <3>4. MinOf(Gate * Taken', ArraySize) <= MinOf(Gate * Taken, ArraySize)
      BY <1>1, <3>2, <3>3, FewerGates
    <3>5. Gate * Taken \in Int /\ Gate * Taken' \in Int /\ hw.total \in Int
      BY <1>1, <3>2, <3>3 DEF Hardware
    <3>6. MinOf(Gate * Taken, ArraySize) \in Int /\ MinOf(Gate * Taken', ArraySize) \in Int
      BY <1>1, <3>5 DEF MinOf
    <3> QED BY <2>2, <3>1, <3>2, <3>4, <3>5, <3>6
  <2> QED BY <1>2, <2>1, <2>2
<1>10. Enough'
  BY <1>2, <1>3, <1>6 DEF Enough, Recorded
<1>11. \A multi \in 0 .. 7 : EventsOf(multi) \in Nat /\ EventsOf(multi) >= 1
  BY EventsOfType
<1>12. reg.multi \in 0 .. 7
  BY <1>1 DEF Registers
<1>13. EventsCounted'
  <2> SUFFICES ASSUME Ringing'
               PROVE  /\ Preparing(t) => hw'.done = <<>>
                      /\ Len(hw'.done) <= EventsOf(reg'.multi)
                      /\ isArmed' /\ hw'.phase # "stopped" => Len(hw'.done) < EventsOf(reg'.multi)
                      /\ hw'.irq => hw'.done # <<>>
    BY DEF EventsCounted, t
  <2>1. CASE Has(s, "start") /\ reg'.multi = reg.multi /\ ~isArmed' /\ hw'.done = <<>>
    <3>1. ~hw'.irq
      BY <1>2, <1>3, <1>6, <2>1 DEF Ringing
    <3> QED BY <1>11, <1>12, <2>1, <3>1
  <2>2. CASE drv'.arm = drv.arm /\ hw'.done = hw.done
    <3>1. Ringing
      BY <1>3, <2>2 DEF Ringing
    <3>2. /\ Preparing(s) => hw.done = <<>>
          /\ Len(hw.done) <= EventsOf(reg.multi)
          /\ hw.irq => hw.done # <<>>
      BY <3>1 DEF EventsCounted, Recorded, s
    <3>3. hw.done = <<>> => Len(hw.done) = 0
      OBVIOUS
    <3>4. reg'.multi \in 0 .. 7 /\ (reg'.multi = reg.multi \/ Preparing(s))
      BY <1>2, <1>12, <1>11
    <3> QED BY <1>2, <1>11, <2>2, <3>2, <3>3, <3>4
  <2> QED BY <1>2, <2>1, <2>2
<1>14. Finished'
  <2> SUFFICES ASSUME Ringing', CbBusy
               PROVE  /\ cb.pending /\ drv.events = EventsOf(reg'.multi) =>
                            Len(hw'.done) >= drv.events
                      /\ cb.at # "idle" /\ cb.arm = drv'.arm /\ cb.events = EventsOf(reg'.multi) =>
                            Len(hw'.done) >= cb.events
    BY <1>2, <1>3 DEF Finished, CbBusy
  <2>1. drv'.arm = drv.arm /\ hw'.done = hw.done
    BY <1>2, <1>3, <1>6 DEF Ringing
  <2>2. Ringing
    BY <1>3, <2>1 DEF Ringing
  <2>3. reg'.multi = reg.multi
    BY <1>2, <1>3, <1>6, <1>7, <2>2 DEF Ringing
  <2> QED BY <2>1, <2>2, <2>3 DEF Finished, Recorded
<1> QED BY <1>5, <1>8, <1>9, <1>10, <1>13, <1>14 DEF Recorded

LEMMA InterruptRecords ==
    ASSUME Waiting, Recorded, IH
    PROVE  Recorded'
<1>1. /\ drv \in Drivers /\ reg \in Registers /\ hw \in Hardware /\ cb \in Readers
      /\ ArraySize \in Nat
  BY SetupTypes DEF Waiting, Typed, TypeOK
<1>2. UNCHANGED <<setup, call>> /\ hw.irq
  BY DEF IH, UnwantedInterrupt, IgnoreInterrupt, CompleteInterrupt, Interrupt
<1>3. /\ OperatorWaits' = OperatorWaits /\ SoftTriggered' = SoftTriggered
      /\ ArraySize' = ArraySize
  BY <1>2 DEF OperatorWaits, SoftTriggered, Values, ArraySize
<1>4. /\ drv'.arm = drv.arm /\ drv'.pts = drv.pts /\ drv'.pte = drv.pte
      /\ drv'.events = drv.events
      /\ drv'.soFar = drv.soFar \/ drv'.soFar = drv.soFar + 1
  <2>1. drv' = drv \/ CountTrigger
    BY DEF IH, UnwantedInterrupt, IgnoreInterrupt, CompleteInterrupt
  <2> QED BY <1>1, <2>1 DEF CountTrigger, Drivers
<1>5. /\ hw'.total = hw.total /\ hw'.done = hw.done /\ hw'.gate = hw.gate /\ ~hw'.irq
      /\ reg'.multi = reg.multi
      /\ isArmed' => isArmed /\ hw'.phase = hw.phase
  <2>1. CASE IgnoreInterrupt
    BY <1>1, <2>1 DEF IgnoreInterrupt, Hardware, isArmed
  <2>2. CASE UnwantedInterrupt \/ CompleteInterrupt
    <3>1. WriteDisarm
      BY <2>2 DEF UnwantedInterrupt, CompleteInterrupt
    <3> QED BY <1>1, <3>1 DEF WriteDisarm, Disarmed, Registers, Hardware, isArmed
  <2> QED BY <2>1, <2>2 DEF IH
<1>6. \/ cb' = cb
      \/ /\ cb'.at = cb.at /\ cb'.arm = cb.arm /\ cb'.events = cb.events
         /\ drv.arm = armPostTrigger => drv'.soFar = drv.soFar + 1 /\ drv'.soFar >= drv.pte
         /\ drv.arm = armPrePostTrigger => drv.events <= 1 \/ Len(hw.done) >= drv.events
  <2>1. CASE CompleteInterrupt
    <3>1. /\ CountTrigger /\ ~SetIncomplete /\ cb' = [cb EXCEPT !.pending = TRUE]
      BY <2>1 DEF CompleteInterrupt
    <3>2. cb'.at = cb.at /\ cb'.arm = cb.arm /\ cb'.events = cb.events
      BY <1>1, <3>1 DEF Readers
    <3>3. drv.arm = armPostTrigger => drv'.soFar = drv.soFar + 1 /\ drv'.soFar >= drv.pte
      BY <1>1, <3>1 DEF CountTrigger, SetIncomplete, Drivers
    <3>4. drv.arm = armPrePostTrigger => drv.events <= 1 \/ Len(hw.done) >= drv.events
      <4>1. Len(hw.done) \in Int /\ drv.events \in Int
        BY <1>1 DEF Hardware, Drivers
      <4> QED BY <3>1, <4>1 DEF SetIncomplete, PmemCounter
    <3> QED BY <3>2, <3>3, <3>4
  <2>2. CASE ~CompleteInterrupt
    BY <2>2 DEF IH, UnwantedInterrupt, IgnoreInterrupt
  <2> QED BY <2>1, <2>2
<1>7. Called' /\ MultiFirst'
  BY <1>2, <1>4 DEF Recorded, Called, MultiFirst
<1>8. GateSet'
  BY <1>2, <1>3, <1>4, <1>5 DEF Recorded, GateSet
<1>9. Counted'
  <2> SUFFICES ASSUME OperatorWaits, drv.arm = armPostTrigger
               PROVE  hw'.total <= ArraySize /\ hw'.total >= MinOf(Gate' * Taken', ArraySize)
    BY <1>3, <1>4 DEF Counted
  <2>1. hw.total <= ArraySize /\ hw.total >= MinOf(Gate * Taken, ArraySize)
    BY DEF Recorded, Counted
  <2>2. Gate' = Gate /\ Gate \in Nat
    BY <1>1, <1>5 DEF Gate, MaxOf, Hardware
  <2>3. Taken \in Nat /\ Taken' \in Nat /\ (Taken = Taken' \/ Taken = Taken' + 1)
    BY <1>1, <1>2, <1>4, <1>5 DEF Taken, Drivers, Hardware
  <2>4. MinOf(Gate * Taken', ArraySize) <= MinOf(Gate * Taken, ArraySize)
    BY <1>1, <2>2, <2>3, FewerGates
  <2>5. Gate * Taken \in Int /\ Gate * Taken' \in Int /\ hw.total \in Int
    BY <1>1, <2>2, <2>3 DEF Hardware
  <2>6. MinOf(Gate * Taken, ArraySize) \in Int /\ MinOf(Gate * Taken', ArraySize) \in Int
    BY <1>1, <2>5 DEF MinOf
  <2> QED BY <1>5, <2>1, <2>2, <2>4, <2>5, <2>6
<1>10. Enough'
  <2>1. drv.soFar \in Int /\ drv.pte \in Int
    BY <1>1 DEF Drivers
  <2> QED BY <1>3, <1>4, <1>6, <2>1 DEF Recorded, Enough, CbBusy
<1>11. Ringing' = Ringing
  BY <1>3, <1>4 DEF Ringing
<1>12. EventsCounted'
  BY <1>2, <1>5, <1>11 DEF Recorded, EventsCounted
<1>13. Finished'
  <2> SUFFICES ASSUME Ringing
               PROVE  /\ cb'.pending /\ drv.events = EventsOf(reg.multi) =>
                            Len(hw.done) >= drv.events
                      /\ cb'.at # "idle" /\ cb'.arm = drv.arm /\ cb'.events = EventsOf(reg.multi) =>
                            Len(hw.done) >= cb'.events
    BY <1>4, <1>5, <1>11 DEF Finished
  <2>1. hw.done # <<>> /\ hw.done \in Seq(Nat) /\ drv.events \in {1, 2, 4, 8, 16}
    BY <1>1, <1>2 DEF Recorded, EventsCounted, Hardware, Drivers
  <2>2. Len(hw.done) \in Nat /\ Len(hw.done) >= 1
    BY <2>1
  <2>3. drv.events <= 1 => Len(hw.done) >= drv.events
    BY <2>1, <2>2
  <2> QED BY <1>6, <2>3 DEF Recorded, Finished, Ringing
<1> QED BY <1>7, <1>8, <1>9, <1>10, <1>12, <1>13 DEF Recorded

LEMMA CallbackRecords ==
    ASSUME Waiting, Recorded, Callback
    PROVE  Recorded'
<1>1. drv \in Drivers /\ cb \in Readers
  BY DEF Waiting, Typed, TypeOK
<1>2. UNCHANGED <<setup, call, drv, reg, hw>>
  BY DEF Callback, ReadStart, ReadGroup, Post
<1>3. /\ OperatorWaits' = OperatorWaits /\ SoftTriggered' = SoftTriggered
      /\ ArraySize' = ArraySize /\ Gate' = Gate /\ Taken' = Taken /\ isArmed' = isArmed
  BY <1>2 DEF OperatorWaits, SoftTriggered, Values, ArraySize, Gate, Taken, isArmed
<1>4. /\ cb'.pending => cb.pending
      /\ CbBusy' => CbBusy
      /\ \/ cb'.at = "idle"
         \/ cb.at # "idle" /\ cb'.arm = cb.arm /\ cb'.events = cb.events
         \/ /\ cb.pending /\ cb'.arm = drv.arm
            /\ drv.arm = armPrePostTrigger => cb'.events = drv.events
  <2>1. CASE ReadStart
    <3>1. /\ cb.pending /\ ~cb'.pending /\ cb'.arm = drv.arm
          /\ drv.arm = armPrePostTrigger => cb'.events = drv.events
      BY <2>1 DEF ReadStart
    <3> QED BY <3>1 DEF CbBusy
  <2>2. CASE ReadGroup \/ Post
    <3>1. cb.at # "idle" /\ cb'.pending = cb.pending /\ cb'.arm = cb.arm
          /\ cb'.events = cb.events
      BY <1>1, <2>2 DEF ReadGroup, Post, NextGroup, Readers
    <3> QED BY <3>1 DEF CbBusy
  <2> QED BY <2>1, <2>2 DEF Callback
<1>5. Called' /\ MultiFirst' /\ GateSet' /\ Counted' /\ Enough' /\ EventsCounted'
  BY <1>2, <1>3, <1>4
     DEF Recorded, Called, MultiFirst, GateSet, Counted, Enough, EventsCounted, Ringing
<1>6. Finished'
  BY <1>2, <1>3, <1>4 DEF Recorded, Finished, Ringing
<1> QED BY <1>5, <1>6 DEF Recorded

\* A card that is armed has the gate and the mode of its driver.
LEMMA ArmedMode ==
    ASSUME Inv, Called, isArmed, drv.arm # armDisarm
    PROVE  /\ hw.gate = drv.pts
           /\ drv.arm = armPostTrigger => ~Circular
           /\ drv.arm = armPrePostTrigger => Circular
<1>1. hw.gate = drv.pts /\ Circular = (drv.arm = armPrePostTrigger)
  BY DEF Called, Inv, ModeSet, Started
<1>2. armPostTrigger # armPrePostTrigger
  BY DEF armPostTrigger, armPrePostTrigger
<1> QED BY <1>1, <1>2 DEF Circular

\* The digitizer ends an event, or a gate.
LEMMA GateRecords ==
    ASSUME Waiting, Recorded, HwGateDone
    PROVE  Recorded'
<1>1. /\ drv \in Drivers /\ reg \in Registers /\ hw \in Hardware /\ cb \in Readers
      /\ ArraySize \in Nat /\ Inv
  BY SetupTypes DEF Waiting, Typed, TypeOK
<1>2. UNCHANGED <<drv, reg, setup, isRebooting, call, cb, chan>> /\ hw.phase = "open" /\ isArmed
  BY DEF HwGateDone, Waiting, Waits
<1>3. /\ OperatorWaits' = OperatorWaits /\ SoftTriggered' = SoftTriggered
      /\ ArraySize' = ArraySize /\ isArmed' = isArmed /\ CbBusy' = CbBusy /\ Ringing' = Ringing
  BY <1>2 DEF OperatorWaits, SoftTriggered, Values, ArraySize, isArmed, CbBusy, Ringing
<1>4. drv.arm # armDisarm =>
        /\ hw.gate = drv.pts
        /\ drv.arm = armPostTrigger => ~Circular
        /\ drv.arm = armPrePostTrigger => Circular
  BY <1>1, <1>2, ArmedMode DEF Recorded
<1>5. /\ hw'.gate = hw.gate /\ hw'.irq
      /\ Circular =>
            /\ hw'.done = Append(hw.done, hw.total + Gate)
            /\ hw'.phase # "stopped" => Len(hw.done) + 1 < EventsOf(reg.multi)
      /\ ~Circular => hw'.total = MinOf(hw.total + Gate, ArraySize)
  <2>1. EventsOf(reg.multi) \in Int /\ Len(hw.done) \in Int
    BY <1>1, EventsOfType DEF Registers, Hardware
  <2> QED BY <1>1, <2>1 DEF HwGateDone, Hardware
<1>6. Called' /\ MultiFirst'
  BY <1>2 DEF Recorded, Called, MultiFirst
<1>7. GateSet'
  BY <1>2, <1>4, <1>5 DEF GateSet
<1>8. Counted'
  <2> SUFFICES ASSUME OperatorWaits, drv.arm = armPostTrigger
               PROVE  hw'.total <= ArraySize /\ hw'.total >= MinOf(Gate' * Taken', ArraySize)
    BY <1>2, <1>3 DEF Counted
  <2>1. hw.total <= ArraySize /\ hw.total >= MinOf(Gate * Taken, ArraySize)
    BY DEF Recorded, Counted
  <2>2. Gate' = Gate /\ Gate \in Nat
    BY <1>1, <1>5 DEF Gate, MaxOf, Hardware
  <2>3. Taken \in Nat /\ Taken' \in Nat /\ Taken' = drv.soFar + 1 /\ drv.soFar \in Nat
        /\ (Taken = Taken' \/ Taken' = Taken + 1)
    BY <1>1, <1>2, <1>5 DEF Taken, Drivers, Hardware
  <2>4. hw'.total = MinOf(hw.total + Gate, ArraySize) /\ hw.total \in Nat
    BY <1>1, <1>4, <1>5 DEF armPostTrigger, armDisarm, Hardware
  <2>5. hw.total >= MinOf(Gate * drv.soFar, ArraySize)
    <3>1. MinOf(Gate * drv.soFar, ArraySize) <= MinOf(Gate * Taken, ArraySize)
      <4>1. Taken = drv.soFar \/ Taken = drv.soFar + 1
        BY <1>1, <2>3 DEF Taken
      <4> QED BY <1>1, <2>2, <2>3, <4>1, FewerGates
    <3>2. Gate * Taken \in Int /\ Gate * drv.soFar \in Int
      BY <2>2, <2>3
    <3>3. MinOf(Gate * drv.soFar, ArraySize) \in Int /\ MinOf(Gate * Taken, ArraySize) \in Int
      BY <1>1, <3>2 DEF MinOf
    <3> QED BY <2>1, <2>4, <3>1, <3>3
  <2>6. /\ MinOf(hw.total + Gate, ArraySize) <= ArraySize
        /\ MinOf(hw.total + Gate, ArraySize) >= MinOf(Gate * (drv.soFar + 1), ArraySize)
    BY <1>1, <2>1, <2>2, <2>3, <2>4, <2>5, OneMoreGate
  <2> QED BY <2>2, <2>3, <2>4, <2>6
<1>9. Enough'
  BY <1>2, <1>3 DEF Recorded, Enough
<1>10. Ringing => Circular
  BY <1>4 DEF Ringing, armDisarm, armPrePostTrigger
<1>11. hw.done \in Seq(Nat) /\ hw.total + Gate \in Nat
  BY <1>1 DEF Hardware, Gate, MaxOf
<1>12. /\ Len(Append(hw.done, hw.total + Gate)) = Len(hw.done) + 1
       /\ Append(hw.done, hw.total + Gate) # <<>>
       /\ Len(hw.done) \in Nat /\ EventsOf(reg.multi) \in Int
  <2>1. EventsOf(reg.multi) \in Int
    BY <1>1, EventsOfType DEF Registers
  <2>2. PICK n \in Nat : n = hw.total + Gate
    BY <1>11
  <2>3. /\ Len(Append(hw.done, n)) = Len(hw.done) + 1 /\ Len(hw.done) \in Nat
        /\ Append(hw.done, n) # <<>>
    <3>1. hw.done \in Seq(Nat) /\ n \in Nat
      BY <1>11, <2>2
    <3>2. Len(Append(hw.done, n)) = Len(hw.done) + 1 /\ Append(hw.done, n) # <<>>
      BY ONLY <3>1, AppendProperties, Zenon
    <3>3. Len(hw.done) \in Nat
      BY <3>1
    <3> QED BY <3>2, <3>3
  <2> QED BY <2>1, <2>2, <2>3
<1>13. EventsCounted'
  <2> SUFFICES ASSUME Ringing
               PROVE  /\ ~Preparing(call.todo)
                      /\ Len(hw'.done) <= EventsOf(reg.multi)
                      /\ hw'.phase # "stopped" => Len(hw'.done) < EventsOf(reg.multi)
                      /\ hw'.done # <<>>
    BY <1>2, <1>3 DEF EventsCounted
  <2>1. ~Has(call.todo, "csr2")
    BY <1>2 DEF Waiting, Alone, Ringing
  <2>2. ~Preparing(call.todo)
    BY <2>1 DEF Recorded, MultiFirst, Preparing, Has, Arming
  <2>3. Len(hw.done) < EventsOf(reg.multi)
    BY <1>2 DEF Recorded, EventsCounted
  <2>4. hw'.done = Append(hw.done, hw.total + Gate)
    BY <1>5, <1>10
  <2> QED BY <1>5, <1>10, <1>12, <2>2, <2>3, <2>4
<1>14. Finished'
  <2>1. Ringing => ~CbBusy
    BY <1>2 DEF Waiting, ReadsAlone, AtRest, Posting, Ringing
  <2> QED BY <1>2, <1>3, <2>1 DEF Finished, CbBusy
<1> QED BY <1>6, <1>7, <1>8, <1>9, <1>13, <1>14 DEF Recorded

LEMMA OtherRecords ==
    ASSUME Waiting, Recorded, PreSample \/ HwTrigger \/ vtrReboot \/ UNCHANGED vars
    PROVE  Recorded'
<1>1. reg \in Registers /\ hw \in Hardware /\ Inv
  BY DEF Waiting, Typed, TypeOK
<1>2. UNCHANGED <<setup, call, drv, cb, chan>>
  BY DEF PreSample, HwTrigger, vtrReboot, vars
<1>3. /\ reg'.csr2 = reg.csr2 /\ reg'.multi = reg.multi
      /\ hw'.done = hw.done /\ hw'.gate = hw.gate /\ hw'.irq = hw.irq
      /\ hw'.phase # "stopped" => hw.phase # "stopped"
      /\ hw'.total = hw.total \/ (isArmed /\ Circular)
  BY <1>1 DEF PreSample, HwTrigger, CanTrigger, vtrReboot, vars, Registers, Hardware
<1>4. /\ OperatorWaits' = OperatorWaits /\ SoftTriggered' = SoftTriggered
      /\ ArraySize' = ArraySize /\ isArmed' = isArmed /\ CbBusy' = CbBusy
      /\ Gate' = Gate /\ Taken' = Taken /\ Ringing' = Ringing
  BY <1>2, <1>3 DEF OperatorWaits, SoftTriggered, Values, ArraySize, isArmed, CbBusy, Gate, Taken,
                    Ringing
<1>5. drv.arm = armPostTrigger => hw'.total = hw.total
  BY <1>1, <1>3, ArmedMode DEF Recorded, armDisarm, armPostTrigger
<1>6. Called' /\ MultiFirst' /\ GateSet' /\ Counted' /\ Enough'
  BY <1>2, <1>3, <1>4, <1>5
     DEF Recorded, Called, MultiFirst, GateSet, Counted, Enough
<1>7. EventsCounted' /\ Finished'
  BY <1>2, <1>3, <1>4 DEF Recorded, EventsCounted, Finished
<1> QED BY <1>6, <1>7 DEF Recorded

LEMMA RecordedKept ==
    ASSUME Waiting, Recorded, [Next]_vars
    PROVE  Recorded'
<1>1. CASE \E r \in Records : \E v \in Values[r] : Put(r, v)
  BY <1>1, PutRecords
<1>2. CASE MethodStep
  BY <1>2, StepRecords
<1>3. CASE IH
  BY <1>3, InterruptRecords
<1>4. CASE Callback
  BY <1>4, CallbackRecords
<1>5. CASE HwGateDone
  BY <1>5, GateRecords
<1>6. CASE PreSample \/ HwTrigger \/ vtrReboot \/ UNCHANGED vars
  BY <1>6, OtherRecords
<1> QED BY <1>1, <1>2, <1>3, <1>4, <1>5, <1>6 DEF Next

-----------------------------------------------------------------------------
(* What has been read while a scan goes on *)

\* As Reading, from the beginning of the scan.
Wanting ==
    /\ OperatorWaits /\ cb.at # "idle" /\ drv.arm = cb.arm
    /\ \/ cb.arm = armPostTrigger /\ drv.pts >= 0
       \/ cb.arm = armPrePostTrigger /\ SoftTriggered /\ cb.events = EventsOf(reg.multi)

\* The i-th sample of a channel, and what it shows of the first events.
SampleOf(g, h, i) ==
    LET pps   == cb.pps
        event == (i - 1) \div pps
        nth   == (i - 1) % pps
        n     == MinOf(pps, ChanLen[g][h] - event * pps)
    IN [event |-> event, at |-> Newest(n, hw.done[event + 1])[nth + 1]]
Shows(g, h, events) ==
    [i \in 1 .. MinOf(cb.pps * events, ChanLen[g][h]) |-> SampleOf(g, h, i)]

InOrder(s) == \A i \in 1 .. Len(s) - 1 : s[i].at = Stale \/ Later(s[i], s[i + 1])
Until(s, event) == \A i \in 1 .. Len(s) : s[i].event < event

\* How many events of a group have been read.
EventsRead(g) ==
    IF cb.at = "post" THEN cb.events ELSE cb.event + (IF g < cb.group THEN 1 ELSE 0)

PostRead == Wanting /\ cb.arm = armPostTrigger =>
    /\ cb.at = "read" => cb.events = 1 /\ cb.event = 0
    /\ \A g \in 0 .. Groups - 1 : g < cb.group \/ cb.at = "post" =>
          \A h \in Halves : /\ InOrder(chan[g][h])
                            /\ ~DmaMayFail => PostSamples(g, h)
RingRead == Wanting /\ cb.arm = armPrePostTrigger =>
    /\ cb.at = "read" => cb.pps >= 1 /\ cb.event < cb.events
    /\ \A g \in 0 .. Groups - 1 : \A h \in Halves :
          /\ InOrder(chan[g][h]) /\ Until(chan[g][h], EventsRead(g))
          /\ ~DmaMayFail => chan[g][h] = Shows(g, h, EventsRead(g))

ReadInv == PostRead /\ RingRead

-----------------------------------------------------------------------------
(* Sequences of samples *)

\* Successive samples of one event, and what is older than the memory is Stale.
Slice(s, event, d) ==
    \A j \in 1 .. Len(s) : s[j].event = event /\ s[j].at = MaxOf(d + j, Stale)

LEMMA SliceInOrder ==
    ASSUME NEW s \in Seq(Words), NEW event \in Nat, NEW d \in Int, Slice(s, event, d)
    PROVE  InOrder(s) /\ Until(s, event + 1)
<1>1. Len(s) \in Nat
  OBVIOUS
<1>2. \A j \in 1 .. Len(s) : s[j].event = event /\ s[j].at = MaxOf(d + j, Stale)
  BY DEF Slice
<1>3. ASSUME NEW i \in 1 .. Len(s) - 1 PROVE s[i].at = Stale \/ Later(s[i], s[i + 1])
  <2>1. i \in 1 .. Len(s) /\ i + 1 \in 1 .. Len(s)
    BY <1>1
  <2>2. /\ s[i].event = event /\ s[i].at = MaxOf(d + i, Stale)
        /\ s[i + 1].event = event /\ s[i + 1].at = MaxOf(d + (i + 1), Stale)
    BY <1>2, <2>1
  <2>3. MaxOf(d + i, Stale) = Stale \/ MaxOf(d + i, Stale) < MaxOf(d + (i + 1), Stale)
    BY DEF MaxOf, Stale
  <2> QED BY <2>2, <2>3 DEF Later
<1> QED BY <1>2, <1>3 DEF InOrder, Until

LEMMA JoinInOrder ==
    ASSUME NEW s \in Seq(Words), NEW t \in Seq(Words), InOrder(s), InOrder(t),
           Len(s) > 0 /\ Len(t) > 0 => s[Len(s)].at = Stale \/ Later(s[Len(s)], t[1])
    PROVE  InOrder(s \o t)
<1>1. Len(s) \in Nat /\ Len(t) \in Nat
  OBVIOUS
<1>2. /\ Len(s \o t) = Len(s) + Len(t)
      /\ \A i \in 1 .. Len(s) + Len(t) :
            (s \o t)[i] = IF i <= Len(s) THEN s[i] ELSE t[i - Len(s)]
  BY ConcatProperties
<1>3. ASSUME NEW i \in 1 .. Len(s \o t) - 1
      PROVE  (s \o t)[i].at = Stale \/ Later((s \o t)[i], (s \o t)[i + 1])
  <2>1. CASE i < Len(s)
    <3>1. (s \o t)[i] = s[i] /\ (s \o t)[i + 1] = s[i + 1] /\ i \in 1 .. Len(s) - 1
      BY <1>1, <1>2, <2>1
    <3> QED BY <3>1 DEF InOrder
  <2>2. CASE i = Len(s)
    <3>1. (s \o t)[i] = s[Len(s)] /\ (s \o t)[i + 1] = t[1] /\ Len(s) > 0 /\ Len(t) > 0
      BY <1>1, <1>2, <2>2
    <3> QED BY <3>1
  <2>3. CASE i > Len(s)
    <3>1. /\ (s \o t)[i] = t[i - Len(s)] /\ (s \o t)[i + 1] = t[(i - Len(s)) + 1]
          /\ i - Len(s) \in 1 .. Len(t) - 1
      BY <1>1, <1>2, <2>3
    <3> QED BY <3>1 DEF InOrder
  <2> QED BY <1>1, <1>2, <2>1, <2>2, <2>3
<1> QED BY <1>3 DEF InOrder

LEMMA JoinUntil ==
    ASSUME NEW s \in Seq(Words), NEW t \in Seq(Words), NEW event \in Nat,
           Until(s, event), Until(t, event)
    PROVE  Until(s \o t, event)
<1>1. Len(s) \in Nat /\ Len(t) \in Nat
  OBVIOUS
<1>2. /\ Len(s \o t) = Len(s) + Len(t)
      /\ \A i \in 1 .. Len(s) + Len(t) :
            (s \o t)[i] = IF i <= Len(s) THEN s[i] ELSE t[i - Len(s)]
  BY ConcatProperties
<1>3. ASSUME NEW i \in 1 .. Len(s \o t) PROVE (s \o t)[i].event < event
  <2>1. CASE i <= Len(s)
    BY <1>1, <1>2, <2>1 DEF Until
  <2>2. CASE ~(i <= Len(s))
    <3>1. i - Len(s) \in 1 .. Len(t) /\ (s \o t)[i] = t[i - Len(s)]
      BY <1>1, <1>2, <2>2
    <3> QED BY <3>1 DEF Until
  <2> QED BY <2>1, <2>2
<1> QED BY <1>3 DEF Until

LEMMA UntilLater ==
    ASSUME NEW s \in Seq(Words), NEW event \in Nat, Until(s, event)
    PROVE  Until(s, event + 1)
<1>1. \A i \in 1 .. Len(s) : s[i] \in Words
  OBVIOUS
<1>2. \A i \in 1 .. Len(s) : s[i].event \in Nat
  BY <1>1 DEF Words
<1> QED BY <1>2 DEF Until

\* What two runs through one event add to the events before it.
LEMMA SlicesInOrder ==
    ASSUME NEW old \in Seq(Words), NEW s \in Seq(Words), NEW t \in Seq(Words),
           NEW event \in Nat, NEW d1 \in Int, NEW d2 \in Int,
           InOrder(old), Until(old, event), Slice(s, event, d1), Slice(t, event, d2),
           Len(s) > 0 => d1 + Len(s) <= d2
    PROVE  InOrder(old \o s \o t) /\ Until(old \o s \o t, event + 1)
<1>1. Len(old) \in Nat /\ Len(s) \in Nat /\ Len(t) \in Nat
  OBVIOUS
<1>2. InOrder(s) /\ Until(s, event + 1) /\ InOrder(t) /\ Until(t, event + 1)
  BY SliceInOrder
<1>3. Until(old, event + 1) /\ event + 1 \in Nat
  BY UntilLater
<1>4. /\ old \o s \in Seq(Words) /\ Len(old \o s) = Len(old) + Len(s)
      /\ \A i \in 1 .. Len(old) + Len(s) :
            (old \o s)[i] = IF i <= Len(old) THEN old[i] ELSE s[i - Len(old)]
  BY ConcatProperties
<1>5. Until(old \o s, event + 1)
  BY <1>2, <1>3, JoinUntil
<1>6. Until(old \o s \o t, event + 1)
  BY <1>2, <1>3, <1>4, <1>5, JoinUntil
<1>7. \A x, y : x.event < event /\ y.event = event => Later(x, y)
  BY DEF Later
<1>8. Len(s) > 0 => s[1].event = event
  BY <1>1 DEF Slice
<1>9. Len(t) > 0 => t[1].event = event /\ t[1].at = MaxOf(d2 + 1, Stale)
  BY <1>1 DEF Slice
<1>10. Len(old) > 0 => old[Len(old)].event < event
  BY <1>1 DEF Until
<1>11. InOrder(old \o s)
  BY <1>2, <1>7, <1>8, <1>10, JoinInOrder
<1>12. ASSUME Len(old \o s) > 0, Len(t) > 0
       PROVE  (old \o s)[Len(old \o s)].at = Stale \/ Later((old \o s)[Len(old \o s)], t[1])
  <2>1. CASE Len(s) > 0
    <3>1. (old \o s)[Len(old \o s)] = s[Len(s)] /\ Len(s) \in 1 .. Len(s)
      BY <1>1, <1>4, <2>1
    <3>2. s[Len(s)].event = event /\ s[Len(s)].at = MaxOf(d1 + Len(s), Stale)
      BY <3>1 DEF Slice
    <3>3. \/ MaxOf(d1 + Len(s), Stale) = Stale
          \/ MaxOf(d1 + Len(s), Stale) < MaxOf(d2 + 1, Stale)
      BY <1>1, <2>1 DEF MaxOf, Stale
    <3> QED BY <1>9, <1>12, <3>1, <3>2, <3>3 DEF Later
  <2>2. CASE ~(Len(s) > 0)
    <3>1. (old \o s)[Len(old \o s)] = old[Len(old)] /\ Len(old) > 0
      BY <1>1, <1>4, <1>12, <2>2
    <3> QED BY <1>7, <1>9, <1>10, <1>12, <3>1
  <2> QED BY <2>1, <2>2
<1>13. InOrder(old \o s \o t)
  BY <1>2, <1>4, <1>11, <1>12, JoinInOrder
<1> QED BY <1>6, <1>13

-----------------------------------------------------------------------------
(* The words of an event *)

\* An event has been recorded that is about to be read, and the events of the
\* driver are those of the card.
AtEvent ==
    /\ TypeOK /\ cb.at = "read" /\ cb.arm = armPrePostTrigger
    /\ cb.pps \in 1 .. EventSize /\ cb.event < cb.events /\ cb.events = EventsOf(reg.multi)
    /\ Len(hw.done) = cb.events

LEMMA EventFacts ==
    ASSUME AtEvent
    PROVE  /\ EventSize \in Nat \ {0} /\ cb.pps \in Nat \ {0} /\ cb.pps <= EventSize
           /\ cb.event \in Nat /\ cb.event + 1 \in 1 .. Len(hw.done)
           /\ hw.done[cb.event + 1] \in Nat
           /\ ArraySize \div cb.events = EventSize
           /\ cb.event * EventSize \in Nat
           /\ cb.group \in 0 .. Groups - 1
<1>1. EventSize \in Nat \ {0} /\ cb.pps \in Nat \ {0} /\ cb.pps <= EventSize
  BY EventSizeType DEF AtEvent
<1>2. /\ cb.event \in Nat /\ cb.events \in Nat /\ hw.done \in Seq(Nat)
      /\ cb.group \in 0 .. Groups - 1
  BY DEF AtEvent, TypeOK, Readers, Hardware
<1>3. cb.event + 1 \in 1 .. Len(hw.done)
  BY <1>2 DEF AtEvent
<1>4. hw.done[cb.event + 1] \in Nat
  BY <1>2, <1>3
<1>5. ArraySize \div cb.events = EventSize
  BY DEF AtEvent, EventSize
<1>6. cb.event * EventSize \in Nat
  BY <1>1, <1>2
<1> QED BY <1>1, <1>2, <1>3, <1>4, <1>5, <1>6

\* A cell of the event's part of the memory.
LEMMA EventWord ==
    ASSUME AtEvent, NEW cell \in 0 .. EventSize - 1
    PROVE  Word(cb.event * EventSize + cell) =
              [event |-> cb.event, at |-> SampleIn(cell, hw.done[cb.event + 1], EventSize)]
<1>1. EventSize \in Nat \ {0} /\ cb.event \in Int /\ cb.event + 1 \in 1 .. Len(hw.done)
  BY EventFacts
<1>2. /\ (cb.event * EventSize + cell) \div EventSize = cb.event
      /\ (cb.event * EventSize + cell) % EventSize = cell
  BY ONLY <1>1, cell \in 0 .. EventSize - 1, Quotient, Remainder
<1>3. ~(cb.arm # armPrePostTrigger) /\ ~(cb.event + 1 > Len(hw.done))
  BY <1>1 DEF AtEvent
<1> QED BY <1>2, <1>3 DEF Word

\* The word that is at a place of the runs through an event.
LEMMA RingWord ==
    ASSUME AtEvent, NEW nmax \in 1 .. EventSize, NEW pos \in 1 .. nmax
    PROVE  LET total == hw.done[cb.event + 1]
               runs  == Runs(total % EventSize, nmax, EventSize)
           IN Word(cb.event * EventSize + RunCell(runs, pos)) =
                 [event |-> cb.event, at |-> MaxOf(total - nmax + pos - 1, Stale)]
<1> DEFINE total == hw.done[cb.event + 1]
           runs  == Runs(total % EventSize, nmax, EventSize)
           cell  == RunCell(runs, pos)
<1>1. EventSize \in Nat \ {0} /\ total \in Nat
  BY EventFacts
<1> HIDE DEF total
<1>2. total % EventSize \in 0 .. EventSize - 1
  BY <1>1
<1>3. cell \in 0 .. EventSize - 1
  BY ONLY <1>1, <1>2, nmax \in 1 .. EventSize, pos \in 1 .. nmax, RunsStayInEvent
<1>4. SampleIn(cell, total, EventSize) = Newest(nmax, total)[pos]
  BY ONLY <1>1, nmax \in 1 .. EventSize, pos \in 1 .. nmax, RingRunsAreNewest
<1>5. Newest(nmax, total)[pos] = MaxOf(total - nmax + pos - 1, Stale)
  BY DEF Newest
<1> HIDE DEF cell
<1>6. Word(cb.event * EventSize + cell) =
         [event |-> cb.event, at |-> SampleIn(cell, total, EventSize)]
  BY <1>3, EventWord DEF total
<1> QED BY <1>4, <1>5, <1>6 DEF cell, total

-----------------------------------------------------------------------------
(* What is read of an event *)

EventBase == cb.event * EventSize
LastWord  == (IF cb.events = 1 THEN readLocation ELSE readPmemAddress(cb.event)) - EventBase
Room(h)   == ChanLen[cb.group][h] - Len(chan[cb.group][h])
Want(h)   == MinOf(Room(h), cb.pps)
Most      == MaxOf(Want("high"), Want("low"))
EventRuns == Runs(hw.done[cb.event + 1] % EventSize, Most, EventSize)
FirstRun(h, k1) ==
    readContiguous(EventBase + EventRuns.first, k1, Most - Want(h), Room(h))
Late(h, k1) == MaxOf((Most - Want(h)) - k1, 0)
SecondRun(h, k1, k2) ==
    readContiguous(EventBase, k2, Late(h, k1), Room(h) - Len(FirstRun(h, k1)))
Added(h, k1, k2) ==
    chan[cb.group][h] \o Copy(FirstRun(h, k1)) \o Copy(SecondRun(h, k1, k2))

\* The location register has the newest sample of the event.
LEMMA LastIs ==
    ASSUME AtEvent
    PROVE  /\ LastWord \in 0 .. EventSize - 1
           /\ AfterLast(LastWord, EventSize) = hw.done[cb.event + 1] % EventSize
<1> DEFINE total == hw.done[cb.event + 1]
<1>1. /\ EventSize \in Nat \ {0} /\ cb.event \in Nat /\ cb.event + 1 \in 1 .. Len(hw.done)
      /\ total \in Nat /\ EventBase \in Nat
  BY EventFacts DEF EventBase
<1>2. readPmemAddress(cb.event) = EventBase + ((total - 1) % EventSize)
  BY <1>1 DEF readPmemAddress, EventBase
<1>3. cb.events = 1 => readLocation = readPmemAddress(cb.event)
  <2>1. cb.events = 1 => Len(hw.done) = 1 /\ cb.event = 0
    BY <1>1 DEF AtEvent
  <2>2. Len(hw.done) = 1 => MaxOf(Len(hw.done) - 1, 0) = 0
    BY DEF MaxOf
  <2> QED BY <2>1, <2>2 DEF readLocation
<1> HIDE DEF total
<1>4. (total - 1) % EventSize \in 0 .. EventSize - 1
  BY <1>1
<1>5. LastWord = (total - 1) % EventSize
  <2>1. LastWord = readPmemAddress(cb.event) - EventBase
    BY <1>3 DEF LastWord
  <2> QED BY <1>1, <1>2, <1>4, <2>1
<1>6. AfterLast((total - 1) % EventSize, EventSize) = total % EventSize
  <2>1. CASE total = 0
    <3>1. (-1) * EventSize + (EventSize - 1) = total - 1 /\ 0 * EventSize + 0 = total
      BY <1>1, <2>1
    <3>2. EventSize - 1 \in 0 .. EventSize - 1 /\ 0 \in 0 .. EventSize - 1 /\ -1 \in Int /\ 0 \in Int
      BY <1>1
    <3>3. ((-1) * EventSize + (EventSize - 1)) % EventSize = EventSize - 1
      BY ONLY <1>1, <3>2, Remainder
    <3>4. (0 * EventSize + 0) % EventSize = 0
      BY ONLY <1>1, <3>2, Remainder
    <3>5. (total - 1) % EventSize = EventSize - 1 /\ total % EventSize = 0
      BY <3>1, <3>3, <3>4
    <3>6. AfterLast(EventSize - 1, EventSize) = 0
      BY <1>1 DEF AfterLast
    <3> QED BY <3>5, <3>6
  <2>2. CASE total # 0
    <3>1. total \in Nat \ {0} /\ EventSize \in Nat \ {0}
      BY <1>1, <2>2
    <3> QED BY ONLY <3>1, AfterNewest
  <2> QED BY <2>1, <2>2
<1> QED BY <1>4, <1>5, <1>6 DEF total

LEMMA WantFacts ==
    ASSUME AtEvent
    PROVE  /\ \A h \in Halves : /\ Room(h) \in Nat /\ Want(h) \in Nat /\ Want(h) <= Most
                                /\ Most - Want(h) \in Nat
                                /\ chan[cb.group][h] \in Seq(Words)
                                /\ Len(chan[cb.group][h]) \in Nat
                                /\ ChanLen[cb.group][h] \in Nat
                                /\ Want(h) <= Room(h) /\ Want(h) <= cb.pps
           /\ Most \in Nat /\ Most <= EventSize
<1>1. cb.group \in 0 .. Groups - 1 /\ cb.pps \in Nat /\ cb.pps <= EventSize /\ EventSize \in Nat
  BY EventFacts
<1>2. \A h \in Halves : /\ chan[cb.group][h] \in Seq(Words) /\ ChanLen[cb.group][h] \in Nat
                        /\ Len(chan[cb.group][h]) <= ChanLen[cb.group][h]
  BY <1>1, SetupTypes DEF AtEvent, TypeOK, Shown
<1>3. \A h \in Halves : /\ Len(chan[cb.group][h]) \in Nat /\ Room(h) \in Nat /\ Want(h) \in Nat
                        /\ Want(h) <= Room(h) /\ Want(h) <= cb.pps
  <2> SUFFICES ASSUME NEW h \in Halves
               PROVE  /\ Len(chan[cb.group][h]) \in Nat /\ Room(h) \in Nat
                      /\ Want(h) \in Nat /\ Want(h) <= Room(h) /\ Want(h) <= cb.pps
    OBVIOUS
  <2>1. /\ chan[cb.group][h] \in Seq(Words) /\ ChanLen[cb.group][h] \in Nat
        /\ Len(chan[cb.group][h]) <= ChanLen[cb.group][h]
    BY <1>2
  <2>2. Len(chan[cb.group][h]) \in Nat
    BY <2>1, LenProperties
  <2>3. Room(h) \in Nat
    BY ONLY <2>1, <2>2 DEF Room
  <2>4. Want(h) = IF Room(h) < cb.pps THEN Room(h) ELSE cb.pps
    BY DEF Want, MinOf
  <2> QED BY ONLY <1>1, <2>2, <2>3, <2>4
<1>4. Most \in Nat /\ Most <= EventSize /\ \A h \in Halves : Want(h) <= Most
  BY <1>1, <1>3 DEF Most, MaxOf, Halves
<1>5. \A h \in Halves : Most - Want(h) \in Nat
  BY <1>3, <1>4
<1> QED BY <1>2, <1>3, <1>4, <1>5

LEMMA ReadIs ==
    ASSUME AtEvent, readPrePostTrigger(cb.group)
    PROVE  \/ Most = 0 /\ chan' = chan
           \/ /\ Most > 0
              /\ \E k1 \in WordsRead(EventRuns.n1), k2 \in WordsRead(EventRuns.n2) :
                    chan' = [chan EXCEPT ![cb.group] = [h \in Halves |-> Added(h, k1, k2)]]
<1>1. ArraySize \div cb.events = EventSize
  BY EventFacts
<1>2. LastWord \in 0 .. EventSize - 1
  BY LastIs
<1>3. AfterLast(LastWord, EventSize) = hw.done[cb.event + 1] % EventSize
  BY LastIs
<1>4. Most \in Nat
  BY WantFacts
<1> DEFINE size   == ArraySize \div cb.events
           base   == cb.event * size
           last   == (IF cb.events = 1 THEN readLocation ELSE readPmemAddress(cb.event)) - base
           loc    == AfterLast(last, size)
           room(h) == ChanLen[cb.group][h] - Len(chan[cb.group][h])
           want(h) == MinOf(room(h), cb.pps)
           nmax   == MaxOf(want("high"), want("low"))
           skip(h) == nmax - want(h)
           runs   == Runs(loc, nmax, size)
           run1(k1, h) == readContiguous(base + runs.first, k1, skip(h), room(h))
           run2(k1, k2, h) == readContiguous(base, k2, MaxOf(skip(h) - k1, 0),
                                             room(h) - Len(run1(k1, h)))
           new(k1, k2) == [h \in Halves |-> chan[cb.group][h] \o Copy(run1(k1, h))
                                              \o Copy(run2(k1, k2, h))]
<1>5. \/ (last \notin 0 .. size - 1 \/ nmax <= 0) /\ chan' = chan
      \/ /\ ~(last \notin 0 .. size - 1 \/ nmax <= 0)
         /\ \E k1 \in WordsRead(runs.n1), k2 \in WordsRead(runs.n2) :
                 chan' = [chan EXCEPT ![cb.group] = new(k1, k2)]
  <2>1. readPrePostTrigger(cb.group)
    OBVIOUS
  <2> QED BY <2>1 DEF readPrePostTrigger
<1>6. size = EventSize
  BY <1>1
<1> HIDE DEF size
<1>7. base = EventBase /\ \A h : room(h) = Room(h)
  BY <1>6 DEF EventBase, Room
<1>8. last = LastWord
  BY <1>7 DEF LastWord
<1>9. \A h : want(h) = Want(h)
  BY <1>7 DEF Want
<1>10. nmax = Most
  BY <1>9 DEF Most
<1> HIDE DEF last, nmax
<1>11. loc = hw.done[cb.event + 1] % EventSize
  BY <1>3, <1>6, <1>8
<1> HIDE DEF loc
<1>12. runs = EventRuns
  BY <1>6, <1>10, <1>11 DEF EventRuns
<1> HIDE DEF runs, base, room, want
<1>13. \A k1, h : run1(k1, h) = FirstRun(h, k1)
  BY <1>7, <1>9, <1>10, <1>12 DEF FirstRun
<1>14. \A k1, k2, h : run2(k1, k2, h) = SecondRun(h, k1, k2)
  <2> HIDE DEF run1
  <2> QED BY <1>7, <1>9, <1>10, <1>13 DEF SecondRun, Late
<1> HIDE DEF run1, run2
<1>15. \A k1, k2 : new(k1, k2) = [h \in Halves |-> Added(h, k1, k2)]
  BY <1>13, <1>14 DEF Added
<1> HIDE DEF new
<1>16. last \in 0 .. size - 1
  BY <1>2, <1>6, <1>8
<1>17. nmax <= 0 => Most = 0
  BY <1>4, <1>10
<1>18. ~(nmax <= 0) => Most > 0
  BY <1>4, <1>10
<1> QED BY <1>5, <1>12, <1>15, <1>16, <1>17, <1>18

LEMMA RunFacts ==
    ASSUME AtEvent, Most > 0
    PROVE  /\ Most \in 1 .. EventSize
           /\ EventRuns.first \in Nat /\ EventRuns.n1 \in Nat /\ EventRuns.n2 \in Nat
           /\ EventRuns.n1 + EventRuns.n2 = Most
           /\ EventBase \in Nat /\ hw.done[cb.event + 1] \in Nat
<1>1. EventSize \in Nat \ {0} /\ hw.done[cb.event + 1] \in Nat /\ EventBase \in Nat
  BY EventFacts DEF EventBase
<1>2. Most \in 1 .. EventSize
  BY <1>1, WantFacts
<1> DEFINE loc == hw.done[cb.event + 1] % EventSize
<1>3. loc \in 0 .. EventSize - 1
  <2>1. PICK total \in Nat : total = hw.done[cb.event + 1]
    BY <1>1
  <2>2. total % EventSize \in 0 .. EventSize - 1
    BY <1>1, <2>1
  <2> QED BY <2>1, <2>2
<1> HIDE DEF loc
<1>4. LET runs == Runs(loc, Most, EventSize) IN
      runs.first \in Nat /\ runs.n1 \in Nat /\ runs.n2 \in Nat /\ runs.n1 + runs.n2 = Most
  BY <1>1, <1>2, <1>3 DEF Runs
<1> QED BY <1>1, <1>2, <1>4 DEF EventRuns, loc

\* The two runs of a channel are slices of the event, one before the other, and
\* they join if neither is cut short.
LEMMA RunSlices ==
    ASSUME AtEvent, Most > 0, NEW h \in Halves,
           NEW k1 \in 0 .. EventRuns.n1, NEW k2 \in 0 .. EventRuns.n2
    PROVE  LET s  == Copy(FirstRun(h, k1))
               t  == Copy(SecondRun(h, k1, k2))
               d1 == (hw.done[cb.event + 1] - Most) + (Most - Want(h)) - 1
               d2 == (hw.done[cb.event + 1] - Most) + (EventRuns.n1 + Late(h, k1)) - 1
           IN /\ s \in Seq(Words) /\ t \in Seq(Words) /\ Len(s) \in Nat /\ Len(t) \in Nat
              /\ d1 \in Int /\ d2 \in Int
              /\ Slice(s, cb.event, d1) /\ Slice(t, cb.event, d2)
              /\ Len(s) > 0 => d1 + Len(s) <= d2
              /\ k1 = EventRuns.n1 /\ k2 = EventRuns.n2 =>
                    /\ Len(s) + Len(t) = Want(h)
                    /\ Len(t) > 0 => d2 = d1 + Len(s)
<1> DEFINE total == hw.done[cb.event + 1]
           first == EventRuns.first
           n1    == EventRuns.n1
           n2    == EventRuns.n2
           skip  == Most - Want(h)
           room  == Room(h)
           run1  == FirstRun(h, k1)
           late  == Late(h, k1)
           run2  == SecondRun(h, k1, k2)
           s     == Copy(run1)
           t     == Copy(run2)
           d1    == (total - Most) + skip - 1
           d2    == (total - Most) + (n1 + late) - 1
<1>1. /\ Most \in 1 .. EventSize /\ first \in Nat /\ n1 \in Nat /\ n2 \in Nat /\ n1 + n2 = Most
      /\ EventBase \in Nat /\ total \in Nat
  BY RunFacts
<1>2. skip \in Nat /\ room \in Nat /\ Want(h) \in Nat /\ Want(h) <= room /\ Want(h) <= Most
  BY WantFacts
<1>3. k1 \in 0 .. n1 /\ k2 \in 0 .. n2
  OBVIOUS
<1>4. /\ run1 = readContiguous(EventBase + first, k1, skip, room)
      /\ late = MaxOf(skip - k1, 0)
      /\ run2 = readContiguous(EventBase, k2, late, room - Len(run1))
  BY DEF FirstRun, Late, SecondRun
<1> HIDE DEF total, first, n1, n2, room, run1, late, run2
<1>5. n1 + n2 - skip = Want(h) /\ skip <= n1 + n2
  BY <1>1, <1>2
<1> HIDE DEF skip
<1>6. /\ run1 \in Seq(Nat) /\ run2 \in Seq(Nat) /\ late \in Nat
      /\ Len(run1) \in Nat /\ Len(run2) \in Nat
      /\ Len(run1) > 0 => skip + Len(run1) <= n1
      /\ Len(run2) > 0 => late + Len(run2) <= n2
      /\ \A j \in 1 .. Len(run1) : run1[j] = EventBase + (first + (skip + j) - 1)
      /\ \A j \in 1 .. Len(run2) : run2[j] = EventBase + (late + j - 1)
      /\ k1 = n1 /\ k2 = n2 =>
            /\ Len(run1) + Len(run2) = Want(h)
            /\ Len(run1) = MaxOf(n1 - skip, 0)
  <2> DEFINE left == room - Len(run1)
             start == EventBase + first
  <2>1. start \in Nat /\ late \in Nat /\ k1 \in Int /\ k2 \in Int /\ room \in Int
    BY <1>1, <1>2, <1>3, <1>4 DEF MaxOf
  <2> HIDE DEF start
  <2>2. run1 = readContiguous(start, k1, skip, room)
    BY <1>4 DEF start
  <2>3. run1 \in Seq(Nat) /\ Len(run1) = MaxOf(MinOf(k1 - skip, room), 0) /\ Len(run1) \in Nat
    <3>1. start \in Nat /\ k1 \in Int /\ skip \in Nat /\ room \in Int
      BY <1>2, <2>1
    <3> QED BY <2>2, <3>1, ContiguousType, Zenon
  <2>4. \A j \in 1 .. Len(run1) : run1[j] = start + skip + j - 1
    BY <2>2, <2>3 DEF readContiguous
  <2>5. left \in Int
    BY <2>1, <2>3
  <2> HIDE DEF left
  <2>6. run2 = readContiguous(EventBase, k2, late, left)
    BY <1>4 DEF left
  <2>7. run2 \in Seq(Nat) /\ Len(run2) = MaxOf(MinOf(k2 - late, left), 0) /\ Len(run2) \in Nat
    <3>1. EventBase \in Nat /\ k2 \in Int /\ late \in Nat /\ left \in Int
      BY <1>1, <2>1, <2>5
    <3> QED BY <2>6, <3>1, ContiguousType, Zenon
  <2>8. \A j \in 1 .. Len(run2) : run2[j] = EventBase + late + j - 1
    BY <2>6, <2>7 DEF readContiguous
  <2>9. Len(run1) > 0 => skip + Len(run1) <= n1
    BY <1>1, <1>2, <1>3, <2>3 DEF MaxOf, MinOf
  <2>10. Len(run2) > 0 => late + Len(run2) <= n2
    BY <1>1, <1>3, <2>1, <2>5, <2>7 DEF MaxOf, MinOf
  <2>11. \A j \in 1 .. Len(run1) : run1[j] = EventBase + (first + (skip + j) - 1)
    BY <1>1, <1>2, <2>4 DEF start
  <2>12. \A j \in 1 .. Len(run2) : run2[j] = EventBase + (late + j - 1)
    BY <1>1, <2>1, <2>8
  <2>13. ASSUME k1 = n1, k2 = n2
         PROVE  Len(run1) + Len(run2) = Want(h) /\ Len(run1) = MaxOf(n1 - skip, 0)
    <3>1. Len(run1) = MaxOf(n1 - skip, 0) /\ late = MaxOf(skip - n1, 0)
      BY <1>1, <1>2, <1>4, <1>5, <2>3, <2>13 DEF MaxOf, MinOf
    <3>2. left = room - Len(run1) /\ Len(run2) = MaxOf(MinOf(n2 - late, left), 0)
      BY <2>7, <2>13 DEF left
    <3> QED BY <1>1, <1>2, <1>5, <3>1, <3>2 DEF MaxOf, MinOf
  <2> QED BY <2>1, <2>3, <2>7, <2>9, <2>10, <2>11, <2>12, <2>13
<1>7. AtEvent /\ run1 \in Seq(Nat) /\ run2 \in Seq(Nat)
  BY <1>6
<1>8. s \in Seq(Words) /\ Len(s) = Len(run1) /\ t \in Seq(Words) /\ Len(t) = Len(run2)
  BY <1>7, CopyType DEF AtEvent
<1>9. ASSUME NEW pos \in 1 .. Most
      PROVE  Word(EventBase + RunCell(EventRuns, pos)) =
                [event |-> cb.event, at |-> MaxOf(total - Most + pos - 1, Stale)]
  BY <1>1, RingWord DEF EventRuns, EventBase, total
<1>10. Slice(s, cb.event, d1)
  <2> SUFFICES ASSUME NEW j \in 1 .. Len(run1)
               PROVE  s[j].event = cb.event /\ s[j].at = MaxOf(d1 + j, Stale)
    <3> HIDE DEF s, d1
    <3> QED BY <1>8 DEF Slice
  <2>1. skip + j \in 1 .. n1 /\ skip + j \in 1 .. Most
    BY <1>1, <1>2, <1>6
  <2>2. RunCell(EventRuns, skip + j) = first + (skip + j) - 1
    BY <1>1, <2>1 DEF RunCell, first, n1
  <2>3. run1[j] = EventBase + (first + (skip + j) - 1)
    BY <1>6
  <2>4. s[j] = Word(run1[j])
    BY <1>6 DEF Copy
  <2>5. Word(EventBase + RunCell(EventRuns, skip + j)) =
            [event |-> cb.event, at |-> MaxOf(total - Most + (skip + j) - 1, Stale)]
    BY <1>9, <2>1
  <2>6. total - Most + (skip + j) - 1 = d1 + j
    BY <1>1, <1>2
  <2> QED BY <2>2, <2>3, <2>4, <2>5, <2>6
<1>11. Slice(t, cb.event, d2)
  <2> SUFFICES ASSUME NEW j \in 1 .. Len(run2)
               PROVE  t[j].event = cb.event /\ t[j].at = MaxOf(d2 + j, Stale)
    <3> HIDE DEF t, d2
    <3> QED BY <1>8 DEF Slice
  <2>1. late + j \in 1 .. n2 /\ n1 + (late + j) \in 1 .. Most /\ ~(n1 + (late + j) <= n1)
    BY <1>1, <1>2, <1>6
  <2>2. RunCell(EventRuns, n1 + (late + j)) = late + j - 1
    <3>1. (n1 + (late + j)) - n1 - 1 = late + j - 1
      BY <1>1, <1>6
    <3> QED BY <2>1, <3>1 DEF RunCell, first, n1
  <2>3. run2[j] = EventBase + (late + j - 1)
    BY <1>6
  <2>4. t[j] = Word(run2[j])
    BY <1>6 DEF Copy
  <2>5. Word(EventBase + RunCell(EventRuns, n1 + (late + j))) =
            [event |-> cb.event, at |-> MaxOf(total - Most + (n1 + (late + j)) - 1, Stale)]
    BY <1>9, <2>1
  <2>6. total - Most + (n1 + (late + j)) - 1 = d2 + j
    BY <1>1, <1>6
  <2> QED BY <2>2, <2>3, <2>4, <2>5, <2>6
<1> HIDE DEF s, t
<1>12. d1 \in Int /\ d2 \in Int
  BY <1>1, <1>2, <1>6
<1>13. Len(s) > 0 => d1 + Len(s) <= d2
  BY <1>1, <1>2, <1>6, <1>8
<1>14. ASSUME k1 = n1, k2 = n2
       PROVE  Len(s) + Len(t) = Want(h) /\ (Len(t) > 0 => d2 = d1 + Len(s))
  <2>1. Len(run1) + Len(run2) = Want(h) /\ Len(run1) = MaxOf(n1 - skip, 0)
    BY <1>6, <1>14
  <2>2. late = MaxOf(skip - n1, 0)
    BY <1>4, <1>14
  <2>3. d2 = d1 + Len(run1)
    BY <1>1, <1>2, <2>1, <2>2 DEF MaxOf
  <2> QED BY <1>8, <2>1, <2>3
<1> HIDE DEF d1, d2
<1> QED BY <1>8, <1>6, <1>10, <1>11, <1>12, <1>13, <1>14
        DEF s, t, d1, d2, run1, run2, late, n1, n2, skip, total

\* What is read of an event comes after what has been read.
LEMMA AddedInOrder ==
    ASSUME AtEvent, Most > 0, NEW h \in Halves,
           NEW k1 \in 0 .. EventRuns.n1, NEW k2 \in 0 .. EventRuns.n2,
           InOrder(chan[cb.group][h]), Until(chan[cb.group][h], cb.event)
    PROVE  InOrder(Added(h, k1, k2)) /\ Until(Added(h, k1, k2), cb.event + 1)
<1> DEFINE s  == Copy(FirstRun(h, k1))
           t  == Copy(SecondRun(h, k1, k2))
           d1 == (hw.done[cb.event + 1] - Most) + (Most - Want(h)) - 1
           d2 == (hw.done[cb.event + 1] - Most) + (EventRuns.n1 + Late(h, k1)) - 1
           old == chan[cb.group][h]
<1>1. /\ s \in Seq(Words) /\ t \in Seq(Words) /\ d1 \in Int /\ d2 \in Int
      /\ Slice(s, cb.event, d1) /\ Slice(t, cb.event, d2)
      /\ Len(s) > 0 => d1 + Len(s) <= d2
  BY RunSlices
<1>2. Added(h, k1, k2) = old \o s \o t
  BY DEF Added
<1> HIDE DEF s, t, d1, d2
<1>3. old \in Seq(Words) /\ cb.event \in Nat
  BY WantFacts, EventFacts
<1>4. InOrder(old) /\ Until(old, cb.event)
  OBVIOUS
<1> HIDE DEF old
<1>5. InOrder(old \o s \o t) /\ Until(old \o s \o t, cb.event + 1)
  BY ONLY <1>1, <1>3, <1>4, SlicesInOrder
<1> QED BY <1>2, <1>5

\* All that is read of an event are its newest samples.
NewestOf(add, event) ==
    \A j \in 1 .. Len(add) :
        add[j].event = event /\ add[j].at = Newest(Len(add), hw.done[event + 1])[j]

\* Nothing is missing if no transfer fails.
LEMMA AddedWhole ==
    ASSUME AtEvent, Most > 0, NEW h \in Halves
    PROVE  \E add \in Seq(Words) :
              /\ Added(h, EventRuns.n1, EventRuns.n2) = chan[cb.group][h] \o add
              /\ Len(add) = Want(h) /\ NewestOf(add, cb.event)
<1> DEFINE n1 == EventRuns.n1
           n2 == EventRuns.n2
           total == hw.done[cb.event + 1]
           s  == Copy(FirstRun(h, n1))
           t  == Copy(SecondRun(h, n1, n2))
           d1 == (total - Most) + (Most - Want(h)) - 1
           d2 == (total - Most) + (n1 + Late(h, n1)) - 1
           old == chan[cb.group][h]
<1>1. n1 \in 0 .. n1 /\ n2 \in 0 .. n2 /\ total \in Nat
  BY RunFacts
<1>2. /\ s \in Seq(Words) /\ t \in Seq(Words) /\ Len(s) \in Nat /\ Len(t) \in Nat
      /\ d1 \in Int /\ d2 \in Int
      /\ Slice(s, cb.event, d1) /\ Slice(t, cb.event, d2)
      /\ Len(s) + Len(t) = Want(h)
      /\ Len(t) > 0 => d2 = d1 + Len(s)
  BY <1>1, RunSlices
<1>3. Added(h, n1, n2) = old \o s \o t
  BY DEF Added
<1>4. Most \in Nat /\ Want(h) \in Nat /\ old \in Seq(Words)
  BY WantFacts
<1>5. d1 = total - Want(h) - 1
  BY <1>1, <1>4
<1> HIDE DEF s, t, d1, d2, old, total
<1>6. old \o s \o t = old \o (s \o t)
  BY <1>2, <1>4, ConcatAssociative
<1>7. /\ s \o t \in Seq(Words) /\ Len(s \o t) = Len(s) + Len(t)
      /\ \A i \in 1 .. Len(s) + Len(t) :
            (s \o t)[i] = IF i <= Len(s) THEN s[i] ELSE t[i - Len(s)]
  BY <1>2, ConcatProperties
<1>8. ASSUME NEW j \in 1 .. Want(h)
      PROVE  (s \o t)[j].event = cb.event /\ (s \o t)[j].at = MaxOf(d1 + j, Stale)
  <2>1. CASE j <= Len(s)
    <3>1. j \in 1 .. Len(s) /\ (s \o t)[j] = s[j]
      BY <1>2, <1>7, <2>1
    <3> QED BY <1>2, <3>1 DEF Slice
  <2>2. CASE ~(j <= Len(s))
    <3>1. j - Len(s) \in 1 .. Len(t) /\ (s \o t)[j] = t[j - Len(s)]
      BY <1>2, <1>7, <2>2
    <3>2. /\ t[j - Len(s)].event = cb.event
          /\ t[j - Len(s)].at = MaxOf(d2 + (j - Len(s)), Stale)
      BY <1>2, <3>1 DEF Slice
    <3>3. d2 + (j - Len(s)) = d1 + j
      BY <1>2, <3>1
    <3> QED BY <3>1, <3>2, <3>3
  <2> QED BY <2>1, <2>2
<1>9. ASSUME NEW j \in 1 .. Want(h)
      PROVE  Newest(Want(h), total)[j] = MaxOf(d1 + j, Stale)
  <2>1. total - Want(h) + j - 1 = d1 + j
    BY <1>1, <1>4, <1>5
  <2> QED BY <2>1 DEF Newest
<1>10. Len(s \o t) = Want(h)
  BY <1>2, <1>7
<1> HIDE DEF n1, n2
<1>11. s \o t \in Seq(Words) /\ NewestOf(s \o t, cb.event)
  BY <1>7, <1>8, <1>9, <1>10 DEF NewestOf, total
<1> QED BY <1>3, <1>6, <1>10, <1>11 DEF n1, n2, old

-----------------------------------------------------------------------------
(* What a channel shows of the first events *)

LEMMA Times == \A a \in Nat, n \in Nat : a * n \in Nat /\ a * (n + 1) = a * n + a
OBVIOUS

LEMMA ShowsFacts ==
    ASSUME TypeOK, NEW g \in 0 .. Groups - 1, NEW h \in Halves, NEW events \in Nat
    PROVE  /\ ChanLen[g][h] \in Nat /\ cb.pps \in Nat /\ cb.pps * events \in Nat
           /\ Len(Shows(g, h, events)) = MinOf(cb.pps * events, ChanLen[g][h])
           /\ Len(Shows(g, h, events)) \in Nat
<1>1. ChanLen[g][h] \in Nat /\ cb.pps \in Nat
  BY SetupTypes DEF TypeOK, Readers
<1>2. cb.pps * events \in Nat
  BY <1>1, Times
<1> DEFINE n == MinOf(cb.pps * events, ChanLen[g][h])
<1>3. n \in Nat
  BY <1>1, <1>2 DEF MinOf
<1>4. Shows(g, h, events) = [i \in 1 .. n |-> SampleOf(g, h, i)]
  BY DEF Shows
<1> HIDE DEF n
<1>5. Len(Shows(g, h, events)) = n
  BY <1>3, <1>4
<1> QED BY <1>1, <1>2, <1>3, <1>5 DEF n

LEMMA ShowsNone ==
    ASSUME TypeOK, NEW g \in 0 .. Groups - 1, NEW h \in Halves
    PROVE  Shows(g, h, 0) = <<>>
<1>1. ChanLen[g][h] \in Nat /\ cb.pps \in Nat
  BY ShowsFacts
<1>2. MinOf(cb.pps * 0, ChanLen[g][h]) = 0
  BY <1>1 DEF MinOf
<1>3. Shows(g, h, 0) = [i \in 1 .. 0 |-> SampleOf(g, h, i)]
  BY <1>2 DEF Shows
<1> QED BY <1>3

\* A channel that is full shows nothing of the next event.
LEMMA ShowsFull ==
    ASSUME TypeOK, NEW g \in 0 .. Groups - 1, NEW h \in Halves, NEW events \in Nat,
           Len(Shows(g, h, events)) = ChanLen[g][h]
    PROVE  Shows(g, h, events + 1) = Shows(g, h, events)
<1> DEFINE some  == cb.pps * events
           more  == cb.pps * (events + 1)
           len   == ChanLen[g][h]
<1>1. len \in Nat /\ cb.pps \in Nat /\ some \in Nat /\ MinOf(some, len) = len
  BY ShowsFacts
<1>2. more = some + cb.pps
  BY <1>1, Times
<1>3. /\ Shows(g, h, events) = [i \in 1 .. MinOf(some, len) |-> SampleOf(g, h, i)]
      /\ Shows(g, h, events + 1) = [i \in 1 .. MinOf(more, len) |-> SampleOf(g, h, i)]
  BY DEF Shows
<1> HIDE DEF some, more, len
<1>4. MinOf(more, len) = MinOf(some, len)
  BY <1>1, <1>2 DEF MinOf
<1> QED BY <1>3, <1>4

LEMMA RoomTaken ==
    ASSUME NEW before \in Nat, NEW pps \in Nat, NEW len \in Nat, NEW m \in Nat, NEW n \in Nat,
           m = MinOf(before, len), n = MinOf(len - m, pps)
    PROVE  m + n = MinOf(before + pps, len)
BY DEF MinOf

\* The samples of one event more.
LEMMA ShowsAdded ==
    ASSUME TypeOK, NEW g \in 0 .. Groups - 1, NEW h \in Halves, NEW event \in Nat,
           NEW old \in Seq(Words), old = Shows(g, h, event),
           NEW add \in Seq(Words), NewestOf(add, event),
           Len(add) = MinOf(ChanLen[g][h] - Len(old), cb.pps)
    PROVE  old \o add = Shows(g, h, event + 1)
<1> DEFINE n   == Len(add)
           pps == cb.pps
           len == ChanLen[g][h]
           before == pps * event
           after == pps * (event + 1)
<1>1. /\ pps \in Nat /\ len \in Nat /\ before \in Nat
      /\ Len(old) = MinOf(before, len) /\ Len(old) \in Nat
  BY ShowsFacts
<1>2. after = before + pps /\ after \in Nat
  <2> HIDE DEF pps
  <2> QED BY <1>1, Times
<1>3. old = [i \in 1 .. MinOf(before, len) |-> SampleOf(g, h, i)]
  BY DEF Shows
<1>4. Shows(g, h, event + 1) = [i \in 1 .. MinOf(after, len) |-> SampleOf(g, h, i)]
  BY DEF Shows
<1>5. n = MinOf(len - Len(old), pps) /\ n \in Nat
  OBVIOUS
<1> HIDE DEF n
<1>6. n > 0 => Len(old) = before /\ n = MinOf(pps, len - before) /\ pps \in Nat \ {0}
  <2> HIDE DEF before, len, pps
  <2> QED BY <1>1, <1>5 DEF MinOf
<1>7. Len(old) + n = MinOf(after, len)
  <2> HIDE DEF before, len, pps, after
  <2>1. PICK m \in Nat : m = Len(old)
    BY <1>1
  <2>2. m + n = MinOf(before + pps, len)
    <3>1. m = MinOf(before, len) /\ n = MinOf(len - m, pps) /\ n \in Nat
      BY <1>1, <1>5, <2>1
    <3> QED BY ONLY <1>1, <2>1, <3>1, RoomTaken
  <2> QED BY <1>2, <2>1, <2>2
<1>8. ASSUME NEW j \in 1 .. n PROVE add[j] = SampleOf(g, h, Len(old) + j)
  <2>1. Len(old) = before /\ n = MinOf(pps, len - before) /\ pps \in Nat \ {0}
    BY <1>5, <1>6
  <2>2. j - 1 \in 0 .. pps - 1
    <3> HIDE DEF pps, len, before
    <3> QED BY <1>1, <2>1 DEF MinOf
  <2>3. (before + j) - 1 = event * pps + (j - 1)
    <3> HIDE DEF pps
    <3> QED BY <2>1
  <2>4. ((before + j) - 1) \div pps = event /\ ((before + j) - 1) % pps = j - 1
    <3> HIDE DEF pps, before
    <3>1. event \in Int
      OBVIOUS
    <3>2. (event * pps + (j - 1)) \div pps = event
      BY ONLY <2>1, <2>2, <3>1, Quotient
    <3>3. (event * pps + (j - 1)) % pps = j - 1
      BY ONLY <2>1, <2>2, <3>1, Remainder
    <3> QED BY <2>3, <3>2, <3>3
  <2>5. MinOf(pps, len - event * pps) = n
    <3> HIDE DEF pps
    <3>1. event * pps = before
      BY <2>1
    <3> QED BY <2>1, <3>1
  <2>6. SampleOf(g, h, before + j) =
          [event |-> event, at |-> Newest(n, hw.done[event + 1])[j - 1 + 1]]
    <3> HIDE DEF before
    <3> QED BY <2>4, <2>5 DEF SampleOf
  <2>7. j - 1 + 1 = j
    OBVIOUS
  <2>8. add[j] \in Words
    BY DEF n
  <2>9. add[j] = [event |-> add[j].event, at |-> add[j].at]
    BY <2>8 DEF Words
  <2>10. add[j].event = event /\ add[j].at = Newest(n, hw.done[event + 1])[j]
    BY DEF NewestOf, n
  <2> QED BY <2>1, <2>6, <2>7, <2>9, <2>10
<1> HIDE DEF before, after, len, pps
<1>9. old \o add = [i \in 1 .. Len(old) + n |->
                        IF i <= Len(old) THEN old[i] ELSE add[i - Len(old)]]
  <2>1. old \in Seq(Words) /\ add \in Seq(Words) /\ Len(add) = n
    BY DEF n
  <2>2. old \o add = [i \in 1 .. Len(old) + Len(add) |->
                          IF i <= Len(old) THEN old[i] ELSE add[i - Len(old)]]
    BY ONLY <2>1, ConcatIs
  <2> QED BY <2>1, <2>2
<1>10. ASSUME NEW i \in 1 .. Len(old) + n
       PROVE  (IF i <= Len(old) THEN old[i] ELSE add[i - Len(old)]) = SampleOf(g, h, i)
  <2>1. CASE i <= Len(old)
    BY <1>1, <1>3, <2>1
  <2>2. CASE ~(i <= Len(old))
    <3>1. i - Len(old) \in 1 .. n /\ Len(old) + (i - Len(old)) = i
      BY <1>1, <1>5, <2>2
    <3> QED BY <1>8, <2>2, <3>1
  <2> QED BY <2>1, <2>2
<1>11. old \o add = [i \in 1 .. Len(old) + n |-> SampleOf(g, h, i)]
  BY <1>9, <1>10
<1> QED BY <1>4, <1>7, <1>11

-----------------------------------------------------------------------------
(* One call of readPrePostTrigger or readPostTrigger *)

LEMMA WordsReadFacts ==
    ASSUME NEW n \in Nat, NEW k \in WordsRead(n)
    PROVE  k \in 0 .. n /\ (~DmaMayFail => k = n)
BY DEF WordsRead, MaxOf

\* A group has been read as far as the event before, and is read one further.
LEMMA GroupAdded ==
    ASSUME AtEvent, readPrePostTrigger(cb.group), NEW h \in Halves,
           InOrder(chan[cb.group][h]), Until(chan[cb.group][h], cb.event),
           ~DmaMayFail => chan[cb.group][h] = Shows(cb.group, h, cb.event)
    PROVE  /\ InOrder(chan'[cb.group][h]) /\ Until(chan'[cb.group][h], cb.event + 1)
           /\ ~DmaMayFail => chan'[cb.group][h] = Shows(cb.group, h, cb.event + 1)
<1>1. TypeOK /\ cb.group \in 0 .. Groups - 1 /\ cb.event \in Nat /\ cb.pps \in Nat \ {0}
  BY EventFacts DEF AtEvent
<1>2. /\ Room(h) \in Nat /\ Want(h) \in Nat /\ Want(h) <= Most /\ Most \in Nat
      /\ chan[cb.group][h] \in Seq(Words) /\ Len(chan[cb.group][h]) \in Nat
      /\ ChanLen[cb.group][h] \in Nat
  BY WantFacts
<1>3. CASE Most = 0 /\ chan' = chan
  <2>1. Until(chan[cb.group][h], cb.event + 1)
    BY <1>1, <1>2, UntilLater
  <2>2. Want(h) = 0 /\ Room(h) = 0
    <3>1. Want(h) = 0
      BY <1>2, <1>3
    <3> QED BY <1>1, <1>2, <3>1 DEF Want, MinOf
  <2>3. Len(chan[cb.group][h]) = ChanLen[cb.group][h]
    BY <1>2, <2>2 DEF Room
  <2>4. ASSUME ~DmaMayFail
        PROVE  chan[cb.group][h] = Shows(cb.group, h, cb.event + 1)
    <3>1. Len(Shows(cb.group, h, cb.event)) = ChanLen[cb.group][h]
      BY <2>3, <2>4
    <3>2. Shows(cb.group, h, cb.event + 1) = Shows(cb.group, h, cb.event)
      BY <1>1, <3>1, ShowsFull
    <3> QED BY <2>4, <3>2
  <2> QED BY <1>3, <2>1, <2>4
<1>4. CASE Most > 0 /\ \E k1 \in WordsRead(EventRuns.n1), k2 \in WordsRead(EventRuns.n2) :
                    chan' = [chan EXCEPT ![cb.group] = [s \in Halves |-> Added(s, k1, k2)]]
  <2>1. PICK k1 \in WordsRead(EventRuns.n1), k2 \in WordsRead(EventRuns.n2) :
                    chan' = [chan EXCEPT ![cb.group] = [s \in Halves |-> Added(s, k1, k2)]]
    BY <1>4
  <2>2. EventRuns.n1 \in Nat /\ EventRuns.n2 \in Nat
    BY <1>4, RunFacts
  <2>3. /\ k1 \in 0 .. EventRuns.n1 /\ (~DmaMayFail => k1 = EventRuns.n1)
        /\ k2 \in 0 .. EventRuns.n2 /\ (~DmaMayFail => k2 = EventRuns.n2)
    BY <2>1, <2>2, WordsReadFacts
  <2>4. chan'[cb.group][h] = Added(h, k1, k2)
    <3>1. DOMAIN chan = 0 .. Groups - 1
      BY <1>1 DEF TypeOK, Shown
    <3> DEFINE new == [s \in Halves |-> Added(s, k1, k2)]
    <3>2. new[h] = Added(h, k1, k2)
      OBVIOUS
    <3>3. chan' = [chan EXCEPT ![cb.group] = new]
      BY <2>1
    <3> HIDE DEF new
    <3>4. chan'[cb.group] = new
      BY <1>1, <3>1, <3>3
    <3> QED BY <3>2, <3>4
  <2>5. InOrder(Added(h, k1, k2)) /\ Until(Added(h, k1, k2), cb.event + 1)
    BY <1>4, <2>3, AddedInOrder
  <2>6. ASSUME ~DmaMayFail
        PROVE  Added(h, k1, k2) = Shows(cb.group, h, cb.event + 1)
    <3>1. k1 = EventRuns.n1 /\ k2 = EventRuns.n2
      BY <2>3, <2>6
    <3>2. PICK add \in Seq(Words) :
              /\ Added(h, EventRuns.n1, EventRuns.n2) = chan[cb.group][h] \o add
              /\ Len(add) = Want(h) /\ NewestOf(add, cb.event)
      BY <1>4, AddedWhole
    <3> DEFINE old == chan[cb.group][h]
    <3>3. Want(h) = MinOf(ChanLen[cb.group][h] - Len(old), cb.pps)
      BY DEF Want, Room
    <3>4. old = Shows(cb.group, h, cb.event) /\ old \in Seq(Words)
      BY <1>2, <2>6
    <3> HIDE DEF old
    <3>5. old \o add = Shows(cb.group, h, cb.event + 1)
      <4> DEFINE g == cb.group
                 event == cb.event
      <4>1. /\ TypeOK /\ g \in 0 .. Groups - 1 /\ event \in Nat
            /\ h \in Halves /\ add \in Seq(Words) /\ NewestOf(add, event)
            /\ old \in Seq(Words) /\ old = Shows(g, h, event)
            /\ Len(add) = MinOf(ChanLen[g][h] - Len(old), cb.pps)
        BY <1>1, <3>2, <3>3, <3>4
      <4> HIDE DEF g, event
      <4>2. old \o add = Shows(g, h, event + 1)
        BY ONLY <4>1, ShowsAdded
      <4> QED BY <4>2 DEF g, event
    <3> QED BY <3>1, <3>2, <3>5 DEF old
  <2> QED BY <2>4, <2>5, <2>6
<1> QED BY <1>3, <1>4, ReadIs

\* A post-trigger set is recorded from the first cell on.
LEMMA PostAdded ==
    ASSUME TypeOK, cb.arm = armPostTrigger, NEW g \in 0 .. Groups - 1, NEW h \in Halves,
           readPostTrigger(g), hw.total <= ArraySize,
           hw.total >= MinOf(drv.pts * drv.pte, ArraySize)
    PROVE  /\ InOrder(chan'[g][h])
           /\ ~DmaMayFail =>
                 LET n == MinOf(MinOf(drv.pts * drv.pte, ArraySize), ChanLen[g][h])
                 IN chan'[g][h] = [i \in 1 .. n |-> [event |-> 0, at |-> i - 1]]
<1> DEFINE ndata == MinOf(drv.pts * drv.pte, ArraySize)
           len == ChanLen[g][h]
<1>1. /\ ndata \in Int /\ len \in Nat /\ hw.total \in Nat /\ ArraySize \in Nat
      /\ ndata <= hw.total
  <2>1. drv.pts * drv.pte \in Int /\ ArraySize \in Nat /\ hw.total \in Nat /\ len \in Nat
    <3>1. drv.pts \in Int /\ drv.pte \in Int
      BY DEF TypeOK, Drivers
    <3> QED BY <3>1, SetupTypes DEF TypeOK, Hardware
  <2>2. ndata \in Int
    <3>1. PICK p \in Int : p = drv.pts * drv.pte
      BY <2>1
    <3> QED BY <2>1, <3>1 DEF MinOf
  <2> HIDE DEF ndata, len
  <2>3. ndata <= hw.total
    <3>1. hw.total >= ndata
      BY DEF ndata
    <3> QED BY <2>1, <2>2, <3>1
  <2> QED BY <2>1, <2>2, <2>3
<1>2. PICK k \in WordsRead(ndata) :
        chan' = [chan EXCEPT ![g] =
                    [s \in Halves |-> Copy(readContiguous(0, k, 0, ChanLen[g][s]))]]
  BY DEF readPostTrigger
<1> HIDE DEF ndata
<1>3. k \in Nat /\ k <= hw.total /\ (~DmaMayFail => k = MaxOf(ndata, 0))
  <2>1. k \in 0 .. MaxOf(ndata, 0) /\ (k = MaxOf(ndata, 0) \/ DmaMayFail)
    BY <1>2 DEF WordsRead
  <2> QED BY <1>1, <2>1 DEF MaxOf
<1> DEFINE cells == readContiguous(0, k, 0, len)
           new == Copy(cells)
<1>4. chan'[g][h] = new
  <2> DEFINE all == [s \in Halves |-> Copy(readContiguous(0, k, 0, ChanLen[g][s]))]
  <2>1. all[h] = new
    OBVIOUS
  <2>2. chan' = [chan EXCEPT ![g] = all] /\ DOMAIN chan = 0 .. Groups - 1
    BY <1>2 DEF TypeOK, Shown
  <2> HIDE DEF all, new
  <2>3. chan'[g] = all
    BY <2>2
  <2> QED BY <2>1, <2>3
<1> DEFINE n == MaxOf(MinOf(k, len), 0)
<1>5. n \in Nat /\ n <= k
  BY <1>1, <1>3 DEF MinOf, MaxOf
<1> HIDE DEF len
<1>6. cells = [i \in 1 .. n |-> i - 1]
  <2>1. MaxOf(MinOf(k - 0, len), 0) = n
    BY <1>3
  <2>2. cells = [i \in 1 .. n |-> 0 + 0 + i - 1]
    BY <2>1 DEF readContiguous
  <2>3. \A i \in 1 .. n : 0 + 0 + i - 1 = i - 1
    OBVIOUS
  <2> HIDE DEF cells, n
  <2> QED BY <2>2, <2>3
<1> HIDE DEF cells
<1>7. \A i \in 1 .. n : Word(i - 1) = [event |-> 0, at |-> i - 1]
  <2> SUFFICES ASSUME NEW i \in 1 .. n PROVE Word(i - 1) = [event |-> 0, at |-> i - 1]
    OBVIOUS
  <2>1. i - 1 \in 0 .. hw.total - 1 /\ hw.total \in 0 .. ArraySize
    BY <1>1, <1>3, <1>5
  <2>2. SampleIn(i - 1, hw.total, ArraySize) = i - 1
    BY <1>1, <2>1, FirstCells
  <2>3. ~(cb.arm # armPrePostTrigger) => FALSE
    BY DEF armPostTrigger, armPrePostTrigger
  <2> QED BY <2>2, <2>3 DEF Word
<1>8. new = [i \in 1 .. n |-> [event |-> 0, at |-> i - 1]]
  <2>1. DOMAIN cells = 1 .. n /\ \A i \in 1 .. n : cells[i] = i - 1
    BY <1>6
  <2>2. new = [i \in 1 .. n |-> Word(cells[i])]
    BY <2>1 DEF Copy
  <2> HIDE DEF n, new
  <2> QED BY <1>7, <2>1, <2>2
<1> HIDE DEF new
<1>9. InOrder(new)
  <2>1. Len(new) = n /\ \A i \in 1 .. n : new[i].event = 0 /\ new[i].at = i - 1
    <3> HIDE DEF n
    <3> QED BY <1>5, <1>8
  <2>2. ASSUME NEW i \in 1 .. Len(new) - 1 PROVE Later(new[i], new[i + 1])
    <3>1. /\ new[i].event = 0 /\ new[i].at = i - 1
          /\ new[i + 1].event = 0 /\ new[i + 1].at = i
      BY <1>5, <2>1
    <3> QED BY <3>1 DEF Later
  <2> QED BY <2>2 DEF InOrder
<1>10. ASSUME ~DmaMayFail
       PROVE  new = [i \in 1 .. MinOf(ndata, len) |-> [event |-> 0, at |-> i - 1]]
  <2>1. 1 .. n = 1 .. MinOf(ndata, len)
    <3>1. k = MaxOf(ndata, 0)
      BY <1>3, <1>10
    <3>2. \/ n = MinOf(ndata, len)
          \/ n = 0 /\ MinOf(ndata, len) < 0
      BY <1>1, <3>1 DEF MinOf, MaxOf, len
    <3>3. MinOf(ndata, len) \in Int
      BY <1>1 DEF MinOf, len
    <3> QED BY <3>2, <3>3
  <2> HIDE DEF n
  <2> QED BY <1>8, <2>1
<1> QED BY <1>4, <1>9, <1>10 DEF ndata, len

-----------------------------------------------------------------------------
(* Everybody but the callback task *)

\* While a scan goes on nothing that it shows is touched by anybody else.
LEMMA WantingStays ==
    ASSUME Waiting, Recorded, [Next]_vars, ~Callback, Wanting'
    PROVE  /\ Wanting /\ UNCHANGED <<setup, chan>>
           /\ cb'.at = cb.at /\ cb'.group = cb.group /\ cb'.event = cb.event
           /\ cb'.arm = cb.arm /\ cb'.events = cb.events /\ cb'.pps = cb.pps
           /\ drv'.pts = drv.pts /\ drv'.pte = drv.pte /\ hw'.done = hw.done
<1>1. drv \in Drivers /\ reg \in Registers /\ hw \in Hardware /\ cb \in Readers
  BY DEF Waiting, Typed, TypeOK
<1>2. UNCHANGED setup
  BY DEF Next, vars, Put, MethodStep, Disarm, ResetIRQ, Start, EnableIRQ, WriteMulti, WriteCSR2,
         Doing, IH, UnwantedInterrupt, IgnoreInterrupt, CompleteInterrupt, Interrupt,
         PreSample, HwTrigger, HwGateDone, vtrReboot
<1>3. OperatorWaits' = OperatorWaits /\ SoftTriggered' = SoftTriggered
  BY <1>2 DEF OperatorWaits, SoftTriggered, Values
<1>4. /\ OperatorWaits /\ cb'.at # "idle" /\ drv'.arm = cb'.arm
      /\ \/ cb'.arm = armPostTrigger /\ drv'.pts >= 0
         \/ cb'.arm = armPrePostTrigger /\ SoftTriggered /\ cb'.events = EventsOf(reg'.multi)
  BY <1>3 DEF Wanting
<1>5. cb'.arm # armDisarm
  BY <1>4 DEF armDisarm, armPostTrigger, armPrePostTrigger
<1>6. CASE \E r \in Records : \E v \in Values[r] : Put(r, v)
  <2>1. PICK r \in Records : \E v \in Values[r] : Put(r, v)
    BY <1>6
  <2>2. PICK v \in Values[r] : Put(r, v)
    BY <2>1
  <2>3. /\ UNCHANGED chan /\ reg'.multi = reg.multi /\ hw'.done = hw.done
        /\ \/ ~OperatorWaits \/ Quiet
           \/ drv'.pts = drv.pts /\ drv'.pte = drv.pte
        /\ drv'.arm = armDisarm \/ drv'.arm = drv.arm
    BY <2>2, PutData DEF Waiting
  <2>4. cb' = cb
    BY <2>2 DEF Put
  <2>5. ~Quiet
    BY <1>4, <2>4 DEF Quiet
  <2> QED BY <1>2, <1>4, <1>5, <2>3, <2>4, <2>5 DEF Wanting
<1>7. CASE ~(\E r \in Records : \E v \in Values[r] : Put(r, v))
  <2>1. cb' = cb \/ (IH /\ cb' = [cb EXCEPT !.pending = TRUE])
    BY <1>7 DEF Next, vars, MethodStep, Disarm, ResetIRQ, Start, EnableIRQ, WriteMulti, WriteCSR2,
         Doing, IH, UnwantedInterrupt, IgnoreInterrupt, CompleteInterrupt, Interrupt,
         PreSample, HwTrigger, HwGateDone, vtrReboot
  <2>2. /\ cb'.at = cb.at /\ cb'.group = cb.group /\ cb'.event = cb.event
        /\ cb'.arm = cb.arm /\ cb'.events = cb.events /\ cb'.pps = cb.pps
    BY <1>1, <2>1 DEF Readers
  <2>3. Posting
    BY <1>4, <2>2 DEF Posting, CbBusy
  <2>4. AtRest
    BY <1>4, <2>3 DEF Waiting, ReadsAlone
  <2>5. ~IH /\ ~PreSample /\ ~HwTrigger /\ ~HwGateDone
    <3>1. ~isArmed /\ ~hw.irq /\ hw.phase = "wait"
      BY <2>4 DEF AtRest, Waiting, Waits
    <3> QED BY <3>1 DEF IH, UnwantedInterrupt, IgnoreInterrupt, CompleteInterrupt, Interrupt,
                        PreSample, HwTrigger, CanTrigger, HwGateDone
  <2>6. /\ UNCHANGED chan /\ drv'.pts = drv.pts /\ drv'.pte = drv.pte /\ drv'.arm = drv.arm
        /\ hw'.done = hw.done /\ reg'.multi = reg.multi
    <3>1. CASE MethodStep
      <4>1. ~Has(call.todo, "start") /\ ~Has(call.todo, "multi")
        BY <2>4 DEF AtRest, Recorded, MultiFirst
      <4> QED BY <3>1, <4>1, StepData DEF Recorded
    <3>2. CASE vtrReboot \/ UNCHANGED vars
      BY <1>1, <3>2 DEF vtrReboot, vars, Registers
    <3> QED BY <1>7, <2>5, <3>1, <3>2 DEF Next
  <2> QED BY <1>2, <1>4, <2>2, <2>6 DEF Wanting
<1> QED BY <1>6, <1>7

LEMMA OthersRead ==
    ASSUME Waiting, Recorded, ReadInv, [Next]_vars, ~Callback
    PROVE  ReadInv'
<1> SUFFICES ASSUME Wanting' PROVE ReadInv'
  BY DEF ReadInv, PostRead, RingRead
<1>1. /\ Wanting /\ UNCHANGED <<setup, chan>>
      /\ cb'.at = cb.at /\ cb'.group = cb.group /\ cb'.event = cb.event
      /\ cb'.arm = cb.arm /\ cb'.events = cb.events /\ cb'.pps = cb.pps
      /\ drv'.pts = drv.pts /\ drv'.pte = drv.pte /\ hw'.done = hw.done
  BY WantingStays
<1>2. Groups' = Groups /\ ArraySize' = ArraySize /\ ChanLen' = ChanLen /\ DmaMayFail' = DmaMayFail
  BY <1>1 DEF Groups, ArraySize, ChanLen, DmaMayFail
<1>3. ASSUME NEW g, NEW h PROVE PostSamples(g, h)' <=> PostSamples(g, h)
  BY <1>1, <1>2 DEF PostSamples
<1>4. ASSUME NEW g PROVE EventsRead(g)' = EventsRead(g)
  BY <1>1 DEF EventsRead
<1>5. ASSUME NEW g, NEW h, NEW events PROVE Shows(g, h, events)' = Shows(g, h, events)
  BY <1>1, <1>2 DEF Shows, SampleOf
<1>6. PostRead'
  BY <1>1, <1>2, <1>3 DEF ReadInv, PostRead
<1>7. RingRead'
  BY <1>1, <1>2, <1>4, <1>5 DEF ReadInv, RingRead
<1> QED BY <1>6, <1>7 DEF ReadInv

-----------------------------------------------------------------------------
(* The callback task reads *)

LEMMA StartReads ==
    ASSUME Waiting, ReadStart
    PROVE  ReadInv'
<1> SUFFICES ASSUME Wanting' PROVE ReadInv'
  BY DEF ReadInv, PostRead, RingRead
<1> DEFINE size == ArraySize \div drv.events
           pps  == IF drv.pps \in 0 .. size THEN drv.pps ELSE size
<1>1. TypeOK /\ drv \in Drivers
  BY DEF Waiting, Typed, TypeOK
<1>2. UNCHANGED <<setup, drv, hw, reg>>
  BY DEF ReadStart
<1>3. Groups' = Groups /\ ChanLen' = ChanLen
  BY <1>2 DEF Groups, ChanLen
<1>4. /\ cb'.group = 0 /\ cb'.event = 0 /\ cb'.arm = drv.arm /\ cb'.pps = pps
      /\ cb'.at = IF \/ drv.arm = armPostTrigger
                     \/ drv.arm = armPrePostTrigger /\ pps # 0
                  THEN "read" ELSE "post"
      /\ cb'.events = IF drv.arm = armPrePostTrigger THEN drv.events ELSE 1
  BY DEF ReadStart
<1>5. pps \in Nat
  <2>1. size \in Nat
    BY <1>1, EventSizes, SetupTypes DEF TypeOK, Drivers
  <2> HIDE DEF size
  <2> QED BY <1>1, <2>1 DEF Drivers
<1> HIDE DEF pps
<1>6. cb'.arm \in {armPostTrigger, armPrePostTrigger}
  BY DEF Wanting
<1>7. armDisarm # armPostTrigger /\ armDisarm # armPrePostTrigger
      /\ armPostTrigger # armPrePostTrigger
  BY DEF armDisarm, armPostTrigger, armPrePostTrigger
<1>8. chan' = [g \in 0 .. Groups - 1 |-> [h \in Halves |-> <<>>]]
  BY <1>4, <1>6, <1>7 DEF ReadStart
<1>9. \A g \in 0 .. Groups - 1 : \A h \in Halves : chan'[g][h] = <<>>
  BY <1>8
<1>10. \A e : InOrder(<<>>) /\ Until(<<>>, e)
  BY DEF InOrder, Until
<1>11. PostRead'
  BY <1>3, <1>4, <1>7 DEF PostRead
<1>12. RingRead'
  <2> SUFFICES ASSUME cb'.arm = armPrePostTrigger PROVE RingRead'
    BY DEF RingRead
  <2>1. cb'.at = "read" => cb'.pps >= 1 /\ cb'.event < cb'.events
    <3>1. drv.events \in {1, 2, 4, 8, 16}
      BY <1>1 DEF Drivers
    <3> QED BY <1>4, <1>5, <1>7, <3>1
  <2>2. ASSUME NEW g \in 0 .. Groups - 1, NEW h \in Halves
        PROVE  Shows(g, h, EventsRead(g))' = <<>>
    <3> DEFINE events == EventsRead(g)'
    <3>1. ChanLen[g][h] \in Nat
      BY <1>1, SetupTypes DEF TypeOK
    <3>2. cb'.pps * events = 0
      <4>1. CASE cb'.at = "read"
        <5>1. events = 0
          <6>1. ~(g < 0)
            BY <1>1, SetupTypes DEF TypeOK
          <6>2. EventsRead(g)' = IF cb'.at = "post" THEN cb'.events
                                 ELSE cb'.event + (IF g < cb'.group THEN 1 ELSE 0)
            BY DEF EventsRead
          <6> QED BY <1>4, <4>1, <6>1, <6>2
        <5> HIDE DEF events
        <5> QED BY <1>4, <1>5, <5>1
      <4>2. CASE cb'.at # "read"
        <5>1. cb'.pps = 0
          BY <1>4, <1>7, <4>2
        <5>2. events \in Nat
          BY <1>1, <1>4, <4>2 DEF EventsRead, Drivers
        <5> HIDE DEF events
        <5> QED BY <5>1, <5>2
      <4> QED BY <4>1, <4>2
    <3> HIDE DEF events
    <3>3. MinOf(cb'.pps * events, ChanLen[g][h]) = 0
      BY <3>1, <3>2 DEF MinOf
    <3>4. Shows(g, h, EventsRead(g))' = [i \in 1 .. 0 |-> SampleOf(g, h, i)']
      <4>1. Shows(g, h, EventsRead(g))' =
                [i \in 1 .. MinOf(cb'.pps * EventsRead(g)', ChanLen'[g][h]) |-> SampleOf(g, h, i)']
        BY DEF Shows
      <4> QED BY <1>3, <3>3, <4>1 DEF events
    <3> QED BY <3>4
  <2> QED BY <1>3, <1>9, <1>10, <2>1, <2>2 DEF RingRead
<1> QED BY <1>11, <1>12 DEF ReadInv

LEMMA MoreGates == \A a \in Nat, m, n \in Int : m <= n => a * m \in Int /\ a * n \in Int /\ a * m <= a * n
OBVIOUS

\* Of a set that is wanted the card has recorded what is going to be read.
LEMMA WantedRecorded ==
    ASSUME Waiting, Recorded, Wanting
    PROVE  /\ cb.arm = armPostTrigger =>
                 hw.total <= ArraySize /\ hw.total >= MinOf(drv.pts * drv.pte, ArraySize)
           /\ cb.arm = armPrePostTrigger => Len(hw.done) = cb.events
<1>1. TypeOK /\ drv \in Drivers /\ hw \in Hardware /\ ArraySize \in Nat
  BY SetupTypes DEF Waiting, Typed, TypeOK
<1>2. OperatorWaits /\ CbBusy /\ drv.arm = cb.arm /\ cb.at # "idle"
  BY DEF Wanting, CbBusy
<1>3. ASSUME cb.arm = armPostTrigger
      PROVE  hw.total <= ArraySize /\ hw.total >= MinOf(drv.pts * drv.pte, ArraySize)
  <2>1. drv.pts \in Nat /\ drv.pte \in Int /\ drv.soFar \in Nat
    BY <1>1, <1>3 DEF Wanting, Drivers, armPostTrigger, armPrePostTrigger
  <2>2. hw.gate = drv.pts
    BY <1>2, <1>3 DEF Recorded, GateSet, armPostTrigger, armDisarm
  <2>3. Gate = drv.pts
    BY <2>1, <2>2 DEF Gate, MaxOf
  <2>4. Taken \in Nat /\ drv.pte <= Taken
    <3>1. drv.soFar >= drv.pte
      BY <1>2, <1>3 DEF Recorded, Enough
    <3> QED BY <2>1, <3>1 DEF Taken
  <2>5. hw.total <= ArraySize /\ hw.total >= MinOf(Gate * Taken, ArraySize)
    BY <1>2, <1>3 DEF Recorded, Counted
  <2>6. PICK wanted \in Int, taken \in Int :
            wanted = drv.pts * drv.pte /\ taken = Gate * Taken /\ wanted <= taken
    <3>1. drv.pts * drv.pte \in Int /\ drv.pts * Taken \in Int
          /\ drv.pts * drv.pte <= drv.pts * Taken
      BY <2>1, <2>4, MoreGates
    <3> QED BY <2>3, <3>1
  <2>7. hw.total >= MinOf(wanted, ArraySize)
    <3>1. hw.total \in Nat
      BY <1>1 DEF Hardware
    <3> QED BY <1>1, <2>5, <2>6, <3>1 DEF MinOf
  <2> QED BY <2>5, <2>6, <2>7
<1>4. ASSUME cb.arm = armPrePostTrigger
      PROVE  Len(hw.done) = cb.events
  <2>1. SoftTriggered /\ cb.events = EventsOf(reg.multi)
    BY <1>4 DEF Wanting, armPostTrigger, armPrePostTrigger
  <2>2. Ringing
    BY <1>2, <1>4, <2>1 DEF Ringing
  <2>3. Len(hw.done) >= cb.events /\ Len(hw.done) <= cb.events
    BY <1>2, <2>1, <2>2 DEF Recorded, Finished, EventsCounted
  <2>4. Len(hw.done) \in Nat /\ cb.events \in Nat
    <3>1. hw.done \in Seq(Nat)
      BY <1>1 DEF Hardware
    <3> QED BY <1>1, <3>1 DEF TypeOK, Readers
  <2> QED BY <2>3, <2>4
<1> QED BY <1>3, <1>4

\* A callback that reads changes one group and goes on to the next.
LEMMA NextFacts ==
    ASSUME TypeOK, ReadGroup
    PROVE  /\ UNCHANGED <<setup, drv, hw, reg>>
           /\ cb'.arm = cb.arm /\ cb'.events = cb.events /\ cb'.pps = cb.pps
           /\ \A g \in 0 .. Groups - 1 : g # cb.group => chan'[g] = chan[g]
           /\ \/ /\ cb.group + 1 < Groups /\ cb'.at = "read" /\ cb'.group = cb.group + 1
                 /\ cb'.event = cb.event
              \/ /\ cb.group + 1 = Groups /\ cb.event + 1 < cb.events /\ cb'.at = "read"
                 /\ cb'.group = 0 /\ cb'.event = cb.event + 1
              \/ /\ cb.group + 1 = Groups /\ cb.event + 1 >= cb.events /\ cb'.at = "post"
                 /\ cb'.group = 0 /\ cb'.event = 0
<1>1. /\ cb \in Readers /\ Groups \in Nat \ {0} /\ DOMAIN chan = 0 .. Groups - 1
      /\ cb.group \in 0 .. Groups - 1 /\ cb.event \in Nat /\ cb.events \in Nat
  BY SetupTypes DEF TypeOK, Shown, Readers
<1>2. UNCHANGED <<setup, drv, hw, reg>> /\ cb' = NextGroup /\ cb.at = "read"
  BY DEF ReadGroup
<1>3. cb'.arm = cb.arm /\ cb'.events = cb.events /\ cb'.pps = cb.pps
  BY <1>1, <1>2 DEF NextGroup, Readers
<1>4. chan' = chan \/ \E new : chan' = [chan EXCEPT ![cb.group] = new]
  <2>1. readPostTrigger(cb.group) \/ readPrePostTrigger(cb.group)
    BY DEF ReadGroup
  <2> QED BY <2>1 DEF readPostTrigger, readPrePostTrigger
<1>5. \A g \in 0 .. Groups - 1 : g # cb.group => chan'[g] = chan[g]
  BY <1>1, <1>4
<1>6. CASE cb.group + 1 < Groups
  BY <1>1, <1>2, <1>3, <1>5, <1>6 DEF NextGroup, Readers
<1>7. CASE ~(cb.group + 1 < Groups) /\ cb.event + 1 < cb.events
  <2>1. cb.group + 1 = Groups
    BY <1>1, <1>7
  <2> QED BY <1>1, <1>2, <1>3, <1>5, <1>7, <2>1 DEF NextGroup, Readers
<1>8. CASE ~(cb.group + 1 < Groups) /\ ~(cb.event + 1 < cb.events)
  <2>1. cb.group + 1 = Groups /\ cb.event + 1 >= cb.events
    BY <1>1, <1>8
  <2> QED BY <1>1, <1>2, <1>3, <1>5, <1>8, <2>1 DEF NextGroup, Readers
<1> QED BY <1>6, <1>7, <1>8

LEMMA GroupReads ==
    ASSUME Waiting, Recorded, ReadInv, ReadGroup
    PROVE  ReadInv'
<1> SUFFICES ASSUME Wanting' PROVE ReadInv'
  BY DEF ReadInv, PostRead, RingRead
<1>1. TypeOK /\ ReadsRing /\ cb.at = "read"
  BY DEF Waiting, Typed, ReadGroup
<1>2. /\ UNCHANGED <<setup, drv, hw, reg>>
      /\ cb'.arm = cb.arm /\ cb'.events = cb.events /\ cb'.pps = cb.pps
      /\ \A g \in 0 .. Groups - 1 : g # cb.group => chan'[g] = chan[g]
      /\ \/ /\ cb.group + 1 < Groups /\ cb'.at = "read" /\ cb'.group = cb.group + 1
            /\ cb'.event = cb.event
         \/ /\ cb.group + 1 = Groups /\ cb.event + 1 < cb.events /\ cb'.at = "read"
            /\ cb'.group = 0 /\ cb'.event = cb.event + 1
         \/ /\ cb.group + 1 = Groups /\ cb.event + 1 >= cb.events /\ cb'.at = "post"
            /\ cb'.group = 0 /\ cb'.event = 0
  BY <1>1, NextFacts
<1>3. /\ Groups \in Nat \ {0} /\ cb.group \in 0 .. Groups - 1 /\ cb.event \in Nat
      /\ cb.events \in Nat /\ cb.pps \in Nat
  BY <1>1, SetupTypes DEF TypeOK, Readers
<1>4. /\ Groups' = Groups /\ ArraySize' = ArraySize /\ ChanLen' = ChanLen
      /\ DmaMayFail' = DmaMayFail /\ OperatorWaits' = OperatorWaits
      /\ SoftTriggered' = SoftTriggered
  BY <1>2 DEF Groups, ArraySize, ChanLen, DmaMayFail, OperatorWaits, SoftTriggered, Values
<1>5. Wanting
  BY <1>1, <1>2, <1>4 DEF Wanting
<1>6. armPostTrigger # armPrePostTrigger
  BY DEF armPostTrigger, armPrePostTrigger
<1>7. PostRead'
  <2> SUFFICES ASSUME cb.arm = armPostTrigger PROVE PostRead'
    BY <1>2 DEF PostRead
  <2>1. /\ cb.events = 1 /\ cb.event = 0
        /\ \A g \in 0 .. Groups - 1 : g < cb.group =>
              \A h \in Halves : InOrder(chan[g][h]) /\ (~DmaMayFail => PostSamples(g, h))
    BY <1>1, <1>5 DEF ReadInv, PostRead
  <2>2. readPostTrigger(cb.group)
    BY DEF ReadGroup
  <2>3. hw.total <= ArraySize /\ hw.total >= MinOf(drv.pts * drv.pte, ArraySize)
    BY <1>5, WantedRecorded
  <2>4. \A h \in Halves :
          /\ InOrder(chan'[cb.group][h])
          /\ ~DmaMayFail =>
                 LET n == MinOf(MinOf(drv.pts * drv.pte, ArraySize), ChanLen[cb.group][h])
                 IN chan'[cb.group][h] = [i \in 1 .. n |-> [event |-> 0, at |-> i - 1]]
    BY <1>1, <1>3, <2>2, <2>3, PostAdded
  <2>5. ASSUME NEW g \in 0 .. Groups - 1, NEW h \in Halves, g <= cb.group
        PROVE  InOrder(chan'[g][h]) /\ (~DmaMayFail => PostSamples(g, h)')
    <3>1. CASE g = cb.group
      BY <1>2, <1>4, <2>4, <3>1 DEF PostSamples
    <3>2. CASE g # cb.group
      <4>1. g < cb.group /\ chan'[g] = chan[g]
        BY <1>2, <1>3, <2>5, <3>2
      <4>2. InOrder(chan[g][h]) /\ (~DmaMayFail => PostSamples(g, h))
        BY <2>1, <4>1
      <4> QED BY <1>2, <1>4, <4>1, <4>2 DEF PostSamples
    <3> QED BY <3>1, <3>2
  <2>6. ASSUME NEW g \in 0 .. Groups - 1, g < cb'.group \/ cb'.at = "post"
        PROVE  g <= cb.group
    BY <1>2, <1>3, <2>1, <2>6
  <2>7. cb'.at = "read" => cb'.events = 1 /\ cb'.event = 0
    BY <1>2, <2>1
  <2> QED BY <1>4, <2>5, <2>6, <2>7 DEF PostRead
<1>8. RingRead'
  <2> SUFFICES ASSUME cb.arm = armPrePostTrigger PROVE RingRead'
    BY <1>2 DEF RingRead
  <2>1. /\ cb.pps >= 1 /\ cb.event < cb.events
        /\ \A g \in 0 .. Groups - 1 : \A h \in Halves :
              /\ InOrder(chan[g][h]) /\ Until(chan[g][h], EventsRead(g))
              /\ ~DmaMayFail => chan[g][h] = Shows(g, h, EventsRead(g))
    BY <1>1, <1>5 DEF ReadInv, RingRead
  <2>2. readPrePostTrigger(cb.group)
    BY <1>6 DEF ReadGroup
  <2>3. AtEvent
    <3>1. cb.events = EventsOf(reg.multi) /\ Len(hw.done) = cb.events
      BY <1>5, <1>6, WantedRecorded DEF Wanting
    <3>2. cb.pps <= ArraySize \div cb.events
      BY <1>1, <1>6 DEF ReadsRing
    <3>3. cb.pps <= EventSize
      BY <3>1, <3>2 DEF EventSize
    <3>4. EventSize \in Nat
      BY <1>1, EventSizeType
    <3> QED BY <1>1, <1>3, <2>1, <3>1, <3>3, <3>4 DEF AtEvent
  <2>4. EventsRead(cb.group) = cb.event
    BY <1>1, <1>3 DEF EventsRead
  <2>5. \A h \in Halves :
           /\ InOrder(chan'[cb.group][h]) /\ Until(chan'[cb.group][h], cb.event + 1)
           /\ ~DmaMayFail => chan'[cb.group][h] = Shows(cb.group, h, cb.event + 1)
    BY <1>3, <2>1, <2>2, <2>3, <2>4, GroupAdded
  <2>6. \A g \in 0 .. Groups - 1 :
           EventsRead(g)' = IF g = cb.group THEN cb.event + 1 ELSE EventsRead(g)
    <3> SUFFICES ASSUME NEW g \in 0 .. Groups - 1
                 PROVE  EventsRead(g)' = IF g = cb.group THEN cb.event + 1 ELSE EventsRead(g)
      OBVIOUS
    <3>1. EventsRead(g) = cb.event + (IF g < cb.group THEN 1 ELSE 0)
      BY <1>1 DEF EventsRead
    <3>2. EventsRead(g)' = IF cb'.at = "post" THEN cb.events
                           ELSE cb'.event + (IF g < cb'.group THEN 1 ELSE 0)
      BY <1>2 DEF EventsRead
    <3> QED BY <1>2, <1>3, <2>1, <3>1, <3>2
  <2>7. ASSUME NEW g, NEW h, NEW events PROVE Shows(g, h, events)' = Shows(g, h, events)
    BY <1>2, <1>4 DEF Shows, SampleOf
  <2>8. ASSUME NEW g \in 0 .. Groups - 1, NEW h \in Halves
        PROVE  /\ InOrder(chan'[g][h]) /\ Until(chan'[g][h], EventsRead(g)')
               /\ ~DmaMayFail => chan'[g][h] = Shows(g, h, EventsRead(g)')
    <3>1. CASE g = cb.group
      BY <2>5, <2>6, <3>1
    <3>2. CASE g # cb.group
      BY <1>2, <2>1, <2>6, <3>2
    <3> QED BY <3>1, <3>2
  <2>9. cb'.at = "read" => cb'.pps >= 1 /\ cb'.event < cb'.events
    BY <1>2, <2>1
  <2> QED BY <1>4, <2>7, <2>8, <2>9 DEF RingRead
<1> QED BY <1>7, <1>8 DEF ReadInv

LEMMA InitReads == Init => ReadInv
BY DEF Init, ReadInv, PostRead, RingRead, Wanting

LEMMA ReadsKept ==
    ASSUME Waiting, Recorded, ReadInv, [Next]_vars
    PROVE  ReadInv'
<1>1. CASE Post
  <2>1. cb'.at = "idle"
    BY <1>1 DEF Post, Waiting, Typed, TypeOK, Readers
  <2> QED BY <2>1 DEF ReadInv, PostRead, RingRead, Wanting
<1> QED BY <1>1, StartReads, GroupReads, OthersRead DEF Callback

LEMMA ReadGives ==
    ASSUME TypeOK, ReadInv
    PROVE  WantedSamplesPosted /\ OrderedEvenIfDmaFails
<1> SUFFICES ASSUME Reading, NEW g \in 0 .. Groups - 1, NEW h \in Halves
             PROVE  /\ InOrder(chan[g][h])
                    /\ ~DmaMayFail => IF cb.arm = armPostTrigger THEN PostSamples(g, h)
                                      ELSE EventSamples(g, h)
  BY DEF WantedSamplesPosted, OrderedEvenIfDmaFails, InOrder
<1>1. Wanting /\ cb.at = "post"
  BY DEF Reading, Wanting
<1>2. CASE cb.arm = armPostTrigger
  BY <1>1, <1>2 DEF ReadInv, PostRead
<1>3. CASE cb.arm # armPostTrigger
  <2>1. cb.arm = armPrePostTrigger
    BY <1>1, <1>3 DEF Wanting
  <2>2. InOrder(chan[g][h]) /\ (~DmaMayFail => chan[g][h] = Shows(g, h, cb.events))
    BY <1>1, <2>1 DEF ReadInv, RingRead, EventsRead
  <2>3. chan[g][h] = Shows(g, h, cb.events) => EventSamples(g, h)
    BY DEF EventSamples, Shows, SampleOf
  <2> QED BY <1>3, <2>2, <2>3
<1> QED BY <1>2, <1>3

-----------------------------------------------------------------------------
(* The theorems *)

\* All of the state keeps its type.  A channel's data are words of an event and
\* a sample each, and readContiguous never copies more of them than the record
\* of the channel has room for, however often it is called.
THEOREM TypeCorrect == Spec => []TypeOK
<1>1. Typed => TypeOK
  BY DEF Typed
<1> QED BY <1>1, InitTyped, TypedKept, PTL DEF Spec

\* vtrclock, vtrtrigger and vtrarm write CSR2 back from what they read of it,
\* and the interrupt handler may disarm the card in between: whatever they find,
\* only a request to arm ever arms the card.
THEOREM OnlyArmArms == Spec => OnlyVtrarmArms
<1>1. Init => Inv
  BY InitInv
<1>2. Inv /\ [Next]_vars => Inv'
  BY NextKeeps
<1>3. Inv /\ [Next]_vars => [~isArmed /\ isArmed' => Head(call.todo).n \in Armings]_vars
  BY NextKeeps
<1> QED BY <1>1, <1>2, <1>3, PTL DEF Spec, OnlyVtrarmArms

\* A card that is armed while no method is under way, whoever has interfered,
\* has the gate, the mode and the trigger that its driver believes in: what the
\* callback task and the interrupt handler decide from.  It is divided into the
\* driver's events for the choices 4, 8 and 16, and into one for post-trigger
\* recording; of the choices 1 and 2, which vtrarm does not program, nothing is
\* claimed.
THEOREM ArmedCardAsSet == Spec => []ArmedAsSet
<1>1. Init => Inv
  BY InitInv
<1>2. Inv /\ [Next]_vars => Inv'
  BY NextKeeps
<1>3. Inv => ArmedAsSet
  BY InvGives
<1> QED BY <1>1, <1>2, <1>3, PTL DEF Spec

\* When the operator leaves a cycle under way alone, a post-trigger set is read
\* of a card that is disarmed and stays so until the scan has shown it, and so
\* is every set of a card that only the operator triggers: no interrupt comes
\* while vtrarm is at work, and none after the one that asked for the callback.
THEOREM ReadsDisarmed == Spec => []NoReadWhileArmed
BY InitWaiting, WaitingKept, WaitingGives, PTL DEF Spec

\* What is shown rests on what is known of a waiting operator's card, of what it
\* has recorded, and of how far the callback task has got.
Reads == Waiting /\ Recorded /\ ReadInv

\* When the operator leaves a cycle under way alone and no DMA transfer fails, a
\* scan shows exactly what the settings ask for: the first numberPTS * numberPTE
\* samples, or of every event its newest numberPPS, whichever of the channels of
\* a group has more room and however the rings of the events have wrapped.
THEOREM WantedIsShown == Spec => []WantedSamplesPosted
<1>1. Init => Reads
  BY InitWaiting, InitRecorded, InitReads DEF Reads
<1>2. Reads /\ [Next]_vars => Reads'
  BY WaitingKept, RecordedKept, ReadsKept DEF Reads
<1>3. Reads => WantedSamplesPosted
  BY ReadGives DEF Reads, Waiting, Typed
<1> QED BY <1>1, <1>2, <1>3, PTL DEF Spec

\* Also when DMA transfers fail in any of the calls of readContiguous, what is
\* shown is in the order it was taken, and no sample is shown twice.
THEOREM OrderedScans == Spec => []OrderedEvenIfDmaFails
<1>1. Init => Reads
  BY InitWaiting, InitRecorded, InitReads DEF Reads
<1>2. Reads /\ [Next]_vars => Reads'
  BY WaitingKept, RecordedKept, ReadsKept DEF Reads
<1>3. Reads => OrderedEvenIfDmaFails
  BY ReadGives DEF Reads, Waiting, Typed
<1> QED BY <1>1, <1>2, <1>3, PTL DEF Spec
=============================================================================
