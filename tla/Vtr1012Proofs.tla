---------------------------- MODULE Vtr1012Proofs ---------------------------
(***************************************************************************)
(* Theorems of Vtr1012, for every set of setups.  Whatever comes between    *)
(* the steps of a method, the copy of CSR1BYTE0 that methods and interrupt  *)
(* handler share loses neither a request to disarm nor a choice of trigger  *)
(* or clock, and a card that is armed is armed as set.  If the operator     *)
(* leaves a cycle under way alone, nothing is recorded over what is read,   *)
(* whole sets are posted, and their samples are in order.                   *)
(***************************************************************************)
EXTENDS Vtr1012, WindowProofs, SequenceTheorems, TLAPS

-----------------------------------------------------------------------------
(* The lists of steps *)

LEMMA JoinedPair ==
    ASSUME NEW S, NEW s \in Seq(S), NEW b \in S, NEW c \in S
    PROVE  LET t == s \o <<b, c>> IN
           /\ t \in Seq(S) /\ Len(t) = Len(s) + 2
           /\ \A i \in 1 .. Len(s) : t[i] = s[i]
           /\ t[Len(s) + 1] = b /\ t[Len(s) + 2] = c
<1>1. <<b, c>> \in Seq(S) /\ Len(<<b, c>>) = 2 /\ <<b, c>>[1] = b /\ <<b, c>>[2] = c
  OBVIOUS
<1>2. /\ s \o <<b, c>> \in Seq(S) /\ Len(s \o <<b, c>>) = Len(s) + 2
      /\ \A i \in 1 .. Len(s) + 2 :
            (s \o <<b, c>>)[i] = IF i <= Len(s) THEN s[i] ELSE <<b, c>>[i - Len(s)]
  BY <1>1, ConcatProperties
<1>3. Len(s) \in Nat
  OBVIOUS
<1> QED BY <1>1, <1>2, <1>3

ArmingSteps == [do : {"start", "store", "write"}, clear : SUBSET ArmBits, set : SUBSET ArmBits]
WriteStep   == Step("write", {}, {})
StartStep   == Step("start", {}, {})

LEMMA StepFacts ==
    /\ StartStep \in ArmingSteps /\ StartStep.do = "start"
    /\ StartStep.clear = {} /\ StartStep.set = {}
    /\ WriteStep \in ArmingSteps /\ WriteStep.do = "write"
    /\ WriteStep.clear = {} /\ WriteStep.set = {}
    /\ \A clear, set \in SUBSET ArmBits : Step("store", clear, set) \in ArmingSteps
    /\ \A clear, set : LET a == Step("store", clear, set) IN
          a.do = "store" /\ a.clear = clear /\ a.set = set
BY DEF ArmingSteps, Step, WriteStep, StartStep

\* The steps of vtrarm, one list for every choice and model.
LEMMA ArmStepsAre ==
    LET post == ArmSteps(armPostTrigger)
        pre  == ArmSteps(armPrePostTrigger)
    IN /\ ArmSteps(armDisable) = <<Step("store", ArmBits, {}), WriteStep>>
       /\ post \in Seq(ArmingSteps) /\ Len(post) = 3
       /\ post[1] = StartStep /\ post[2] = Step("store", ArmBits, {"arm"}) /\ post[3] = WriteStep
       /\ pre \in Seq(ArmingSteps) /\ Len(pre) = 7
       /\ pre[1] = StartStep /\ pre[2] = Step("store", ArmBits, {}) /\ pre[3] = WriteStep
       /\ pre[4] = Step("store", {}, FirstPass) /\ pre[5] = WriteStep
       /\ pre[6] = Step("store", {}, ArmBits) /\ pre[7] = WriteStep
       /\ \A v : v \notin {armDisable, armPostTrigger, armPrePostTrigger} => ArmSteps(v) = <<>>
<1> USE DEF armDisable, armPostTrigger, armPrePostTrigger
<1>1. FirstPass \in SUBSET ArmBits /\ {"arm"} \in SUBSET ArmBits /\ {} \in SUBSET ArmBits
      /\ ArmBits \in SUBSET ArmBits
  BY DEF FirstPass, FirstPass1012, FirstPass10010, ArmBits
<1>2. \A clear, set : Change(clear, set) = <<Step("store", clear, set), WriteStep>>
  BY DEF Change, WriteStep
<1>3. ArmSteps(armDisable) = <<Step("store", ArmBits, {}), WriteStep>>
  BY <1>2 DEF ArmSteps, DisarmSteps
<1>4. LET post == ArmSteps(armPostTrigger)
      IN /\ post \in Seq(ArmingSteps) /\ Len(post) = 3
         /\ post[1] = StartStep /\ post[2] = Step("store", ArmBits, {"arm"}) /\ post[3] = WriteStep
  <2> DEFINE a == Step("store", ArmBits, {"arm"})
             s == <<StartStep>> \o <<a, WriteStep>>
  <2>1. ArmSteps(armPostTrigger) = s
    <3>1. ArmSteps(armPostTrigger) = <<StartStep>> \o Change(ArmBits, {"arm"})
      BY DEF ArmSteps, StartStep
    <3> QED BY <1>2, <3>1
  <2>2. a \in ArmingSteps
    BY <1>1, StepFacts
  <2> HIDE DEF a
  <2>3. s \in Seq(ArmingSteps) /\ Len(s) = 3 /\ s[1] = StartStep /\ s[2] = a /\ s[3] = WriteStep
    <3>1. <<StartStep>> \in Seq(ArmingSteps) /\ Len(<<StartStep>>) = 1
          /\ <<StartStep>>[1] = StartStep
      BY StepFacts
    <3> QED BY <2>2, <3>1, StepFacts, JoinedPair
  <2> HIDE DEF s
  <2> QED BY <2>1, <2>3 DEF a
<1>5. LET pre == ArmSteps(armPrePostTrigger)
      IN /\ pre \in Seq(ArmingSteps) /\ Len(pre) = 7
         /\ pre[1] = StartStep /\ pre[2] = Step("store", ArmBits, {}) /\ pre[3] = WriteStep
         /\ pre[4] = Step("store", {}, FirstPass) /\ pre[5] = WriteStep
         /\ pre[6] = Step("store", {}, ArmBits) /\ pre[7] = WriteStep
  <2> DEFINE a == Step("store", ArmBits, {})
             b == Step("store", {}, FirstPass)
             c == Step("store", {}, ArmBits)
             s == <<StartStep>> \o <<a, WriteStep>>
             t == s \o <<b, WriteStep>>
             u == t \o <<c, WriteStep>>
  <2>1. ArmSteps(armPrePostTrigger) = u
    <3>1. ArmSteps(armPrePostTrigger) = <<StartStep>> \o Change(ArmBits, {}) \o Change({}, FirstPass)
                                           \o Change({}, ArmBits)
      BY DEF ArmSteps, StartStep
    <3>2. /\ Change(ArmBits, {}) = <<a, WriteStep>> /\ Change({}, FirstPass) = <<b, WriteStep>>
          /\ Change({}, ArmBits) = <<c, WriteStep>>
      BY <1>2
    <3> QED BY <3>1, <3>2
  <2>2. a \in ArmingSteps /\ b \in ArmingSteps /\ c \in ArmingSteps /\ WriteStep \in ArmingSteps
    BY <1>1, StepFacts
  <2> HIDE DEF a, b, c
  <2>3. s \in Seq(ArmingSteps) /\ Len(s) = 3 /\ s[1] = StartStep /\ s[2] = a /\ s[3] = WriteStep
    <3>1. <<StartStep>> \in Seq(ArmingSteps) /\ Len(<<StartStep>>) = 1
          /\ <<StartStep>>[1] = StartStep
      BY StepFacts
    <3> QED BY <2>2, <3>1, JoinedPair
  <2> HIDE DEF s
  <2>4. /\ t \in Seq(ArmingSteps) /\ Len(t) = 5 /\ t[1] = StartStep /\ t[2] = a
        /\ t[3] = WriteStep /\ t[4] = b /\ t[5] = WriteStep
    <3>1. /\ t \in Seq(ArmingSteps) /\ Len(t) = Len(s) + 2 /\ t[Len(s) + 1] = b
          /\ t[Len(s) + 2] = WriteStep /\ \A i \in 1 .. Len(s) : t[i] = s[i]
      <4>1. s \in Seq(ArmingSteps) /\ b \in ArmingSteps /\ WriteStep \in ArmingSteps
        BY <2>2, <2>3
      <4> QED BY <4>1, JoinedPair
    <3> HIDE DEF t
    <3> QED BY <2>3, <3>1
  <2> HIDE DEF t
  <2>5. /\ u \in Seq(ArmingSteps) /\ Len(u) = 7 /\ u[1] = StartStep /\ u[2] = a
        /\ u[3] = WriteStep /\ u[4] = b /\ u[5] = WriteStep /\ u[6] = c /\ u[7] = WriteStep
    <3>1. /\ u \in Seq(ArmingSteps) /\ Len(u) = Len(t) + 2 /\ u[Len(t) + 1] = c
          /\ u[Len(t) + 2] = WriteStep /\ \A i \in 1 .. Len(t) : u[i] = t[i]
      <4>1. t \in Seq(ArmingSteps) /\ c \in ArmingSteps /\ WriteStep \in ArmingSteps
        BY <2>2, <2>4
      <4> QED BY <4>1, JoinedPair
    <3> HIDE DEF u
    <3> QED BY <2>4, <3>1
  <2> HIDE DEF u
  <2> QED BY <2>1, <2>5 DEF a, b, c
<1>6. ASSUME NEW v, v \notin {armDisable, armPostTrigger, armPrePostTrigger}
      PROVE  ArmSteps(v) = <<>>
  BY <1>6 DEF ArmSteps
<1> QED BY <1>3, <1>4, <1>5, <1>6

\* What all of them have in common: they write what they have stored.
LEMMA ArmStepsFit ==
    ASSUME NEW v
    PROVE  LET s == ArmSteps(v) IN
           /\ s \in Seq(ArmingSteps)
           /\ \A i \in 2 .. Len(s) : s[i].do = "write" => s[i - 1].do = "store"
           /\ s # <<>> => Head(s).do # "write"
           /\ v = armDisable => s = <<Step("store", ArmBits, {}), WriteStep>>
<1> DEFINE s == ArmSteps(v)
<1>1. CASE v = armDisable
  <2> DEFINE a == Step("store", ArmBits, {})
  <2>1. s = <<a, WriteStep>>
    BY <1>1, ArmStepsAre
  <2>2. a \in ArmingSteps /\ a.do = "store"
    BY StepFacts DEF ArmBits
  <2> HIDE DEF a, s
  <2>3. /\ <<a, WriteStep>> \in Seq(ArmingSteps) /\ Head(<<a, WriteStep>>).do # "write"
        /\ \A i \in 2 .. Len(<<a, WriteStep>>) : <<a, WriteStep>>[i - 1].do = "store"
    BY <2>2, StepFacts
  <2> QED BY <2>1, <2>3 DEF a, s
<1>2. CASE v = armPostTrigger
  <2>1. /\ s \in Seq(ArmingSteps) /\ Len(s) = 3
        /\ s[1].do = "start" /\ s[2].do = "store" /\ s[3].do = "write"
    BY <1>2, ArmStepsAre, StepFacts
  <2> HIDE DEF s
  <2>2. \A i \in 2 .. Len(s) : i = 2 \/ i = 3
    BY <2>1
  <2>3. Head(s).do # "write" /\ \A i \in 2 .. Len(s) : s[i].do = "write" => s[i - 1].do = "store"
    BY <2>1, <2>2
  <2> QED BY <1>2, <2>1, <2>3 DEF s, armPostTrigger, armDisable
<1>3. CASE v = armPrePostTrigger
  <2>1. /\ s \in Seq(ArmingSteps) /\ Len(s) = 7
        /\ s[1].do = "start" /\ s[2].do = "store" /\ s[3].do = "write" /\ s[4].do = "store"
        /\ s[5].do = "write" /\ s[6].do = "store" /\ s[7].do = "write"
    BY <1>3, ArmStepsAre, StepFacts
  <2> HIDE DEF s
  <2>2. \A i \in 2 .. Len(s) : i = 2 \/ i = 3 \/ i = 4 \/ i = 5 \/ i = 6 \/ i = 7
    BY <2>1
  <2>3. Head(s).do # "write" /\ \A i \in 2 .. Len(s) : s[i].do = "write" => s[i - 1].do = "store"
    BY <2>1, <2>2
  <2> QED BY <1>3, <2>1, <2>3 DEF s, armPrePostTrigger, armDisable
<1>4. CASE v \notin {armDisable, armPostTrigger, armPrePostTrigger}
  <2>1. s = <<>>
    BY <1>4, ArmStepsAre
  <2> QED BY <1>4, <2>1
<1> QED BY <1>1, <1>2, <1>3, <1>4

-----------------------------------------------------------------------------
(* Types *)

\* What the setups promise.
LEMMA SetupFacts ==
    ASSUME setup \in Setups
    PROVE  /\ Model \in {"vtr1012", "vtr10010"}
           /\ Signals \in Nat \ {0} /\ ArraySize \in Nat \ {0} /\ MaxPre \in Nat
           /\ ChanLen \in [Channels -> Nat] /\ Values \in [Records -> SUBSET Int]
           /\ OperatorWaits \in BOOLEAN /\ MayReboot \in BOOLEAN
BY Vtr1012Assumption
   DEF Model, Signals, ArraySize, MaxPre, ChanLen, Values, OperatorWaits, MayReboot, Channels

LEMMA ChangeTyped ==
    ASSUME NEW clear \in SUBSET Bits, NEW set \in SUBSET Bits
    PROVE  Change(clear, set) \in Seq(Steps)
<1>1. Step("store", clear, set) \in Steps /\ WriteStep \in Steps
  BY DEF Step, Steps, WriteStep
<1>2. Change(clear, set) = <<Step("store", clear, set), WriteStep>>
  BY DEF Change, WriteStep
<1> HIDE DEF Steps
<1> QED BY <1>1, <1>2

LEMMA InitTyped == Init => TypeOK
<1> SUFFICES ASSUME Init PROVE TypeOK
  OBVIOUS
<1>1. setup \in Setups /\ 0 \in Channels
  <2>1. setup \in Setups
    BY DEF Init
  <2> QED BY <2>1, SetupFacts DEF Channels
<1>2. drv \in Drivers
  BY DEF Init, Drivers, armDisable, triggerSoft
<1>3. shadow \in Bytes /\ reg \in Bytes
  BY DEF Init, Bytes
<1>4. hw \in Hardware
  BY DEF Init, Hardware
<1>5. call \in Calls
  <2>1. <<>> \in Seq(Steps)
    OBVIOUS
  <2> QED BY <2>1 DEF Init, NoCall, Calls
<1>6. cb \in Readers
  BY <1>1 DEF Init, Readers
<1>7. chan \in [Channels -> Shown]
  <2>1. <<>> \in Seq(Int)
    OBVIOUS
  <2>2. NoData \in Shown
    BY <2>1 DEF NoData, Shown
  <2> QED BY <2>2 DEF Init
<1>8. isRebooting \in BOOLEAN
  BY DEF Init
<1> QED BY <1>1, <1>2, <1>3, <1>4, <1>5, <1>6, <1>7, <1>8 DEF TypeOK

\* The steps of a method use what its list says.
LEMMA ListTyped ==
    ASSUME call \in Calls, ~Idle
    PROVE  /\ Head(call.todo) \in Steps /\ Tail(call.todo) \in Seq(Steps)
           /\ Head(call.todo).clear \in SUBSET Bits /\ Head(call.todo).set \in SUBSET Bits
<1>1. call.todo \in Seq(Steps) /\ call.todo # <<>>
  BY DEF Calls, Idle
<1>2. Head(call.todo) \in Steps /\ Tail(call.todo) \in Seq(Steps)
  <2> HIDE DEF Steps
  <2> QED BY <1>1
<1> QED BY <1>2 DEF Steps

LEMMA PutTyped ==
    ASSUME TypeOK, NEW r \in Records, NEW v \in Values[r], Put(r, v)
    PROVE  TypeOK'
<1>1. /\ setup \in Setups /\ drv \in Drivers /\ shadow \in Bytes /\ reg \in Bytes
      /\ hw \in Hardware /\ isRebooting \in BOOLEAN /\ call \in Calls
      /\ cb \in Readers /\ chan \in [Channels -> Shown]
  BY DEF TypeOK
<1>2. /\ UNCHANGED <<setup, isRebooting, cb, chan>> /\ v \in Int
  BY <1>1, SetupFacts DEF Put
<1>3. UNCHANGED <<Channels, Readers>>
  BY <1>2 DEF Channels, Signals, Readers
<1>4. ASSUME NEW status \in {"OK", "Busy", "Error", "Suspend"}, NEW list \in Seq(Steps),
             Enter(status, list)
      PROVE  call' \in Calls
  BY <1>1, <1>4 DEF Enter, Calls
<1>5. <<>> \in Seq(Steps)
  OBVIOUS
<1> SUFFICES /\ drv' \in Drivers /\ shadow' \in Bytes /\ reg' \in Bytes
             /\ hw' \in Hardware /\ call' \in Calls
  <2> HIDE DEF Drivers, Bytes, Hardware, Calls, Readers, Shown, Channels
  <2> QED BY <1>1, <1>2, <1>3 DEF TypeOK
<1>6. ASSUME NEW status \in {"Busy", "Error", "Suspend"}, Refuse(status)
      PROVE  /\ drv' \in Drivers /\ shadow' \in Bytes /\ reg' \in Bytes
             /\ hw' \in Hardware /\ call' \in Calls
  BY <1>1, <1>4, <1>5, <1>6 DEF Refuse
<1>7. ASSUME NEW field \in {"pts", "pps", "pte"}, Setting(field, v)
      PROVE  /\ drv' \in Drivers /\ shadow' \in Bytes /\ reg' \in Bytes
             /\ hw' \in Hardware /\ call' \in Calls
  <2>1. CASE isArmed
    BY <1>6, <1>7, <2>1 DEF Setting
  <2>2. CASE ~isArmed
    <3>1. drv' = [drv EXCEPT ![field] = v] /\ Enter("OK", <<>>) /\ UNCHANGED <<shadow, reg, hw>>
      BY <1>7, <2>2 DEF Setting
    <3>2. drv' \in Drivers
      BY <1>1, <1>2, <3>1 DEF Drivers
    <3> QED BY <1>1, <1>4, <1>5, <3>1, <3>2
  <2> QED BY <2>1, <2>2
<1>8. CASE vtrclock(v)
  <2> SUFFICES ASSUME ~isArmed
               PROVE  /\ drv' \in Drivers /\ shadow' \in Bytes /\ reg' \in Bytes
                      /\ hw' \in Hardware /\ call' \in Calls
    BY <1>6, <1>8 DEF vtrclock
  <2>1. /\ shadow' = [shadow EXCEPT !.byte1 = v % 8] /\ reg' = [reg EXCEPT !.byte1 = v % 8]
        /\ UNCHANGED <<drv, hw>>
    BY <1>8 DEF vtrclock
  <2>2. v % 8 \in 0 .. 7
    BY <1>2
  <2>3. shadow' \in Bytes /\ reg' \in Bytes
    BY <1>1, <2>1, <2>2 DEF Bytes
  <2>4. CASE isRebooting
    <3>1. Enter("Suspend", <<>>)
      BY <1>8, <2>4 DEF vtrclock
    <3> QED BY <1>1, <1>4, <1>5, <2>1, <2>3, <3>1
  <2>5. CASE ~isRebooting
    <3>1. PICK set \in SUBSET {"clkExt"} : Enter("OK", Change({"clkExt"}, set))
      BY <1>8, <2>5 DEF vtrclock
    <3>2. Change({"clkExt"}, set) \in Seq(Steps)
      BY ChangeTyped DEF Bits
    <3> QED BY <1>1, <1>4, <2>1, <2>3, <3>1, <3>2
  <2> QED BY <2>4, <2>5
<1>9. CASE vtrtrigger(v)
  <2> SUFFICES ASSUME ~SuspendsTrigger, v \in triggerSoft .. triggerGate, ~isArmed
               PROVE  /\ drv' \in Drivers /\ shadow' \in Bytes /\ reg' \in Bytes
                      /\ hw' \in Hardware /\ call' \in Calls
    BY <1>6, <1>9 DEF vtrtrigger
  <2>1. /\ drv' = [drv EXCEPT !.trigger = v] /\ Enter("OK", Change(TriggerBits, TriggerBit(v)))
        /\ UNCHANGED <<shadow, reg, hw>>
    BY <1>9 DEF vtrtrigger
  <2>2. drv' \in Drivers
    BY <1>1, <2>1 DEF Drivers, triggerSoft, triggerGate
  <2>3. TriggerBits \in SUBSET Bits /\ TriggerBit(v) \in SUBSET Bits
    BY DEF TriggerBits, TriggerBit, Bits
  <2> QED BY <1>1, <1>4, <2>1, <2>2, <2>3, ChangeTyped
<1>10. CASE vtrarm(v)
  <2> SUFFICES ASSUME ~isRebooting
               PROVE  /\ drv' \in Drivers /\ shadow' \in Bytes /\ reg' \in Bytes
                      /\ hw' \in Hardware /\ call' \in Calls
    BY <1>6, <1>10 DEF vtrarm
  <2>1. /\ drv' = [drv EXCEPT !.arm = v] /\ UNCHANGED <<shadow, reg, hw>>
        /\ \E status \in {"OK", "Error"} : Enter(status, ArmSteps(v))
    BY <1>10 DEF vtrarm
  <2>2. drv' \in Drivers
    BY <1>1, <1>2, <2>1 DEF Drivers
  <2>3. ArmSteps(v) \in Seq(Steps)
    <3>1. ArmSteps(v) \in Seq(ArmingSteps)
      BY ArmStepsFit
    <3>2. ArmingSteps \subseteq Steps
      BY DEF ArmingSteps, Steps, ArmBits, Bits
    <3> HIDE DEF ArmingSteps, Steps
    <3> QED BY <3>1, <3>2
  <2> QED BY <1>1, <1>4, <2>1, <2>2, <2>3
<1>11. CASE vtrsoftTrigger
  <2> SUFFICES ASSUME ~isRebooting
               PROVE  /\ drv' \in Drivers /\ shadow' \in Bytes /\ reg' \in Bytes
                      /\ hw' \in Hardware /\ call' \in Calls
    BY <1>6, <1>11 DEF vtrsoftTrigger
  <2>1. /\ hw' \in {hw, [hw EXCEPT !.phase = "open"]} /\ Enter("OK", <<>>)
        /\ UNCHANGED <<drv, shadow, reg>>
    BY <1>11 DEF vtrsoftTrigger
  <2>2. hw' \in Hardware
    BY <1>1, <2>1 DEF Hardware
  <2> QED BY <1>1, <1>4, <1>5, <2>1, <2>2
<1> QED BY <1>7, <1>8, <1>9, <1>10, <1>11
        DEF Put, vtrnumberPTS, vtrnumberPPS, vtrnumberPTE

LEMMA StepTyped == ASSUME TypeOK, Start \/ Store \/ Write PROVE TypeOK'
<1>1. /\ setup \in Setups /\ drv \in Drivers /\ shadow \in Bytes /\ reg \in Bytes
      /\ hw \in Hardware /\ isRebooting \in BOOLEAN /\ call \in Calls
      /\ cb \in Readers /\ chan \in [Channels -> Shown]
  BY DEF TypeOK
<1>2. ~Idle /\ UNCHANGED <<setup, isRebooting, cb>>
  BY DEF Start, Store, Write, Doing
<1>3. UNCHANGED <<Channels, Readers>>
  BY <1>2 DEF Channels, Signals, Readers
<1>4. /\ Head(call.todo) \in Steps /\ Tail(call.todo) \in Seq(Steps)
      /\ Head(call.todo).clear \in SUBSET Bits /\ Head(call.todo).set \in SUBSET Bits
  BY <1>1, <1>2, ListTyped
<1> SUFFICES /\ drv' \in Drivers /\ shadow' \in Bytes /\ reg' \in Bytes
             /\ hw' \in Hardware /\ call' \in Calls /\ chan' \in [Channels -> Shown]
  <2> HIDE DEF Drivers, Bytes, Hardware, Calls, Readers, Shown, Channels
  <2> QED BY <1>1, <1>2, <1>3 DEF TypeOK
<1>5. CASE Start
  <2>1. drv' \in Drivers
    BY <1>1, <1>5 DEF Start, Drivers
  <2>2. hw' \in Hardware
    BY <1>1, <1>5 DEF Start, Hardware, Drivers
  <2>3. call' \in Calls
    BY <1>1, <1>4, <1>5 DEF Start, Calls
  <2>4. chan' \in [Channels -> Shown]
    <3>1. \A s \in Channels : [chan[s] EXCEPT !.fresh = FALSE] \in Shown
      BY <1>1 DEF Shown
    <3>2. chan' = [s \in Channels |-> [chan[s] EXCEPT !.fresh = FALSE]]
      BY <1>5 DEF Start
    <3> QED BY <3>1, <3>2
  <2> QED BY <1>1, <1>5, <2>1, <2>2, <2>3, <2>4 DEF Start
<1>6. CASE Store
  <2> DEFINE byte == (shadow.byte0 \ Head(call.todo).clear) \cup Head(call.todo).set
  <2>1. /\ shadow' = [shadow EXCEPT !.byte0 = byte]
        /\ call' = [call EXCEPT !.todo = Tail(@), !.byte = byte]
        /\ UNCHANGED <<drv, reg, hw, chan>>
    BY <1>6 DEF Store
  <2>2. byte \in SUBSET Bits
    BY <1>1, <1>4 DEF Bytes
  <2> HIDE DEF byte
  <2>3. shadow' \in Bytes
    BY <1>1, <2>1, <2>2 DEF Bytes
  <2>4. call' \in Calls
    BY <1>1, <1>4, <2>1, <2>2 DEF Calls
  <2> QED BY <1>1, <2>1, <2>3, <2>4
<1>7. CASE Write
  <2>1. PICK byte \in {shadow.byte0, call.byte} :
           reg' = [reg EXCEPT !.byte0 = byte] /\ hw' = Written(hw, byte)
    BY <1>7 DEF Write
  <2>2. byte \in SUBSET Bits
    BY <1>1 DEF Bytes, Calls
  <2>3. reg' \in Bytes
    BY <1>1, <2>1, <2>2 DEF Bytes
  <2>4. hw' \in Hardware
    BY <1>1, <2>1 DEF Hardware, Written
  <2>5. call' \in Calls
    BY <1>1, <1>4, <1>7 DEF Write, Calls
  <2> QED BY <1>1, <1>7, <2>3, <2>4, <2>5 DEF Write
<1> QED BY <1>5, <1>6, <1>7

\* The parts of a window, of any length and from any location.
LEMMA PartsTyped ==
    ASSUME NEW prePost \in BOOLEAN, NEW len \in Nat, NEW location \in Nat,
           NEW size \in Nat \ {0}
    PROVE  LET lim == getArrayLimits(prePost, len, location, size) IN
           /\ lim.n \in Nat
           /\ lim.high[1] \in Int /\ CellsOf(lim.high) \in Nat
           /\ lim.low[1] \in Int /\ CellsOf(lim.low) \in Nat
BY DEF getArrayLimits, CellsOf, MinOf

LEMMA CellsTyped ==
    ASSUME NEW part, part[1] \in Int, CellsOf(part) \in Nat, hw.total \in Nat,
           ArraySize \in Nat \ {0}
    PROVE  Cells(part) \in Seq(Int) /\ Len(Cells(part)) = CellsOf(part)
<1> DEFINE n == CellsOf(part)
<1>1. \A i \in 1 .. n : SampleIn(part[1] + i - 1, hw.total, ArraySize) \in Int
  BY DEF SampleIn, Stale
<1>2. Cells(part) = [i \in 1 .. n |-> SampleIn(part[1] + i - 1, hw.total, ArraySize)]
  BY DEF Cells
<1> HIDE DEF n
<1> QED BY <1>1, <1>2 DEF n

LEMMA ReadTyped ==
    ASSUME TypeOK, NEW s \in Channels
    PROVE  ReadChannel(s) \in Shown
<1>1. /\ drv.prePost \in BOOLEAN /\ drv.pps \in Int /\ ChanLen[s] \in Nat
      /\ cb.location \in Nat /\ hw.total \in Nat /\ ArraySize \in Nat \ {0}
      /\ chan[s] \in Shown
  <2>1. setup \in Setups
    BY DEF TypeOK
  <2>2. ArraySize \in Nat \ {0} /\ ChanLen \in [Channels -> Nat]
    BY <2>1, SetupFacts
  <2> QED BY <2>2 DEF TypeOK, Drivers, Readers, Hardware
<1>2. CASE Wanted(s) <= 0
  BY <1>1, <1>2 DEF ReadChannel
<1>3. CASE Wanted(s) > 0
  <2> DEFINE len == Wanted(s)
             lim == getArrayLimits(drv.prePost, len, cb.location, ArraySize)
  <2>1. len \in Nat /\ ~(len <= 0)
    BY <1>1, <1>3 DEF Wanted, MinOf
  <2>2. ReadChannel(s) = [ndata |-> lim.n, data |-> Cells(lim.high) \o Cells(lim.low), fresh |-> TRUE]
    BY <2>1 DEF ReadChannel
  <2> HIDE DEF len
  <2>3. /\ lim.n \in Nat /\ lim.high[1] \in Int /\ CellsOf(lim.high) \in Nat
        /\ lim.low[1] \in Int /\ CellsOf(lim.low) \in Nat
    BY <1>1, <2>1, PartsTyped
  <2> HIDE DEF lim
  <2>4. Cells(lim.high) \in Seq(Int) /\ Cells(lim.low) \in Seq(Int)
    BY <1>1, <2>3, CellsTyped
  <2>5. Cells(lim.high) \o Cells(lim.low) \in Seq(Int)
    BY <2>4, ConcatProperties
  <2> QED BY <2>2, <2>3, <2>5 DEF Shown
<1>4. Wanted(s) \in Int
  BY <1>1 DEF Wanted, MinOf
<1> QED BY <1>2, <1>3, <1>4

LEMMA EnvironmentTyped ==
    ASSUME TypeOK, \/ IgnoreInterrupt \/ CompleteInterrupt \/ ReadStart \/ ReadNext \/ Post
                   \/ PreSample \/ HwTrigger \/ HwGateDone \/ vtrReboot \/ UNCHANGED vars
    PROVE  TypeOK'
<1>1. /\ setup \in Setups /\ drv \in Drivers /\ shadow \in Bytes /\ reg \in Bytes
      /\ hw \in Hardware /\ isRebooting \in BOOLEAN /\ call \in Calls
      /\ cb \in Readers /\ chan \in [Channels -> Shown]
  BY DEF TypeOK
<1>2. UNCHANGED <<setup, call>>
  BY DEF IgnoreInterrupt, CompleteInterrupt, ReadStart, ReadNext, Post, PreSample, HwTrigger,
         HwGateDone, vtrReboot, vars
<1>3. UNCHANGED <<Channels, Readers>>
  BY <1>2 DEF Channels, Signals, Readers
<1>4. ArraySize \in Nat \ {0} /\ Signals \in Nat \ {0}
  BY <1>1, SetupFacts
<1> SUFFICES /\ drv' \in Drivers /\ shadow' \in Bytes /\ reg' \in Bytes
             /\ hw' \in Hardware /\ isRebooting' \in BOOLEAN /\ cb' \in Readers
             /\ chan' \in [Channels -> Shown]
  <2> HIDE DEF Drivers, Bytes, Hardware, Calls, Readers, Shown, Channels
  <2> QED BY <1>1, <1>2, <1>3 DEF TypeOK
<1>5. CASE IgnoreInterrupt
  <2>1. drv' \in Drivers
    BY <1>1, <1>5 DEF IgnoreInterrupt, Drivers
  <2>2. hw' \in Hardware
    BY <1>1, <1>5 DEF IgnoreInterrupt, Hardware
  <2> QED BY <1>1, <1>5, <2>1, <2>2 DEF IgnoreInterrupt
<1>6. CASE CompleteInterrupt
  <2>1. drv' \in Drivers
    BY <1>1, <1>6 DEF CompleteInterrupt, Drivers
  <2>2. hw' \in Hardware
    BY <1>1, <1>6 DEF CompleteInterrupt, Hardware, Written
  <2>3. shadow' \in Bytes /\ reg' \in Bytes
    BY <1>1, <1>6 DEF CompleteInterrupt, Bytes
  <2>4. cb' \in Readers
    BY <1>1, <1>6 DEF CompleteInterrupt, Readers
  <2> QED BY <1>1, <1>6, <2>1, <2>2, <2>3, <2>4 DEF CompleteInterrupt
<1>7. CASE ReadStart
  <2>1. readLocation \in Nat
    BY <1>1, <1>4 DEF readLocation, Hardware
  <2>2. 0 \in Channels
    BY <1>4 DEF Channels
  <2>3. cb' \in Readers
    BY <1>7, <2>1, <2>2 DEF ReadStart, Readers
  <2> QED BY <1>1, <1>7, <2>3 DEF ReadStart
<1>8. CASE ReadNext
  <2>1. cb.signal \in Channels
    BY <1>1 DEF Readers
  <2>2. chan' \in [Channels -> Shown]
    <3>1. ReadChannel(cb.signal) \in Shown
      BY <2>1, ReadTyped
    <3>2. chan' = [chan EXCEPT ![cb.signal] = ReadChannel(cb.signal)]
      BY <1>8 DEF ReadNext
    <3> QED BY <1>1, <3>1, <3>2
  <2>3. cb' \in Readers
    <3>1. 0 \in Channels /\ (cb.signal + 1 < Signals => cb.signal + 1 \in Channels)
      BY <1>4, <2>1 DEF Channels
    <3>2. cb' = IF cb.signal + 1 < Signals THEN [cb EXCEPT !.signal = cb.signal + 1]
                ELSE [cb EXCEPT !.at = "post", !.signal = 0, !.location = 0]
      BY <1>1, <1>8 DEF ReadNext, Readers
    <3> HIDE DEF Channels
    <3> QED BY <1>1, <3>1, <3>2 DEF Readers
  <2> QED BY <1>1, <1>8, <2>2, <2>3 DEF ReadNext
<1>9. CASE Post
  <2>1. cb' \in Readers
    BY <1>1, <1>9 DEF Post, Readers
  <2> QED BY <1>1, <1>9, <2>1 DEF Post
<1>10. CASE PreSample \/ HwTrigger \/ HwGateDone
  <2>1. hw' \in Hardware
    <3>1. hw.total \in Nat /\ Gate \in Nat
      BY <1>1 DEF Hardware, Gate, MaxOf
    <3>2. hw.total + 1 \in Nat /\ hw.total + Gate \in Nat /\ MinOf(hw.total + Gate, ArraySize) \in Nat
      BY <1>4, <3>1 DEF MinOf
    <3> QED BY <1>1, <1>10, <3>2 DEF PreSample, HwTrigger, HwGateDone, Hardware
  <2> QED BY <1>1, <1>10, <2>1 DEF PreSample, HwTrigger, HwGateDone
<1>11. CASE vtrReboot
  <2>1. reg' \in Bytes /\ hw' \in Hardware
    BY <1>1, <1>11 DEF vtrReboot, Bytes, Hardware, Written
  <2> QED BY <1>1, <1>11, <2>1 DEF vtrReboot
<1>12. CASE UNCHANGED vars
  BY <1>1, <1>12 DEF vars
<1> QED BY <1>5, <1>6, <1>7, <1>8, <1>9, <1>10, <1>11, <1>12

LEMMA NextTyped == TypeOK /\ [Next]_vars => TypeOK'
BY PutTyped, StepTyped, EnvironmentTyped DEF Next

\* The state has its types, whatever is put and whatever interrupts.
THEOREM TypeCorrect == Spec => []TypeOK
BY InitTyped, NextTyped, PTL DEF Spec

-----------------------------------------------------------------------------
(* The invariant *)

\* The fields that the proofs speak of.
Fields ==
    /\ {"arm", "trigger"} \subseteq DOMAIN drv
    /\ "byte0" \in DOMAIN shadow /\ "byte0" \in DOMAIN reg
    /\ {"todo", "byte"} \subseteq DOMAIN call

\* The driver has been asked to disarm last.  Either nothing is left that could
\* arm the card, or the copy of the register is still to be cleared.
Disarming ==
    drv.arm = armDisable =>
        \/ call.todo = <<>> /\ "arm" \notin shadow.byte0 /\ ~isArmed
        \/ /\ call.todo = <<WriteStep>>
           /\ "arm" \notin shadow.byte0 /\ "arm" \notin call.byte
        \/ \E clear, set :
              /\ call.todo = <<Step("store", clear, set), WriteStep>>
              /\ "arm" \notin set
              /\ "arm" \in clear \/ "arm" \notin shadow.byte0

\* The bits that are settings, and those of them that choose the trigger.
SettingsOf(byte) == byte \ ArmBits
ChosenBy(byte)   == byte \cap TriggerBits = TriggerBit(drv.trigger)

\* A method that arms or disarms leaves the settings alone, and writes what it
\* has stored.
OnlyArms ==
    /\ call.todo \in Seq([do : {"start", "store", "write"},
                          clear : SUBSET ArmBits, set : SUBSET ArmBits])
    /\ \A i \in 2 .. Len(call.todo) :
          call.todo[i].do = "write" => call.todo[i - 1].do = "store"
    /\ call.todo # <<>> /\ Head(call.todo).do = "write" =>
          SettingsOf(call.byte) = SettingsOf(shadow.byte0)

Settings ==
    ~isRebooting =>
        \/ /\ OnlyArms
           /\ SettingsOf(reg.byte0) = SettingsOf(shadow.byte0) /\ ChosenBy(shadow.byte0)
        \/ \E clear, set :
              /\ call.todo = <<Step("store", clear, set), WriteStep>>
              /\ ChosenBy((shadow.byte0 \ clear) \cup set)
        \/ /\ call.todo = <<WriteStep>> /\ ChosenBy(shadow.byte0)
           /\ SettingsOf(call.byte) = SettingsOf(shadow.byte0)

Inv == Fields /\ Disarming /\ Settings

LEMMA InvGives == Inv => DisarmSticks /\ SettingsReachCard
<1> SUFFICES ASSUME Inv, Idle PROVE DisarmSticks /\ SettingsReachCard
  BY DEF DisarmSticks, SettingsReachCard
<1>1. call.todo = <<>>
  BY DEF Idle
<1>2. \A a, b : call.todo # <<a>> /\ call.todo # <<a, b>>
  BY <1>1
<1>3. DisarmSticks
  BY <1>2 DEF Inv, Disarming, DisarmSticks
<1>4. SettingsReachCard
  <2> SUFFICES ASSUME ~isRebooting
               PROVE  /\ reg.byte0 \ ArmBits = shadow.byte0 \ ArmBits
                      /\ reg.byte0 \cap TriggerBits = TriggerBit(drv.trigger)
    BY DEF SettingsReachCard
  <2>1. SettingsOf(reg.byte0) = SettingsOf(shadow.byte0) /\ ChosenBy(shadow.byte0)
    BY <1>2 DEF Inv, Settings
  <2> QED BY <2>1 DEF SettingsOf, ChosenBy, ArmBits, TriggerBits
<1> QED BY <1>3, <1>4

LEMMA EmptyArms == ASSUME call.todo = <<>> PROVE OnlyArms
BY DEF OnlyArms

LEMMA InitInv == Init => Inv
<1> SUFFICES ASSUME Init PROVE Inv
  OBVIOUS
<1>1. /\ drv.arm = armDisable /\ drv.trigger = triggerSoft /\ call.todo = <<>>
      /\ shadow.byte0 = {} /\ reg.byte0 = {} /\ isRebooting = FALSE
  BY DEF Init, NoCall
<1>2. Fields
  BY DEF Init, Fields, NoCall
<1>3. Disarming
  BY <1>1 DEF Disarming, isArmed
<1>4. Settings
  BY <1>1, EmptyArms
     DEF Settings, SettingsOf, ChosenBy, TriggerBit, triggerSoft, triggerExt, triggerGate
<1> QED BY <1>2, <1>3, <1>4 DEF Inv

-----------------------------------------------------------------------------
(* The environment *)

\* Only the interrupt handler and the exit hook write CSR1BYTE0 on their own,
\* the handler the settings of the copy, to the copy too, and only if a mode
\* was armed.
LEMMA EnvironmentKeeps ==
    ASSUME Inv, \/ IgnoreInterrupt \/ CompleteInterrupt \/ ReadStart \/ ReadNext \/ Post
                \/ PreSample \/ HwTrigger \/ HwGateDone \/ vtrReboot \/ UNCHANGED vars
    PROVE  Inv'
<1>1. UNCHANGED call
  BY DEF IgnoreInterrupt, CompleteInterrupt, ReadStart, ReadNext, Post, PreSample, HwTrigger,
         HwGateDone, vtrReboot, vars
<1>2. CASE CompleteInterrupt
  <2>1. /\ {"arm", "trigger"} \subseteq DOMAIN drv
        /\ "byte0" \in DOMAIN shadow /\ "byte0" \in DOMAIN reg
    BY DEF Inv, Fields
  <2>2. /\ drv'.arm = drv.arm /\ drv'.trigger = drv.trigger /\ DOMAIN drv' = DOMAIN drv
        /\ drv.arm # armDisable
    BY <1>2, <2>1 DEF CompleteInterrupt, Armings, armDisable, armPostTrigger, armPrePostTrigger
  <2>3. /\ shadow'.byte0 = shadow.byte0 \ ArmBits /\ reg'.byte0 = shadow.byte0 \ ArmBits
        /\ DOMAIN shadow' = DOMAIN shadow /\ DOMAIN reg' = DOMAIN reg
        /\ isRebooting' = isRebooting
    BY <1>2, <2>1 DEF CompleteInterrupt
  <2>4. SettingsOf(shadow'.byte0) = SettingsOf(shadow.byte0)
        /\ SettingsOf(reg'.byte0) = SettingsOf(shadow.byte0)
    BY <2>3 DEF SettingsOf
  <2>5. ASSUME NEW clear, NEW set
        PROVE  ((shadow'.byte0 \ clear) \cup set) \cap TriggerBits
                  = ((shadow.byte0 \ clear) \cup set) \cap TriggerBits
    BY <2>3 DEF ArmBits, TriggerBits
  <2>6. shadow'.byte0 \cap TriggerBits = shadow.byte0 \cap TriggerBits
    BY <2>3 DEF ArmBits, TriggerBits
  <2>7. Fields'
    BY <1>1, <2>2, <2>3 DEF Inv, Fields
  <2>8. Disarming'
    BY <2>2 DEF Disarming
  <2>9. Settings'
    <3> SUFFICES ASSUME ~isRebooting PROVE Settings'
      BY <2>3 DEF Settings
    <3>1. CASE OnlyArms /\ ChosenBy(shadow.byte0)
      <4>1. OnlyArms'
        BY <1>1, <2>4, <3>1 DEF OnlyArms
      <4>2. ChosenBy(shadow.byte0)'
        BY <2>2, <2>6, <3>1 DEF ChosenBy
      <4> QED BY <2>4, <4>1, <4>2 DEF Settings
    <3>2. CASE \E clear, set :
              /\ call.todo = <<Step("store", clear, set), WriteStep>>
              /\ ChosenBy((shadow.byte0 \ clear) \cup set)
      <4>1. PICK clear, set :
              /\ call.todo = <<Step("store", clear, set), WriteStep>>
              /\ ChosenBy((shadow.byte0 \ clear) \cup set)
        BY <3>2
      <4>2. ChosenBy((shadow.byte0 \ clear) \cup set)'
        BY <2>2, <2>5, <4>1 DEF ChosenBy
      <4>3. call'.todo = <<Step("store", clear, set), WriteStep>>
        BY <1>1, <4>1
      <4> QED BY <4>2, <4>3 DEF Settings, WriteStep, Step, ChosenBy
    <3>3. CASE /\ call.todo = <<WriteStep>> /\ ChosenBy(shadow.byte0)
               /\ SettingsOf(call.byte) = SettingsOf(shadow.byte0)
      <4>1. ChosenBy(shadow.byte0)'
        BY <2>2, <2>6, <3>3 DEF ChosenBy
      <4> QED BY <1>1, <2>4, <3>3, <4>1 DEF Settings, WriteStep, Step
    <3> QED BY <3>1, <3>2, <3>3 DEF Inv, Settings
  <2> QED BY <2>7, <2>8, <2>9 DEF Inv
<1>3. CASE vtrReboot
  <2>1. UNCHANGED <<drv, shadow>> /\ reg' = [reg EXCEPT !.byte0 = {}] /\ isRebooting' = TRUE
    BY <1>3 DEF vtrReboot
  <2>2. reg'.byte0 = {} /\ DOMAIN reg' = DOMAIN reg
    BY <2>1 DEF Inv, Fields
  <2>3. Fields' /\ Settings'
    BY <1>1, <2>1, <2>2 DEF Inv, Fields, Settings
  <2>4. Disarming'
    <3> SUFFICES ASSUME drv.arm = armDisable PROVE Disarming'
      BY <2>1 DEF Disarming
    <3>1. ~isArmed'
      BY <2>2 DEF isArmed
    <3> QED BY <1>1, <2>1, <3>1 DEF Inv, Disarming, WriteStep, Step
  <2> QED BY <2>3, <2>4 DEF Inv
<1>4. CASE \/ IgnoreInterrupt \/ ReadStart \/ ReadNext \/ Post
           \/ PreSample \/ HwTrigger \/ HwGateDone \/ UNCHANGED vars
  <2>1. UNCHANGED <<shadow, reg, isRebooting>>
    BY <1>4 DEF IgnoreInterrupt, ReadStart, ReadNext, Post, PreSample, HwTrigger, HwGateDone, vars
  <2>2. drv'.arm = drv.arm /\ drv'.trigger = drv.trigger /\ DOMAIN drv' = DOMAIN drv
    BY <1>4 DEF IgnoreInterrupt, ReadStart, ReadNext, Post, PreSample, HwTrigger, HwGateDone,
                vars, Inv, Fields
  <2>3. Fields'
    BY <1>1, <2>1, <2>2 DEF Inv, Fields
  <2>4. Disarming'
    BY <1>1, <2>1, <2>2 DEF Inv, Disarming, isArmed, WriteStep, Step
  <2>5. Settings'
    BY <1>1, <2>1, <2>2 DEF Inv, Settings, OnlyArms, ChosenBy, WriteStep, Step
  <2> QED BY <2>3, <2>4, <2>5 DEF Inv
<1> QED BY <1>2, <1>3, <1>4

-----------------------------------------------------------------------------
(* The methods *)

LEMMA IdleFacts ==
    ASSUME Inv, Idle
    PROVE  /\ drv.arm = armDisable => "arm" \notin shadow.byte0 /\ ~isArmed
           /\ ~isRebooting => /\ SettingsOf(reg.byte0) = SettingsOf(shadow.byte0)
                              /\ ChosenBy(shadow.byte0)
<1>1. call.todo = <<>>
  BY DEF Idle
<1>2. \A a, b : call.todo # <<a>> /\ call.todo # <<a, b>>
  BY <1>1
<1> QED BY <1>2 DEF Inv, Disarming, Settings

LEMMA NothingToWrite ==
    ASSUME Inv, Idle, UNCHANGED isRebooting, call'.todo = <<>>, DOMAIN call' = DOMAIN call,
           drv'.arm = drv.arm, drv'.trigger = drv.trigger, DOMAIN drv' = DOMAIN drv,
           shadow'.byte0 = shadow.byte0, DOMAIN shadow' = DOMAIN shadow,
           reg'.byte0 = reg.byte0, DOMAIN reg' = DOMAIN reg
    PROVE  Inv'
<1>1. Fields'
  BY DEF Inv, Fields
<1>2. Disarming'
  BY IdleFacts DEF Disarming, isArmed
<1>3. OnlyArms'
  BY DEF OnlyArms
<1>4. Settings'
  BY <1>3, IdleFacts DEF Settings, ChosenBy
<1> QED BY <1>1, <1>2, <1>4 DEF Inv

LEMMA OneChange ==
    ASSUME Inv, Idle, UNCHANGED isRebooting, NEW clear, NEW set, "arm" \notin set,
           call'.todo = Change(clear, set), DOMAIN call' = DOMAIN call,
           drv'.arm = drv.arm, DOMAIN drv' = DOMAIN drv,
           shadow'.byte0 = shadow.byte0, DOMAIN shadow' = DOMAIN shadow,
           DOMAIN reg' = DOMAIN reg,
           ~isRebooting =>
             ((shadow.byte0 \ clear) \cup set) \cap TriggerBits = TriggerBit(drv'.trigger)
    PROVE  Inv'
<1>1. call'.todo = <<Step("store", clear, set), WriteStep>>
  BY DEF Change, WriteStep
<1>2. Fields'
  BY DEF Inv, Fields
<1>3. Disarming'
  BY <1>1, IdleFacts DEF Disarming, WriteStep, Step
<1>4. Settings'
  BY <1>1 DEF Settings, ChosenBy, WriteStep, Step
<1> QED BY <1>2, <1>3, <1>4 DEF Inv

LEMMA ArmKeeps ==
    ASSUME Inv, Idle, UNCHANGED isRebooting, NEW v, vtrarm(v), ~isRebooting
    PROVE  Inv'
<1>1. /\ drv' = [drv EXCEPT !.arm = v] /\ UNCHANGED <<shadow, reg>>
      /\ call'.todo = ArmSteps(v) /\ DOMAIN call' = DOMAIN call
  BY DEF vtrarm, Enter, Inv, Fields
<1>2. drv'.arm = v /\ drv'.trigger = drv.trigger /\ DOMAIN drv' = DOMAIN drv
  BY <1>1 DEF Inv, Fields
<1>3. Fields'
  BY <1>1, <1>2 DEF Inv, Fields
<1>4. Disarming'
  <2> SUFFICES ASSUME v = armDisable PROVE Disarming'
    BY <1>2 DEF Disarming
  <2>1. call'.todo = <<Step("store", ArmBits, {}), WriteStep>>
    BY <1>1, ArmStepsFit
  <2>2. "arm" \in ArmBits
    BY DEF ArmBits
  <2> QED BY <2>1, <2>2 DEF Disarming, WriteStep, Step
<1>5. OnlyArms'
  BY <1>1, ArmStepsFit DEF OnlyArms, ArmingSteps
<1>6. Settings'
  BY <1>1, <1>2, <1>5, IdleFacts DEF Settings, ChosenBy
<1> QED BY <1>3, <1>4, <1>6 DEF Inv

LEMMA PutKeeps ==
    ASSUME Inv, NEW r \in Records, NEW v \in Values[r], Put(r, v)
    PROVE  Inv'
<1>1. Idle /\ UNCHANGED isRebooting
  BY DEF Put
<1>2. /\ {"arm", "trigger"} \subseteq DOMAIN drv
      /\ "byte0" \in DOMAIN shadow /\ "byte0" \in DOMAIN reg
      /\ {"todo", "byte"} \subseteq DOMAIN call
  BY DEF Inv, Fields
<1>3. ASSUME NEW status, Refuse(status) PROVE Inv'
  BY <1>1, <1>2, <1>3, NothingToWrite DEF Refuse, Enter
<1>4. ASSUME NEW field \in {"pts", "pps", "pte"}, Setting(field, v) PROVE Inv'
  <2>1. CASE isArmed
    BY <1>3, <1>4, <2>1 DEF Setting
  <2>2. CASE ~isArmed
    <3>1. /\ drv' = [drv EXCEPT ![field] = v] /\ UNCHANGED <<shadow, reg>>
          /\ call'.todo = <<>> /\ DOMAIN call' = DOMAIN call
      BY <1>2, <1>4, <2>2 DEF Setting, Enter
    <3>2. drv'.arm = drv.arm /\ drv'.trigger = drv.trigger /\ DOMAIN drv' = DOMAIN drv
      BY <1>2, <3>1
    <3> QED BY <1>1, <3>1, <3>2, NothingToWrite
  <2> QED BY <2>1, <2>2
<1>5. CASE vtrclock(v)
  <2> SUFFICES ASSUME ~isArmed PROVE Inv'
    BY <1>3, <1>5 DEF vtrclock
  <2>1. /\ shadow'.byte0 = shadow.byte0 /\ DOMAIN shadow' = DOMAIN shadow
        /\ reg'.byte0 = reg.byte0 /\ DOMAIN reg' = DOMAIN reg /\ UNCHANGED drv
    BY <1>2, <1>5 DEF vtrclock
  <2>2. CASE isRebooting
    <3>1. call'.todo = <<>> /\ DOMAIN call' = DOMAIN call
      BY <1>2, <1>5, <2>2 DEF vtrclock, Enter
    <3> QED BY <1>1, <2>1, <3>1, NothingToWrite
  <2>3. CASE ~isRebooting
    <3> DEFINE set == IF (v \div 8) % 2 = 1 THEN {"clkExt"} ELSE {}
    <3>1. call'.todo = Change({"clkExt"}, set) /\ DOMAIN call' = DOMAIN call
      BY <1>2, <1>5, <2>3 DEF vtrclock, Enter
    <3>2. set \subseteq {"clkExt"}
      OBVIOUS
    <3> HIDE DEF set
    <3>3. ((shadow.byte0 \ {"clkExt"}) \cup set) \cap TriggerBits = TriggerBit(drv'.trigger)
      <4>1. ChosenBy(shadow.byte0)
        BY <1>1, <2>3, IdleFacts
      <4> QED BY <2>1, <3>2, <4>1 DEF ChosenBy, TriggerBits
    <3>4. "arm" \notin set
      BY <3>2
    <3> QED BY <1>1, <2>1, <3>1, <3>3, <3>4, OneChange
  <2> QED BY <2>2, <2>3
<1>6. CASE vtrtrigger(v)
  <2> SUFFICES ASSUME ~SuspendsTrigger, v \in triggerSoft .. triggerGate, ~isArmed PROVE Inv'
    BY <1>3, <1>6 DEF vtrtrigger
  <2>1. /\ drv' = [drv EXCEPT !.trigger = v] /\ UNCHANGED <<shadow, reg>>
        /\ call'.todo = Change(TriggerBits, TriggerBit(v)) /\ DOMAIN call' = DOMAIN call
    BY <1>2, <1>6 DEF vtrtrigger, Enter
  <2>2. drv'.arm = drv.arm /\ drv'.trigger = v /\ DOMAIN drv' = DOMAIN drv
    BY <1>2, <2>1
  <2>3. TriggerBit(v) \subseteq TriggerBits /\ "arm" \notin TriggerBits
    BY DEF TriggerBit, TriggerBits
  <2>4. ((shadow.byte0 \ TriggerBits) \cup TriggerBit(v)) \cap TriggerBits = TriggerBit(drv'.trigger)
    BY <2>2, <2>3
  <2>5. "arm" \notin TriggerBit(v)
    BY <2>3
  <2> QED BY <1>1, <2>1, <2>2, <2>4, <2>5, OneChange
<1>7. CASE vtrsoftTrigger
  <2> SUFFICES ASSUME ~isRebooting PROVE Inv'
    BY <1>3, <1>7 DEF vtrsoftTrigger
  <2>1. UNCHANGED <<drv, shadow, reg>> /\ call'.todo = <<>> /\ DOMAIN call' = DOMAIN call
    BY <1>2, <1>7 DEF vtrsoftTrigger, Enter
  <2> QED BY <1>1, <2>1, NothingToWrite
<1>8. CASE vtrarm(v)
  <2>1. CASE isRebooting
    BY <1>3, <1>8, <2>1 DEF vtrarm
  <2> QED BY <1>1, <1>8, <2>1, ArmKeeps
<1>9. CASE vtrnumberPTS(v) \/ vtrnumberPPS(v) \/ vtrnumberPTE(v)
  BY <1>4, <1>9 DEF vtrnumberPTS, vtrnumberPPS, vtrnumberPTE
<1> QED BY <1>5, <1>6, <1>7, <1>8, <1>9 DEF Put

-----------------------------------------------------------------------------
(* The steps of a method *)

\* The list of a method that arms or disarms, one step later.
LEMMA TailArms ==
    ASSUME OnlyArms, call.todo # <<>>
    PROVE  LET s == call.todo
               t == Tail(s) IN
           /\ Head(s) \in ArmingSteps /\ t \in Seq(ArmingSteps)
           /\ \A i \in 2 .. Len(t) : t[i].do = "write" => t[i - 1].do = "store"
           /\ t # <<>> /\ Head(t).do = "write" => Head(s).do = "store"
<1> DEFINE s == call.todo
           t == Tail(s)
<1>1. /\ s \in Seq(ArmingSteps) /\ s # <<>>
      /\ \A i \in 2 .. Len(s) : s[i].do = "write" => s[i - 1].do = "store"
  BY DEF OnlyArms, ArmingSteps
<1> HIDE DEF s
<1>2. /\ Head(s) \in ArmingSteps /\ t \in Seq(ArmingSteps) /\ Len(s) \in Nat /\ Len(s) >= 1
      /\ Head(s) = s[1] /\ Len(t) = Len(s) - 1
      /\ \A i \in 1 .. Len(t) : t[i] = s[i + 1]
  BY <1>1
<1> HIDE DEF t
<1>3. \A i \in 2 .. Len(t) : t[i].do = "write" => t[i - 1].do = "store"
  <2> SUFFICES ASSUME NEW i \in 2 .. Len(t), t[i].do = "write" PROVE t[i - 1].do = "store"
    OBVIOUS
  <2>1. t[i] = s[i + 1] /\ i - 1 \in 1 .. Len(t) /\ i + 1 \in 2 .. Len(s)
    BY <1>2
  <2>2. t[i - 1] = s[(i - 1) + 1] /\ (i - 1) + 1 = (i + 1) - 1
    BY <1>2, <2>1
  <2> QED BY <1>1, <2>1, <2>2
<1>4. t # <<>> /\ Head(t).do = "write" => Head(s).do = "store"
  <2> SUFFICES ASSUME t # <<>>, Head(t).do = "write" PROVE Head(s).do = "store"
    OBVIOUS
  <2>1. Head(t) = t[1] /\ 1 \in 1 .. Len(t)
    BY <1>2
  <2>2. t[1] = s[2] /\ 2 \in 2 .. Len(s)
    BY <1>2, <2>1
  <2>3. s[2 - 1].do = "store"
    BY <1>1, <2>1, <2>2
  <2> QED BY <1>2, <2>3
<1> QED BY <1>2, <1>3, <1>4 DEF s, t

\* What is left of a method that changes one setting.
LEMMA ChangeFacts ==
    /\ \A clear, set :
          LET s == <<Step("store", clear, set), WriteStep>> IN
          Head(s) = Step("store", clear, set) /\ Tail(s) = <<WriteStep>>
    /\ Head(<<WriteStep>>) = WriteStep /\ Tail(<<WriteStep>>) = <<>>
    /\ WriteStep.do = "write"
    /\ \A clear, set : LET a == Step("store", clear, set) IN
          a.do = "store" /\ a.clear = clear /\ a.set = set
BY DEF WriteStep, Step

LEMMA StartKeeps == ASSUME Inv, Start PROVE Inv'
<1>1. /\ call.todo # <<>> /\ Head(call.todo).do = "start"
      /\ call'.todo = Tail(call.todo) /\ DOMAIN call' = DOMAIN call
      /\ UNCHANGED <<shadow, reg, isRebooting>>
  BY DEF Start, Doing, Idle, Inv, Fields
<1>2. drv'.arm = drv.arm /\ drv'.trigger = drv.trigger /\ DOMAIN drv' = DOMAIN drv
  BY DEF Start, Inv, Fields
<1>3. /\ \A clear, set : call.todo # <<Step("store", clear, set), WriteStep>>
      /\ call.todo # <<WriteStep>>
  <2>1. ASSUME NEW clear, NEW set, call.todo = <<Step("store", clear, set), WriteStep>>
        PROVE  FALSE
    <3>1. Head(call.todo) = Step("store", clear, set)
      BY <2>1, ChangeFacts
    <3>2. Head(call.todo).do = "store"
      BY <3>1, ChangeFacts
    <3> QED BY <1>1, <3>2
  <2>2. call.todo = <<WriteStep>> => FALSE
    BY <1>1, ChangeFacts
  <2> QED BY <2>1, <2>2
<1>4. Fields'
  BY <1>1, <1>2 DEF Inv, Fields
<1>5. drv.arm # armDisable
  BY <1>1, <1>3 DEF Inv, Disarming
<1>6. Disarming'
  BY <1>2, <1>5 DEF Disarming
<1>7. Settings'
  <2> SUFFICES ASSUME ~isRebooting PROVE Settings'
    BY <1>1 DEF Settings
  <2>1. OnlyArms /\ SettingsOf(reg.byte0) = SettingsOf(shadow.byte0) /\ ChosenBy(shadow.byte0)
    BY <1>3 DEF Inv, Settings
  <2>2. OnlyArms'
    BY <1>1, <2>1, TailArms DEF OnlyArms, ArmingSteps
  <2> QED BY <1>1, <1>2, <2>1, <2>2 DEF Settings, ChosenBy
<1> QED BY <1>4, <1>6, <1>7 DEF Inv

LEMMA StoreKeeps == ASSUME Inv, Store PROVE Inv'
<1> DEFINE a    == Head(call.todo)
           byte == (shadow.byte0 \ a.clear) \cup a.set
<1>1. /\ call.todo # <<>> /\ a.do = "store"
      /\ call'.todo = Tail(call.todo) /\ call'.byte = byte /\ DOMAIN call' = DOMAIN call
      /\ shadow'.byte0 = byte /\ DOMAIN shadow' = DOMAIN shadow
      /\ UNCHANGED <<drv, reg, isRebooting>>
  BY DEF Store, Doing, Idle, Inv, Fields
<1>2. call.todo # <<WriteStep>>
  BY <1>1, ChangeFacts
<1>3. Fields'
  BY <1>1 DEF Inv, Fields
<1>4. Disarming'
  <2> SUFFICES ASSUME drv.arm = armDisable PROVE Disarming'
    BY <1>1 DEF Disarming
  <2>1. PICK clear, set :
              /\ call.todo = <<Step("store", clear, set), WriteStep>>
              /\ "arm" \notin set
              /\ "arm" \in clear \/ "arm" \notin shadow.byte0
    BY <1>1, <1>2 DEF Inv, Disarming
  <2>2. a.clear = clear /\ a.set = set /\ Tail(call.todo) = <<WriteStep>>
    BY <2>1, ChangeFacts
  <2>3. "arm" \notin byte
    BY <2>1, <2>2
  <2> QED BY <1>1, <2>2, <2>3 DEF Disarming, WriteStep, Step
<1>5. Settings'
  <2> SUFFICES ASSUME ~isRebooting PROVE Settings'
    BY <1>1 DEF Settings
  <2>1. CASE OnlyArms /\ SettingsOf(reg.byte0) = SettingsOf(shadow.byte0) /\ ChosenBy(shadow.byte0)
    <3>1. a.clear \subseteq ArmBits /\ a.set \subseteq ArmBits
      BY <1>1, <2>1, TailArms DEF ArmingSteps
    <3>2. SettingsOf(byte) = SettingsOf(shadow.byte0)
      BY <3>1 DEF SettingsOf
    <3>3. byte \cap TriggerBits = shadow.byte0 \cap TriggerBits
      BY <3>1 DEF ArmBits, TriggerBits
    <3>4. OnlyArms'
      BY <1>1, <2>1, TailArms DEF OnlyArms, ArmingSteps
    <3> QED BY <1>1, <2>1, <3>2, <3>3, <3>4 DEF Settings, ChosenBy
  <2>2. ASSUME NEW clear, NEW set, call.todo = <<Step("store", clear, set), WriteStep>>,
               ChosenBy((shadow.byte0 \ clear) \cup set)
        PROVE  Settings'
    <3>1. a.clear = clear /\ a.set = set /\ Tail(call.todo) = <<WriteStep>>
      BY <2>2, ChangeFacts
    <3>2. ChosenBy(shadow.byte0)'
      BY <1>1, <2>2, <3>1 DEF ChosenBy
    <3>3. SettingsOf(call.byte)' = SettingsOf(shadow.byte0)'
      BY <1>1
    <3> QED BY <1>1, <3>1, <3>2, <3>3 DEF Settings, WriteStep, Step
  <2> QED BY <1>2, <2>1, <2>2 DEF Inv, Settings
<1> QED BY <1>3, <1>4, <1>5 DEF Inv

LEMMA WriteKeeps == ASSUME Inv, Write PROVE Inv'
<1>1. PICK byte \in {shadow.byte0, call.byte} :
         /\ call.todo # <<>> /\ Head(call.todo).do = "write"
         /\ reg'.byte0 = byte /\ DOMAIN reg' = DOMAIN reg
         /\ call'.todo = Tail(call.todo) /\ DOMAIN call' = DOMAIN call
         /\ UNCHANGED <<drv, shadow, isRebooting>>
  BY DEF Write, Doing, Idle, Inv, Fields
<1>2. \A clear, set : call.todo # <<Step("store", clear, set), WriteStep>>
  <2> SUFFICES ASSUME NEW clear, NEW set, call.todo = <<Step("store", clear, set), WriteStep>>
               PROVE  FALSE
    OBVIOUS
  <2>1. Head(call.todo) = Step("store", clear, set)
    BY ChangeFacts
  <2>2. Head(call.todo).do = "store"
    BY <2>1, ChangeFacts
  <2> QED BY <1>1, <2>2
<1>3. Fields'
  BY <1>1 DEF Inv, Fields
<1>4. Disarming'
  <2> SUFFICES ASSUME drv.arm = armDisable PROVE Disarming'
    BY <1>1 DEF Disarming
  <2>1. call.todo = <<WriteStep>> /\ "arm" \notin shadow.byte0 /\ "arm" \notin call.byte
    BY <1>1, <1>2 DEF Inv, Disarming
  <2>2. call'.todo = <<>>
    BY <1>1, <2>1, ChangeFacts
  <2> QED BY <1>1, <2>1, <2>2 DEF Disarming, isArmed
<1>5. Settings'
  <2> SUFFICES ASSUME ~isRebooting PROVE Settings'
    BY <1>1 DEF Settings
  <2>1. CASE OnlyArms /\ SettingsOf(reg.byte0) = SettingsOf(shadow.byte0) /\ ChosenBy(shadow.byte0)
    <3>1. SettingsOf(byte) = SettingsOf(shadow.byte0)
      BY <1>1, <2>1 DEF OnlyArms
    <3>2. OnlyArms'
      BY <1>1, <2>1, TailArms DEF OnlyArms, ArmingSteps
    <3> QED BY <1>1, <2>1, <3>1, <3>2 DEF Settings, ChosenBy
  <2>2. CASE /\ call.todo = <<WriteStep>> /\ ChosenBy(shadow.byte0)
             /\ SettingsOf(call.byte) = SettingsOf(shadow.byte0)
    <3>1. SettingsOf(byte) = SettingsOf(shadow.byte0)
      BY <2>2
    <3>2. call'.todo = <<>>
      BY <1>1, <2>2, ChangeFacts
    <3>3. OnlyArms'
      BY <3>2 DEF OnlyArms
    <3> QED BY <1>1, <2>2, <3>1, <3>3 DEF Settings, ChosenBy
  <2> QED BY <1>2, <2>1, <2>2 DEF Inv, Settings
<1> QED BY <1>3, <1>4, <1>5 DEF Inv

-----------------------------------------------------------------------------
(* The theorems *)

LEMMA NextKeeps == Inv /\ [Next]_vars => Inv'
<1> SUFFICES ASSUME Inv, [Next]_vars PROVE Inv'
  OBVIOUS
<1>1. CASE \E r \in Records : \E v \in Values[r] : Put(r, v)
  BY <1>1, PutKeeps
<1>2. CASE Start \/ Store \/ Write
  BY <1>2, StartKeeps, StoreKeeps, WriteKeeps
<1>3. CASE \/ IgnoreInterrupt \/ CompleteInterrupt \/ ReadStart \/ ReadNext \/ Post
           \/ PreSample \/ HwTrigger \/ HwGateDone \/ vtrReboot \/ UNCHANGED vars
  BY <1>3, EnvironmentKeeps
<1> QED BY <1>1, <1>2, <1>3 DEF Next

\* Once vtrarm(armDisable) has returned the recorder is disarmed and stays so,
\* though the interrupt handler may have rewritten CSR1BYTE0 and its copy at
\* any point of it, and a later vtrclock or vtrtrigger writes the copy back.
THEOREM DisarmHolds == Spec => []DisarmSticks
<1>1. Inv => DisarmSticks
  BY InvGives
<1> QED BY <1>1, InitInv, NextKeeps, PTL DEF Spec

\* Between two calls the register holds the trigger and the clock last chosen,
\* though two actors change its copy and write it back in steps.
THEOREM SettingsReach == Spec => []SettingsReachCard
<1>1. Inv => SettingsReachCard
  BY InvGives
<1> QED BY <1>1, InitInv, NextKeeps, PTL DEF Spec

\* The exit hook has disarmed the card between two calls.
SafelyOff == Model = "vtr10010" /\ isRebooting /\ Idle /\ ~isArmed
LEMMA OffStaysOff == SafelyOff /\ Inv /\ [Next]_vars => SafelyOff'
<1> SUFFICES ASSUME SafelyOff, Inv, [Next]_vars PROVE SafelyOff'
  OBVIOUS
<1> USE DEF SafelyOff
<1>0. "byte0" \in DOMAIN reg /\ {"todo", "byte"} \subseteq DOMAIN call
  BY DEF Inv, Fields
<1>1. ASSUME NEW r \in Records, NEW v \in Values[r], Put(r, v) PROVE SafelyOff'
  <2>1. UNCHANGED <<setup, isRebooting>>
    BY <1>1 DEF Put
  <2>2. ASSUME NEW status, Refuse(status) PROVE call'.todo = <<>> /\ reg'.byte0 = reg.byte0
    BY <1>0, <2>2 DEF Refuse, Enter
  <2>3. ASSUME NEW field, Setting(field, v) PROVE call'.todo = <<>> /\ reg'.byte0 = reg.byte0
    BY <1>0, <2>3 DEF Setting, Enter
  <2>4. vtrclock(v) => call'.todo = <<>> /\ reg'.byte0 = reg.byte0
    BY <1>0 DEF vtrclock, Enter
  <2>5. vtrtrigger(v) => call'.todo = <<>> /\ reg'.byte0 = reg.byte0
    BY <2>2 DEF vtrtrigger, SuspendsTrigger
  <2>6. vtrarm(v) \/ vtrsoftTrigger => call'.todo = <<>> /\ reg'.byte0 = reg.byte0
    BY <2>2 DEF vtrarm, vtrsoftTrigger
  <2>7. call'.todo = <<>> /\ reg'.byte0 = reg.byte0
    BY <1>1, <2>3, <2>4, <2>5, <2>6 DEF Put, vtrnumberPTS, vtrnumberPPS, vtrnumberPTE
  <2> QED BY <2>1, <2>7 DEF Model, Idle, isArmed
<1>2. ~(Start \/ Store \/ Write \/ CompleteInterrupt \/ vtrReboot)
  BY DEF Start, Store, Write, Doing, CompleteInterrupt, vtrReboot
<1>3. CASE \/ IgnoreInterrupt \/ ReadStart \/ ReadNext \/ Post
           \/ PreSample \/ HwTrigger \/ HwGateDone \/ UNCHANGED vars
  BY <1>3 DEF IgnoreInterrupt, ReadStart, ReadNext, Post, PreSample, HwTrigger, HwGateDone, vars,
              Model, Idle, isArmed
<1> QED BY <1>1, <1>2, <1>3 DEF Next

\* A VTR10010 that is disarmed after the exit hook, no method being under way,
\* is not armed again: whatever is put, nothing writes csr1byte0 back, though
\* it may still have the bits that arm.
THEOREM ExitKeepsDisarmed == Spec => StaysDisarmedAfterExit
<1>1. SafelyOff => ~isArmed
  BY DEF SafelyOff
<1> QED BY <1>1, InitInv, NextKeeps, OffStaysOff, PTL DEF Spec, StaysDisarmedAfterExit, SafelyOff

-----------------------------------------------------------------------------
(* What a step of a method and what a put change *)

\* The steps of a list, and those of them that are not the last two.
Left(s)  == {s[i] : i \in 1 .. Len(s)}
Early(s) == {s[i] : i \in 1 .. Len(s) - 2}

Ordered(s) ==
    /\ \A i \in 2 .. Len(s) : s[i].do # "start" /\ (s[i].do = "write" => s[i - 1].do = "store")
    /\ s # <<>> => s[Len(s)].do = "write"
    /\ s # <<>> /\ s[1].do = "start" =>
          Len(s) >= 3 /\ s[2].do = "store" /\ ArmBits \subseteq s[2].clear

LEMMA TailOrdered ==
    ASSUME NEW s \in Seq(Steps), s # <<>>, Ordered(s)
    PROVE  LET t == Tail(s) IN
           /\ t \in Seq(Steps) /\ Ordered(t) /\ Len(s) \in Nat /\ Len(s) >= 1 /\ Len(t) = Len(s) - 1
           /\ Head(s) = s[1] /\ Head(s) \in Steps
           /\ \A i \in 1 .. Len(t) : t[i] = s[i + 1]
           /\ t # <<>> => Head(t) = s[2] /\ Head(t) = t[1] /\ Head(t).do # "start" /\ Len(s) >= 2
           /\ t = <<>> => Len(s) = 1
<1> DEFINE t == Tail(s)
<1> HIDE DEF Steps
<1>0. /\ t \in Seq(Steps) /\ Len(s) \in Nat /\ Len(s) >= 1 /\ Len(t) = Len(s) - 1
      /\ Head(s) = s[1] /\ Head(s) \in Steps
      /\ \A i \in 1 .. Len(t) : t[i] = s[i + 1]
  OBVIOUS
<1> HIDE DEF t
<1>1. /\ t \in Seq(Steps) /\ Len(s) \in Nat /\ Len(s) >= 1 /\ Len(t) = Len(s) - 1
      /\ Head(s) = s[1] /\ Head(s) \in Steps
      /\ \A i \in 1 .. Len(t) : t[i] = s[i + 1]
      /\ t = <<>> => Len(t) = 0
      /\ t # <<>> => Head(t) = t[1] /\ Len(t) >= 1
  BY <1>0
<1>2. t # <<>> => Head(t) = s[2] /\ Head(t).do # "start" /\ Len(s) >= 2
  BY <1>1 DEF Ordered
<1>3. ASSUME NEW i \in 2 .. Len(t)
      PROVE  t[i].do # "start" /\ (t[i].do = "write" => t[i - 1].do = "store")
  <2>1. t[i] = s[i + 1] /\ i - 1 \in 1 .. Len(t) /\ i + 1 \in 2 .. Len(s)
    BY <1>1
  <2>2. t[i - 1] = s[(i - 1) + 1] /\ (i - 1) + 1 = (i + 1) - 1
    BY <1>1, <2>1
  <2> QED BY <2>1, <2>2 DEF Ordered
<1>4. t # <<>> => t[Len(t)].do = "write"
  <2> SUFFICES ASSUME t # <<>> PROVE t[Len(t)].do = "write"
    OBVIOUS
  <2>1. Len(t) \in 1 .. Len(t) /\ Len(t) + 1 = Len(s)
    BY <1>1
  <2>2. t[Len(t)] = s[Len(s)]
    BY <1>1, <2>1
  <2> QED BY <2>2 DEF Ordered
<1>5. Ordered(t)
  BY <1>1, <1>2, <1>3, <1>4 DEF Ordered
<1> QED BY <1>1, <1>2, <1>5 DEF t

LEMMA DoingIs ==
    ASSUME TypeOK
    PROVE  /\ Idle \/ Doing("start") \/ Doing("store") \/ Doing("write")
           /\ \A x : Doing(x) => ~Idle
           /\ \A x, y : x # y => ~(Doing(x) /\ Doing(y))
<1>1. ~Idle => Head(call.todo) \in Steps
  BY ListTyped DEF TypeOK
<1> QED BY <1>1 DEF Doing, Steps

LEMMA StepEffect ==
    ASSUME TypeOK, Ordered(call.todo), Start \/ Store \/ Write
    PROVE  /\ Ordered(call.todo)' /\ Left(call'.todo) \subseteq Left(call.todo) /\ Early(call'.todo) \subseteq Early(call.todo)
           /\ Len(call.todo) \in Nat /\ Len(call'.todo) = Len(call.todo) - 1 /\ ~Idle
           /\ Head(call.todo) \in Left(call.todo)
           /\ Len(call.todo) >= 3 => Head(call.todo) \in Early(call.todo)
           /\ ~Doing("start")'
           /\ Start => Doing("store")' /\ ArmBits \subseteq Head(call'.todo).clear
           /\ Store => ~Idle'
           /\ Write => ~Doing("write")' /\ (Idle' \/ Len(call.todo) >= 3)
<1> DEFINE s == call.todo  t == Tail(s)
<1>1. s \in Seq(Steps) /\ s # <<>> /\ call'.todo = t
  BY DEF TypeOK, Calls, Start, Store, Write, Doing, Idle
<1>2. /\ t \in Seq(Steps) /\ Ordered(t) /\ Len(s) \in Nat /\ Len(s) >= 1 /\ Len(t) = Len(s) - 1
      /\ Head(s) = s[1] /\ Head(s) \in Steps
      /\ \A i \in 1 .. Len(t) : t[i] = s[i + 1]
      /\ t # <<>> => Head(t) = s[2] /\ Head(t) = t[1] /\ Head(t).do # "start" /\ Len(s) >= 2
      /\ t = <<>> => Len(s) = 1
  BY <1>1, TailOrdered
<1> HIDE DEF s, t, Steps
<1>3. Ordered(call.todo)'
  BY <1>1, <1>2 DEF Ordered
<1>4. Left(call'.todo) \subseteq Left(call.todo)
  <2> SUFFICES ASSUME NEW i \in 1 .. Len(t) PROVE t[i] \in Left(s)
    BY <1>1 DEF Left, s
  <2>1. i + 1 \in 1 .. Len(s) /\ t[i] = s[i + 1]
    BY <1>2
  <2> QED BY <2>1 DEF Left
<1>5. Early(call'.todo) \subseteq Early(call.todo)
  <2> SUFFICES ASSUME NEW i \in 1 .. Len(t) - 2 PROVE t[i] \in Early(s)
    BY <1>1 DEF Early, s
  <2>1. i + 1 \in 1 .. Len(s) - 2 /\ t[i] = s[i + 1]
    BY <1>2
  <2> QED BY <2>1 DEF Early
<1>6. Head(s) \in Left(s) /\ (Len(s) >= 3 => Head(s) \in Early(s))
  <2>1. 1 \in 1 .. Len(s) /\ (Len(s) >= 3 => 1 \in 1 .. Len(s) - 2)
    BY <1>2
  <2> QED BY <1>2, <2>1 DEF Left, Early
<1>7. ~Doing("start")'
  BY <1>1, <1>2 DEF Doing, Idle
<1>8. ASSUME Start PROVE Doing("store")' /\ ArmBits \subseteq Head(call'.todo).clear
  <2>1. Head(s).do = "start"
    BY <1>8 DEF Start, Doing, s
  <2>2. Len(s) >= 3 /\ s[2].do = "store" /\ ArmBits \subseteq s[2].clear
    BY <1>1, <1>2, <2>1 DEF Ordered, s
  <2> QED BY <1>1, <1>2, <2>2 DEF Doing, Idle
<1>9. ASSUME Store PROVE ~Idle'
  <2>1. Head(s).do = "store"
    BY <1>9 DEF Store, Doing, s
  <2>2. Len(s) # 1
    BY <1>1, <1>2, <2>1 DEF Ordered, s
  <2> QED BY <1>1, <1>2, <2>2 DEF Idle
<1>10. ASSUME Write PROVE ~Doing("write")'
  <2>1. Head(s).do = "write"
    BY <1>10 DEF Write, Doing, s
  <2>2. ASSUME t # <<>> PROVE Head(t).do # "write"
    <3>1. 2 \in 2 .. Len(s) /\ s[2 - 1] = s[1]
      BY <1>2, <2>2
    <3> QED BY <1>2, <2>1, <2>2, <3>1 DEF Ordered, s
  <2> QED BY <1>1, <2>2 DEF Doing, Idle
<1>11. ASSUME Write, ~Idle' PROVE Len(s) >= 3
  <2>1. t # <<>> /\ Len(s) >= 2
    BY <1>1, <1>2, <1>11 DEF Idle
  <2>2. s[2].do # "write"
    BY <1>1, <1>2, <1>10, <1>11, <2>1 DEF Doing, Idle
  <2>3. s[Len(s)].do = "write"
    BY <1>1 DEF Ordered, s
  <2>4. Len(s) # 2
    BY <2>2, <2>3
  <2> QED BY <1>2, <2>1, <2>4
<1> QED BY <1>1, <1>2, <1>3, <1>4, <1>5, <1>6, <1>7, <1>8, <1>9, <1>10, <1>11 DEF s, Idle

\* The lists that methods begin with.
LEMMA EmptyList == Ordered(<<>>) /\ Left(<<>>) = {} /\ Early(<<>>) = {}
BY DEF Ordered, Left, Early

LEMMA ChangeList ==
    ASSUME NEW clear, NEW set
    PROVE  LET s == Change(clear, set) IN
           /\ s # <<>> /\ Ordered(s) /\ Len(s) = 2 /\ Head(s) = Step("store", clear, set)
           /\ Left(s) = {Step("store", clear, set), WriteStep} /\ Early(s) = {}
<1> DEFINE a == Step("store", clear, set)
           s == <<a, WriteStep>>
<1>1. Change(clear, set) = s
  BY DEF Change, WriteStep
<1>2. a.do = "store" /\ WriteStep.do = "write"
  BY StepFacts
<1> HIDE DEF a
<1>3. s # <<>> /\ Len(s) = 2 /\ Head(s) = a /\ s[1] = a /\ s[2] = WriteStep
  OBVIOUS
<1> HIDE DEF s
<1>4. (\A i \in 1 .. Len(s) : i = 1 \/ i = 2) /\ 1 \in 1 .. Len(s) /\ 2 \in 1 .. Len(s)
  BY <1>3
<1>5. Ordered(s)
  BY <1>2, <1>3, <1>4 DEF Ordered
<1>6. Left(s) = {a, WriteStep} /\ Early(s) = {}
  BY <1>3, <1>4 DEF Left, Early
<1> QED BY <1>1, <1>3, <1>5, <1>6 DEF a

LEMMA NonEmpty == ASSUME NEW S, NEW s \in Seq(S), Len(s) > 0 PROVE s # <<>> /\ Head(s) = s[1]
OBVIOUS

LEMMA ArmList ==
    LET post == ArmSteps(armPostTrigger)
        pre  == ArmSteps(armPrePostTrigger)
        clear == Step("store", ArmBits, {})
    IN /\ \A v \in Armings : LET s == ArmSteps(v) IN
             s # <<>> /\ Ordered(s) /\ Head(s).do = "start" /\ Len(s) \in {3, 7}
       /\ Left(post) = {StartStep, Step("store", ArmBits, {"arm"}), WriteStep}
       /\ Early(post) = {StartStep}
       /\ Left(pre) = {StartStep, clear, WriteStep, Step("store", {}, FirstPass),
                        Step("store", {}, ArmBits)}
       /\ Early(pre) \subseteq {StartStep, clear, WriteStep, Step("store", {}, FirstPass)}
<1> DEFINE a == Step("store", ArmBits, {"arm"})
           b == Step("store", ArmBits, {})
           c == Step("store", {}, FirstPass)
           d == Step("store", {}, ArmBits)
<1>1. /\ StartStep.do = "start" /\ WriteStep.do = "write"
      /\ a.do = "store" /\ a.clear = ArmBits /\ b.do = "store" /\ b.clear = ArmBits
      /\ c.do = "store" /\ d.do = "store"
  BY StepFacts
<1> HIDE DEF a, b, c, d
<1>2. LET s == ArmSteps(armPostTrigger)
      IN /\ s # <<>> /\ Ordered(s) /\ Head(s).do = "start" /\ Len(s) = 3
         /\ Left(s) = {StartStep, a, WriteStep} /\ Early(s) = {StartStep}
  <2> DEFINE s == ArmSteps(armPostTrigger)
  <2>1. s \in Seq(ArmingSteps) /\ Len(s) = 3 /\ s[1] = StartStep /\ s[2] = a /\ s[3] = WriteStep
    BY ArmStepsAre DEF a
  <2> HIDE DEF s
  <2>2. /\ \A i \in 1 .. Len(s) : i = 1 \/ i = 2 \/ i = 3
        /\ 1 \in 1 .. Len(s) /\ 2 \in 1 .. Len(s) /\ 3 \in 1 .. Len(s)
        /\ 1 .. Len(s) - 2 = {1}
    BY <2>1
  <2>3. s # <<>> /\ Head(s) = StartStep
    BY <2>1, NonEmpty
  <2>4. Left(s) = {StartStep, a, WriteStep} /\ Early(s) = {StartStep}
    BY <2>1, <2>2 DEF Left, Early
  <2>5. Ordered(s)
    BY <1>1, <2>1, <2>2 DEF Ordered
  <2> QED BY <1>1, <2>1, <2>3, <2>4, <2>5 DEF s
<1>3. LET s == ArmSteps(armPrePostTrigger)
      IN /\ s # <<>> /\ Ordered(s) /\ Head(s).do = "start" /\ Len(s) = 7
         /\ Left(s) = {StartStep, b, WriteStep, c, d} /\ Early(s) \subseteq {StartStep, b, WriteStep, c}
  <2> DEFINE s == ArmSteps(armPrePostTrigger)
  <2>1. /\ s \in Seq(ArmingSteps) /\ Len(s) = 7 /\ s[1] = StartStep /\ s[2] = b
        /\ s[3] = WriteStep /\ s[4] = c /\ s[5] = WriteStep /\ s[6] = d /\ s[7] = WriteStep
    BY ArmStepsAre DEF b, c, d
  <2> HIDE DEF s
  <2>2. /\ \A i \in 1 .. Len(s) : i = 1 \/ i = 2 \/ i = 3 \/ i = 4 \/ i = 5 \/ i = 6 \/ i = 7
        /\ 1 \in 1 .. Len(s) /\ 2 \in 1 .. Len(s) /\ 3 \in 1 .. Len(s) /\ 4 \in 1 .. Len(s)
        /\ 6 \in 1 .. Len(s)
        /\ \A i \in 1 .. Len(s) - 2 : i = 1 \/ i = 2 \/ i = 3 \/ i = 4 \/ i = 5
    BY <2>1
  <2>3. s # <<>> /\ Head(s) = StartStep
    BY <2>1, NonEmpty
  <2>4. Left(s) = {StartStep, b, WriteStep, c, d}
    <3>1. \A i \in 1 .. Len(s) : s[i] \in {StartStep, b, WriteStep, c, d}
      BY <2>1, <2>2
    <3>2. {s[1], s[2], s[3], s[4], s[6]} \subseteq Left(s)
      BY <2>2 DEF Left
    <3> QED BY <2>1, <3>1, <3>2 DEF Left
  <2>5. Early(s) \subseteq {StartStep, b, WriteStep, c}
    BY <2>1, <2>2 DEF Early
  <2>6. Ordered(s)
    BY <1>1, <2>1, <2>2 DEF Ordered
  <2> QED BY <1>1, <2>1, <2>3, <2>4, <2>5, <2>6 DEF s
<1> QED BY <1>2, <1>3 DEF Armings, a, b, c, d

\* What a put does, by its kind.
Same == /\ UNCHANGED <<setup, isRebooting, cb, chan>>
        /\ reg'.byte0 = reg.byte0 /\ shadow'.byte0 = shadow.byte0 /\ call'.byte = call.byte
Refused == /\ call'.todo = <<>> /\ UNCHANGED drv
           /\ \/ UNCHANGED hw
              \/ CanTrigger /\ hw' = [hw EXCEPT !.phase = "open"]
Assigned(v) == /\ call'.todo = <<>> /\ UNCHANGED hw /\ ~isArmed
               /\ \E field \in {"pts", "pps", "pte"} : drv' = [drv EXCEPT ![field] = v]
Changed == /\ UNCHANGED hw /\ ~isArmed
           /\ \E trigger : drv' = [drv EXCEPT !.trigger = trigger]
           /\ \E clear, set \in SUBSET (Bits \ ArmBits) : call'.todo = Change(clear, set)
Asked(v) == /\ UNCHANGED hw /\ ~isRebooting
            /\ drv' = [drv EXCEPT !.arm = v] /\ call'.todo = ArmSteps(v)

LEMMA PutEffect ==
    ASSUME TypeOK, NEW r \in Records, NEW v \in Values[r], Put(r, v)
    PROVE  /\ Idle /\ Allowed(r, v) /\ Same /\ v \in Int
           /\ \/ Refused
              \/ r \notin {"arm", "softTrigger"} /\ Assigned(v)
              \/ r \notin {"arm", "softTrigger"} /\ Changed
              \/ r = "arm" /\ Asked(v)
           /\ r \notin {"arm", "softTrigger"} => Allowed(r, v) = (~OperatorWaits \/ Quiet)
<1>1. shadow \in Bytes /\ reg \in Bytes /\ call \in Calls /\ drv \in Drivers /\ setup \in Setups
  BY DEF TypeOK
<1>2. Idle /\ Allowed(r, v) /\ UNCHANGED <<setup, isRebooting, cb, chan>> /\ v \in Int
  BY <1>1, SetupFacts DEF Put
<1>3. r \notin {"arm", "softTrigger"} => Allowed(r, v) = (~OperatorWaits \/ Quiet)
  BY DEF Allowed
<1>4. ASSUME NEW status, Refuse(status) PROVE Same /\ Refused
  BY <1>1, <1>2, <1>4 DEF Refuse, Enter, Same, Refused, Calls
<1>5. ASSUME NEW field \in {"pts", "pps", "pte"}, Setting(field, v)
      PROVE  Same /\ (Refused \/ Assigned(v))
  BY <1>1, <1>2, <1>4, <1>5 DEF Setting, Enter, Same, Assigned, Calls
<1>6. ASSUME vtrclock(v) PROVE Same /\ (Refused \/ Changed)
  <2> SUFFICES ASSUME ~isArmed PROVE Same /\ (Refused \/ Changed)
    BY <1>4, <1>6 DEF vtrclock
  <2>1. shadow'.byte0 = shadow.byte0 /\ reg'.byte0 = reg.byte0 /\ UNCHANGED <<drv, hw>>
        /\ call'.byte = call.byte
    BY <1>1, <1>6 DEF vtrclock, Bytes, Enter, Calls
  <2>2. Same
    BY <1>2, <2>1 DEF Same
  <2>3. CASE isRebooting
    BY <1>1, <1>6, <2>1, <2>2, <2>3 DEF vtrclock, Enter, Refused, Calls
  <2>4. CASE ~isRebooting
    <3>1. drv' = [drv EXCEPT !.trigger = drv.trigger]
      BY <1>1, <2>1 DEF Drivers
    <3>2. PICK set \in SUBSET {"clkExt"} : call'.todo = Change({"clkExt"}, set)
      BY <1>1, <1>6, <2>4 DEF vtrclock, Enter, Calls
    <3>3. {"clkExt"} \in SUBSET (Bits \ ArmBits) /\ set \in SUBSET (Bits \ ArmBits)
      BY DEF Bits, ArmBits
    <3> QED BY <2>1, <2>2, <3>1, <3>2, <3>3 DEF Changed
  <2> QED BY <2>3, <2>4
<1>7. ASSUME vtrtrigger(v) PROVE Same /\ (Refused \/ Changed)
  <2> SUFFICES ASSUME ~SuspendsTrigger, v \in triggerSoft .. triggerGate, ~isArmed
               PROVE  Same /\ Changed
    BY <1>4, <1>7 DEF vtrtrigger
  <2>1. /\ drv' = [drv EXCEPT !.trigger = v] /\ UNCHANGED <<shadow, reg, hw>>
        /\ call'.todo = Change(TriggerBits, TriggerBit(v)) /\ call'.byte = call.byte
    BY <1>1, <1>7 DEF vtrtrigger, Enter, Calls
  <2>2. TriggerBits \in SUBSET (Bits \ ArmBits) /\ TriggerBit(v) \in SUBSET (Bits \ ArmBits)
    BY DEF TriggerBits, TriggerBit, Bits, ArmBits
  <2> QED BY <1>2, <2>1, <2>2 DEF Same, Changed
<1>8. ASSUME vtrsoftTrigger PROVE Same /\ Refused
  <2> SUFFICES ASSUME ~isRebooting PROVE Same /\ Refused
    BY <1>4, <1>8 DEF vtrsoftTrigger
  <2> QED BY <1>1, <1>2, <1>8 DEF vtrsoftTrigger, Enter, Same, Refused, Calls
<1>9. ASSUME vtrarm(v) PROVE Same /\ (Refused \/ Asked(v))
  <2> SUFFICES ASSUME ~isRebooting PROVE Same /\ Asked(v)
    BY <1>4, <1>9 DEF vtrarm
  <2> QED BY <1>1, <1>2, <1>9 DEF vtrarm, Enter, Same, Asked, Calls
<1>10. \/ r = "clock" /\ vtrclock(v)
       \/ r = "trigger" /\ vtrtrigger(v)
       \/ r = "numberPTS" /\ Setting("pts", v)
       \/ r = "numberPPS" /\ Setting("pps", v)
       \/ r = "numberPTE" /\ Setting("pte", v)
       \/ r = "arm" /\ vtrarm(v)
       \/ r = "softTrigger" /\ vtrsoftTrigger
  BY DEF Put, vtrnumberPTS, vtrnumberPPS, vtrnumberPTE
<1>11. /\ Same
       /\ \/ Refused
          \/ r \notin {"arm", "softTrigger"} /\ Assigned(v)
          \/ r \notin {"arm", "softTrigger"} /\ Changed
          \/ r = "arm" /\ Asked(v)
  BY <1>5, <1>6, <1>7, <1>8, <1>9, <1>10
<1> QED BY <1>2, <1>3, <1>11

-----------------------------------------------------------------------------
(* Armed as set *)

\* What stands in the register and in its copy: at the write the copy may have
\* lost the bits that arm, and between two calls it arms no more than the
\* register.
Lists ==
    /\ Ordered(call.todo)
    /\ Doing("start") => drv.arm \in Armings
    /\ Doing("write") => shadow.byte0 \subseteq call.byte
    /\ Idle /\ ~isRebooting /\ "arm" \in shadow.byte0 => isArmed

\* What would arm the card would arm it in the mode that the driver believes in,
\* once it is about to be written; and the steps that are left keep it so.
Mode == IF Doing("start") THEN drv.arm = armPrePostTrigger ELSE drv.prePost
Fits(byte) == "arm" \in byte => (("circ" \in byte) = drv.prePost)
KeepsFit(step, circ) ==
    IF circ THEN /\ "arm" \in step.set => "circ" \in step.set
                 /\ "circ" \in step.clear => "arm" \in step.clear
    ELSE "circ" \notin step.set /\ ("arm" \in step.set => "circ" \in step.clear)
Cleared == Doing("store") /\ ArmBits \subseteq Head(call.todo).clear
Modes ==
    /\ Idle => Fits(reg.byte0)
    /\ Doing("write") => Fits(call.byte)
    /\ Fits(shadow.byte0) \/ Doing("start") \/ Cleared
    /\ \A step \in Left(call.todo) : step.do = "store" => KeepsFit(step, Mode)

\* Either the settings are loaded, or they will be, or nothing arms the card.
Loaded == hw.gate = drv.pts /\ drv.prePost = (drv.arm = armPrePostTrigger)
CannotArm ==
    /\ ~isArmed /\ "arm" \notin shadow.byte0
    /\ Doing("write") => "arm" \notin call.byte
    /\ Doing("start") \/ \A step \in Left(call.todo) : "arm" \notin step.set
AsSet == ~isRebooting /\ drv.arm \in Armings => Doing("start") \/ Loaded \/ CannotArm

ArmInv == Lists /\ Modes /\ AsSet

LEMMA ArmedIsAsSet == ArmInv => ArmedAsSet
<1> SUFFICES ASSUME ArmInv, Idle, isArmed, ~isRebooting, drv.arm \in Armings
             PROVE  /\ hw.gate = drv.pts /\ drv.prePost = (drv.arm = armPrePostTrigger)
                    /\ Circular = drv.prePost
  BY DEF ArmedAsSet
<1>1. Loaded
  BY DEF ArmInv, AsSet, CannotArm, Doing
<1>2. Fits(reg.byte0)
  BY DEF ArmInv, Modes
<1> QED BY <1>1, <1>2 DEF Loaded, Fits, isArmed, Circular

LEMMA InitArmInv == Init => ArmInv
<1> SUFFICES ASSUME Init PROVE ArmInv
  OBVIOUS
<1>1. /\ call.todo = <<>> /\ shadow.byte0 = {} /\ reg.byte0 = {} /\ Idle /\ drv.arm = armDisable
  BY DEF Init, NoCall, Idle
<1>2. \A x : ~Doing(x)
  BY <1>1 DEF Doing
<1>3. Lists /\ Modes
  BY <1>1, <1>2, EmptyList DEF Lists, Modes, Fits
<1>4. AsSet
  BY <1>1 DEF AsSet, Armings, armDisable, armPostTrigger, armPrePostTrigger
<1> QED BY <1>3, <1>4 DEF ArmInv

LEMMA PutArmInv ==
    ASSUME TypeOK, ArmInv, NEW r \in Records, NEW v \in Values[r], Put(r, v)
    PROVE  ArmInv'
<1>1. /\ Idle /\ UNCHANGED isRebooting
      /\ reg'.byte0 = reg.byte0 /\ shadow'.byte0 = shadow.byte0 /\ call'.byte = call.byte
  BY PutEffect DEF Same
<1>2. Refused \/ Assigned(v) \/ Changed \/ Asked(v)
  BY PutEffect
<1>3. /\ Fits(reg.byte0) /\ Fits(shadow.byte0)
      /\ ~isRebooting /\ "arm" \in shadow.byte0 => isArmed
      /\ ~isRebooting /\ drv.arm \in Armings => Loaded \/ CannotArm
      /\ isArmed' = isArmed
  BY <1>1 DEF ArmInv, Lists, Modes, AsSet, Cleared, Doing, isArmed
<1>4. drv \in Drivers /\ hw \in Hardware
  BY DEF TypeOK
<1>5. CASE Refused \/ Assigned(v)
  <2>1. call'.todo = <<>> /\ Idle' /\ (\A x : ~Doing(x)')
    BY <1>5 DEF Refused, Assigned, Idle, Doing
  <2>2. drv'.arm = drv.arm /\ drv'.prePost = drv.prePost
    BY <1>4, <1>5 DEF Refused, Assigned, Drivers
  <2>3. Lists'
    BY <1>1, <1>3, <2>1, EmptyList DEF Lists
  <2>4. Modes'
    BY <1>1, <1>3, <2>1, <2>2, EmptyList DEF Modes, Fits
  <2>5. AsSet'
    <3> SUFFICES ASSUME ~isRebooting, drv.arm \in Armings PROVE Loaded' \/ CannotArm'
      BY <1>1, <2>2 DEF AsSet
    <3>1. CannotArm \/ Assigned(v) => CannotArm'
      BY <1>1, <1>3, <2>1, EmptyList DEF CannotArm, Assigned, isArmed
    <3>2. Refused /\ Loaded => Loaded'
      <4>1. Refused => hw'.gate = hw.gate /\ UNCHANGED drv
        BY <1>4 DEF Refused, Hardware
      <4> QED BY <4>1 DEF Loaded
    <3> QED BY <1>3, <1>5, <3>1, <3>2
  <2> QED BY <2>3, <2>4, <2>5 DEF ArmInv
<1>6. CASE Changed
  <2>1. PICK clear \in SUBSET (Bits \ ArmBits), set \in SUBSET (Bits \ ArmBits) :
           call'.todo = Change(clear, set)
    BY <1>6 DEF Changed
  <2> DEFINE a == Step("store", clear, set)
  <2>2. a.do = "store" /\ a.clear = clear /\ a.set = set
    BY StepFacts
  <2> HIDE DEF a
  <2>3. /\ ~Idle' /\ Doing("store")' /\ ~Doing("start")' /\ ~Doing("write")'
        /\ Ordered(call.todo)' /\ Left(call'.todo) = {a, WriteStep}
    BY <2>1, <2>2, ChangeList DEF Doing, Idle, a
  <2>4. drv'.arm = drv.arm /\ drv'.prePost = drv.prePost /\ UNCHANGED hw /\ ~isArmed
        /\ drv'.pts = drv.pts
    BY <1>4, <1>6 DEF Changed, Drivers
  <2>5. Lists'
    BY <1>1, <2>3 DEF Lists
  <2>6. \A circ : KeepsFit(a, circ)
    BY <2>2 DEF KeepsFit, ArmBits
  <2>7. Modes'
    <3>1. Fits(shadow.byte0)'
      BY <1>1, <1>3, <2>4 DEF Fits
    <3> QED BY <2>3, <2>6, <3>1, StepFacts DEF Modes
  <2>8. AsSet'
    <3> SUFFICES ASSUME ~isRebooting PROVE CannotArm'
      BY <1>1 DEF AsSet
    <3>1. "arm" \notin set
      BY DEF ArmBits
    <3> QED BY <1>1, <1>3, <2>2, <2>3, <2>4, <3>1, StepFacts DEF CannotArm
  <2> QED BY <2>5, <2>7, <2>8 DEF ArmInv
<1>7. CASE Asked(v)
  <2>1. /\ drv'.arm = v /\ drv'.prePost = drv.prePost /\ call'.todo = ArmSteps(v)
    BY <1>4, <1>7 DEF Asked, Drivers
  <2>2. Fits(shadow.byte0)' /\ Fits(reg.byte0)'
    BY <1>1, <1>3, <2>1 DEF Fits
  <2>3. CASE v \in Armings
    <3>1. Doing("start")' /\ ~Idle' /\ ~Doing("store")' /\ ~Doing("write")'
          /\ Ordered(call.todo)'
      BY <2>1, <2>3, ArmList DEF Doing, Idle
    <3>2. \A step \in Left(call'.todo) : step.do = "store" => KeepsFit(step, Mode')
      <4>1. Mode' = (v = armPrePostTrigger)
        BY <2>1, <3>1 DEF Mode
      <4>2. CASE v = armPostTrigger
        <5> DEFINE a == Step("store", ArmBits, {"arm"})
        <5>1. a.set = {"arm"} /\ a.clear = ArmBits
          BY StepFacts
        <5>2. Left(call'.todo) = {StartStep, a, WriteStep}
          BY <2>1, <4>2, ArmList
        <5> HIDE DEF a
        <5>3. v # armPrePostTrigger
          BY <4>2 DEF armPostTrigger, armPrePostTrigger
        <5>4. KeepsFit(a, Mode')
          BY <4>1, <5>1, <5>3 DEF KeepsFit, ArmBits
        <5> QED BY <5>2, <5>4, StepFacts
      <4>3. CASE v = armPrePostTrigger
        <5> DEFINE b == Step("store", ArmBits, {})
                   c == Step("store", {}, FirstPass)
                   d == Step("store", {}, ArmBits)
        <5>1. /\ b.set = {} /\ b.clear = ArmBits /\ c.set = FirstPass /\ c.clear = {}
              /\ d.set = ArmBits /\ d.clear = {}
          BY StepFacts
        <5>2. Left(call'.todo) = {StartStep, b, WriteStep, c, d}
          BY <2>1, <4>3, ArmList
        <5> HIDE DEF b, c, d
        <5>3. KeepsFit(b, TRUE) /\ KeepsFit(c, TRUE) /\ KeepsFit(d, TRUE)
          BY <5>1 DEF KeepsFit, ArmBits, FirstPass, FirstPass1012, FirstPass10010
        <5>4. Mode' = TRUE
          BY <4>1, <4>3
        <5> QED BY <5>2, <5>3, <5>4, StepFacts
      <4> QED BY <2>3, <4>2, <4>3 DEF Armings
    <3>3. Lists'
      BY <2>1, <2>3, <3>1 DEF Lists
    <3>4. Modes'
      BY <2>2, <3>1, <3>2 DEF Modes
    <3> QED BY <3>1, <3>3, <3>4 DEF ArmInv, AsSet
  <2>4. CASE v \notin Armings
    <3>1. AsSet'
      BY <2>1, <2>4 DEF AsSet
    <3>2. CASE v = armDisable
      <4> DEFINE a == Step("store", ArmBits, {})
      <4>1. call'.todo = Change(ArmBits, {})
        BY <2>1, <3>2, ArmStepsAre DEF Change, WriteStep
      <4>2. a.do = "store" /\ a.clear = ArmBits /\ a.set = {}
        BY StepFacts
      <4> HIDE DEF a
      <4>3. /\ ~Idle' /\ Doing("store")' /\ ~Doing("start")' /\ ~Doing("write")'
            /\ Ordered(call.todo)' /\ Left(call'.todo) = {a, WriteStep}
        BY <4>1, <4>2, ChangeList DEF Doing, Idle, a
      <4>4. \A circ : KeepsFit(a, circ)
        BY <4>2 DEF KeepsFit, ArmBits
      <4>5. Lists'
        BY <4>3 DEF Lists
      <4>6. Modes'
        BY <2>2, <4>3, <4>4, StepFacts DEF Modes
      <4> QED BY <3>1, <4>5, <4>6 DEF ArmInv
    <3>3. CASE v # armDisable
      <4>1. call'.todo = <<>>
        BY <2>1, <2>4, <3>3, ArmStepsAre DEF Armings
      <4>2. Idle' /\ (\A x : ~Doing(x)')
        BY <4>1 DEF Idle, Doing
      <4>3. Lists'
        BY <1>1, <1>3, <4>1, <4>2, EmptyList DEF Lists
      <4>4. Modes'
        BY <2>2, <4>1, <4>2, EmptyList DEF Modes
      <4> QED BY <3>1, <4>3, <4>4 DEF ArmInv
    <3> QED BY <3>2, <3>3
  <2> QED BY <2>3, <2>4
<1> QED BY <1>2, <1>5, <1>6, <1>7

\* What a store leaves of the mode of a byte.
LEMMA StoredFits ==
    ASSUME NEW step, step.do = "store", KeepsFit(step, drv.prePost), drv.prePost \in BOOLEAN,
           Fits(shadow.byte0) \/ ArmBits \subseteq step.clear
    PROVE  Fits((shadow.byte0 \ step.clear) \cup step.set)
BY DEF Fits, KeepsFit, ArmBits

LEMMA StepArmInv == ASSUME TypeOK, ArmInv, Start \/ Store \/ Write PROVE ArmInv'
<1>1. /\ Ordered(call.todo)' /\ Left(call'.todo) \subseteq Left(call.todo) /\ ~Idle
      /\ Head(call.todo) \in Left(call.todo) /\ ~Doing("start")'
      /\ Start => Doing("store")' /\ ArmBits \subseteq Head(call'.todo).clear
      /\ Store => ~Idle'
      /\ Write => ~Doing("write")'
  BY StepEffect DEF ArmInv, Lists
<1>2. UNCHANGED isRebooting /\ UNCHANGED setup
  BY DEF Start, Store, Write
<1>3. /\ drv \in Drivers /\ hw \in Hardware /\ shadow \in Bytes /\ reg \in Bytes /\ call \in Calls
      /\ TypeOK'
  BY StepTyped DEF TypeOK
<1>4. CASE Start
  <2>1. /\ Doing("start") /\ UNCHANGED <<shadow, reg>>
        /\ drv'.prePost = (drv.arm = armPrePostTrigger) /\ drv'.arm = drv.arm /\ drv'.pts = drv.pts
        /\ hw'.gate = drv.pts
    BY <1>3, <1>4 DEF Start, Drivers, Hardware
  <2>2. Doing("store")' /\ ~Doing("start")' /\ ~Doing("write")' /\ ~Idle' /\ Cleared'
    BY <1>1, <1>4 DEF Doing, Cleared
  <2>3. Lists'
    BY <1>1, <2>2 DEF Lists
  <2>4. Mode' = Mode
    BY <2>1, <2>2 DEF Mode
  <2>5. Modes'
    BY <1>1, <2>2, <2>4 DEF Modes, ArmInv
  <2>6. AsSet'
    BY <2>1 DEF AsSet, Loaded
  <2> QED BY <2>3, <2>5, <2>6 DEF ArmInv
<1>5. CASE Store
  <2> DEFINE step == Head(call.todo)
             byte == (shadow.byte0 \ step.clear) \cup step.set
  <2>1. /\ Doing("store") /\ step.do = "store" /\ UNCHANGED <<drv, reg, hw>>
        /\ shadow'.byte0 = byte /\ call'.byte = byte
    BY <1>3, <1>5 DEF Store, Bytes, Calls, Doing
  <2>2. step \in Left(call.todo) /\ ~Doing("start") /\ ~Idle'
    BY <1>1, <1>5, <2>1 DEF Doing
  <2> HIDE DEF step
  <2>3. Fits(byte)
    <3>1. KeepsFit(step, drv.prePost)
      BY <2>1, <2>2 DEF ArmInv, Modes, Mode
    <3>2. Fits(shadow.byte0) \/ ArmBits \subseteq step.clear
      BY <2>2 DEF ArmInv, Modes, Cleared, step
    <3>3. drv.prePost \in BOOLEAN
      BY <1>3 DEF Drivers
    <3> QED BY <2>1, <3>1, <3>2, <3>3, StoredFits
  <2> HIDE DEF byte
  <2>4. Lists'
    BY <1>1, <2>1, <2>2 DEF Lists
  <2>5. Modes'
    <3>1. Mode' = Mode
      BY <1>1, <2>1, <2>2 DEF Mode
    <3>2. Fits(shadow.byte0)' /\ Fits(call.byte)'
      BY <2>1, <2>3 DEF Fits
    <3> QED BY <1>1, <2>2, <3>1, <3>2 DEF Modes, ArmInv
  <2>6. AsSet'
    <3> SUFFICES ASSUME ~isRebooting, drv.arm \in Armings PROVE Loaded' \/ CannotArm'
      BY <1>2, <2>1 DEF AsSet
    <3>1. Loaded => Loaded'
      BY <2>1 DEF Loaded
    <3>2. ASSUME CannotArm PROVE CannotArm'
      <4>1. "arm" \notin byte
        BY <2>2, <3>2 DEF CannotArm, byte
      <4> QED BY <1>1, <2>1, <2>2, <3>2, <4>1 DEF CannotArm, isArmed
    <3> QED BY <2>2, <3>1, <3>2 DEF ArmInv, AsSet
  <2> QED BY <2>4, <2>5, <2>6 DEF ArmInv
<1>6. CASE Write
  <2>1. PICK byte \in {shadow.byte0, call.byte} :
           /\ Doing("write") /\ UNCHANGED <<drv, shadow>> /\ reg'.byte0 = byte
           /\ hw'.gate = hw.gate
    BY <1>3, <1>6 DEF Write, Bytes, Written, Hardware
  <2>2. ~Doing("start") /\ ~Doing("store") /\ ~Doing("write")' /\ ~Doing("start")'
    BY <1>1, <1>6, <2>1 DEF Doing
  <2>3. shadow.byte0 \subseteq byte /\ Fits(byte) /\ Fits(shadow.byte0)
    BY <2>1, <2>2 DEF ArmInv, Lists, Modes, Cleared
  <2>4. Lists'
    BY <1>1, <2>1, <2>2, <2>3 DEF Lists, isArmed
  <2>5. Modes'
    <3>1. Mode' = Mode
      BY <2>1, <2>2 DEF Mode
    <3>2. Fits(shadow.byte0)' /\ Fits(reg.byte0)'
      BY <2>1, <2>3 DEF Fits
    <3> QED BY <1>1, <2>2, <3>1, <3>2 DEF Modes, ArmInv
  <2>6. AsSet'
    <3> SUFFICES ASSUME ~isRebooting, drv.arm \in Armings PROVE Loaded' \/ CannotArm'
      BY <1>2, <2>1 DEF AsSet
    <3>1. Loaded => Loaded'
      BY <2>1 DEF Loaded
    <3>2. ASSUME CannotArm PROVE CannotArm'
      <4>1. "arm" \notin byte
        BY <2>1, <3>2 DEF CannotArm
      <4> QED BY <1>1, <2>1, <2>2, <3>2, <4>1 DEF CannotArm, isArmed
    <3> QED BY <2>2, <3>1, <3>2 DEF ArmInv, AsSet
  <2> QED BY <2>4, <2>5, <2>6 DEF ArmInv
<1> QED BY <1>4, <1>5, <1>6

LEMMA EnvironmentArmInv ==
    ASSUME TypeOK, ArmInv,
           \/ IgnoreInterrupt \/ CompleteInterrupt \/ ReadStart \/ ReadNext \/ Post
           \/ PreSample \/ HwTrigger \/ HwGateDone \/ vtrReboot \/ UNCHANGED vars
    PROVE  ArmInv'
<1>1. UNCHANGED <<call, setup>>
  BY DEF IgnoreInterrupt, CompleteInterrupt, ReadStart, ReadNext, Post, PreSample, HwTrigger,
         HwGateDone, vtrReboot, vars
<1>2. drv \in Drivers /\ hw \in Hardware /\ shadow \in Bytes /\ reg \in Bytes
  BY DEF TypeOK
<1>3. drv'.arm = drv.arm /\ drv'.prePost = drv.prePost /\ drv'.pts = drv.pts /\ hw'.gate = hw.gate
  <2>1. drv'.arm = drv.arm /\ drv'.prePost = drv.prePost /\ drv'.pts = drv.pts
    BY <1>2 DEF Drivers, IgnoreInterrupt, CompleteInterrupt, ReadStart, ReadNext, Post, PreSample,
                HwTrigger, HwGateDone, vtrReboot, vars
  <2>2. hw'.gate = hw.gate
    BY <1>2 DEF Hardware, IgnoreInterrupt, CompleteInterrupt, ReadStart, ReadNext, Post, PreSample,
                HwTrigger, HwGateDone, vtrReboot, Written, vars
  <2> QED BY <2>1, <2>2
<1>4. Idle' = Idle /\ (\A x : Doing(x)' = Doing(x)) /\ Mode' = Mode /\ Loaded' = Loaded
      /\ Cleared' = Cleared
  BY <1>1, <1>3 DEF Idle, Doing, Mode, Loaded, Cleared
<1>5. CASE UNCHANGED <<reg, shadow, isRebooting>>
  <2>1. Lists'
    BY <1>1, <1>3, <1>4, <1>5 DEF ArmInv, Lists, isArmed
  <2>2. Modes'
    BY <1>1, <1>3, <1>4, <1>5 DEF ArmInv, Modes, Fits
  <2>3. AsSet'
    BY <1>1, <1>3, <1>4, <1>5 DEF ArmInv, AsSet, CannotArm, isArmed
  <2> QED BY <2>1, <2>2, <2>3 DEF ArmInv
<1>6. CASE CompleteInterrupt
  <2>1. /\ shadow'.byte0 = shadow.byte0 \ ArmBits /\ reg'.byte0 = shadow.byte0 \ ArmBits
        /\ UNCHANGED isRebooting
    BY <1>2, <1>6 DEF CompleteInterrupt, Bytes
  <2>2. "arm" \notin shadow'.byte0 /\ "arm" \notin reg'.byte0 /\ shadow'.byte0 \subseteq shadow.byte0
    BY <2>1 DEF ArmBits
  <2>3. Lists'
    BY <1>1, <1>3, <1>4, <2>2 DEF ArmInv, Lists, isArmed
  <2>4. Modes'
    BY <1>1, <1>3, <1>4, <2>2 DEF ArmInv, Modes, Fits
  <2>5. AsSet'
    BY <1>1, <1>3, <1>4, <2>1, <2>2 DEF ArmInv, AsSet, CannotArm, isArmed
  <2> QED BY <2>3, <2>4, <2>5 DEF ArmInv
<1>7. CASE vtrReboot
  <2>1. isRebooting' = TRUE /\ reg'.byte0 = {} /\ UNCHANGED shadow
    BY <1>2, <1>7 DEF vtrReboot, Bytes
  <2>2. Lists'
    BY <1>1, <1>3, <1>4, <2>1 DEF ArmInv, Lists
  <2>3. Modes'
    BY <1>1, <1>3, <1>4, <2>1 DEF ArmInv, Modes, Fits
  <2> QED BY <2>1, <2>2, <2>3 DEF ArmInv, AsSet
<1>8. UNCHANGED <<reg, shadow, isRebooting>> \/ CompleteInterrupt \/ vtrReboot
  BY DEF IgnoreInterrupt, ReadStart, ReadNext, Post, PreSample, HwTrigger, HwGateDone, vars
<1> QED BY <1>5, <1>6, <1>7, <1>8

LEMMA NextArmInv == TypeOK /\ ArmInv /\ [Next]_vars => ArmInv'
BY PutArmInv, StepArmInv, EnvironmentArmInv DEF Next

\* A recorder that is armed records with the settings its driver holds and in
\* the mode that was armed, though arming takes up to seven steps between which
\* interrupts come, and settings are put at any time.
THEOREM ArmedCardAsSet == Spec => []ArmedAsSet
BY InitTyped, NextTyped, InitArmInv, NextArmInv, ArmedIsAsSet, PTL DEF Spec

-----------------------------------------------------------------------------
(* The waiting operator *)

\* A VTR1012 in pre/post-trigger mode arms with the first of two writes, and
\* may be interrupted before the second.
Race   == Model = "vtr1012" /\ drv.prePost
Racing == Model = "vtr1012" /\ Mode
CbBusy == cb.pending \/ cb.at # "idle"

\* A card that is not armed waits.
Waits == ~isArmed => hw.phase = "wait"

\* While a method arms the card, or sets the clock or trigger, nothing else is
\* going on; a VTR1012 in pre/post-trigger mode may be interrupted once it has
\* begun.
Alone ==
    ~Idle /\ drv.arm # armDisable /\ (~Race \/ Doing("start")) =>
        /\ ~isArmed /\ ~hw.irq /\ ~CbBusy
        /\ Doing("start") => "arm" \notin shadow.byte0

\* Only the last write arms it.
LastArms ==
    ~Idle /\ drv.arm # armDisable /\ ~Racing =>
        /\ Len(call.todo) >= 3 => /\ "arm" \notin shadow.byte0
                                  /\ Doing("write") => "arm" \notin call.byte
        /\ \A step \in Early(call.todo) : "arm" \notin step.set

\* When the callback has been asked for, and until it has posted, at most a
\* request to disarm is under way.
CbAlone ==
    CbBusy /\ ~Race =>
        ~isArmed /\ "arm" \notin shadow.byte0 /\ ~hw.irq /\ (Idle \/ drv.arm = armDisable)

WaitInv == Waits /\ Fits(reg.byte0) /\ Alone /\ LastArms /\ CbAlone

LEMMA InitWaitInv == Init => WaitInv
<1> SUFFICES ASSUME Init PROVE WaitInv
  OBVIOUS
<1>1. /\ Idle /\ hw.phase = "wait" /\ reg.byte0 = {} /\ shadow.byte0 = {} /\ ~hw.irq
  BY DEF Init, NoCall, Idle
<1> QED BY <1>1 DEF WaitInv, Waits, Fits, Alone, LastArms, CbAlone, isArmed

LEMMA PutWaitInv ==
    ASSUME TypeOK, ArmInv, OperatorWaits, WaitInv, NEW r \in Records, NEW v \in Values[r], Put(r, v)
    PROVE  WaitInv'
<1>1. /\ Idle /\ UNCHANGED <<setup, isRebooting, cb>>
      /\ reg'.byte0 = reg.byte0 /\ shadow'.byte0 = shadow.byte0 /\ call'.byte = call.byte
  BY PutEffect DEF Same
<1>2. drv \in Drivers /\ hw \in Hardware
  BY DEF TypeOK
<1>3. /\ isArmed' = isArmed /\ CbBusy' = CbBusy /\ UNCHANGED Model
  BY <1>1 DEF isArmed, CbBusy, Model
<1>4. CASE Refused
  <2>1. /\ Idle' /\ UNCHANGED drv /\ hw'.irq = hw.irq
        /\ hw'.phase = hw.phase \/ isArmed
    BY <1>2, <1>4 DEF Refused, Idle, CanTrigger, Hardware
  <2>2. Race' = Race
    BY <1>3, <2>1 DEF Race
  <2> QED BY <1>1, <1>3, <2>1, <2>2 DEF WaitInv, Waits, Fits, Alone, LastArms, CbAlone
<1>5. CASE r \notin {"arm", "softTrigger"} /\ (Assigned(v) \/ Changed)
  <2>1. ~isArmed /\ ~hw.irq /\ ~CbBusy
    BY <1>5, PutEffect DEF Quiet, CbBusy
  <2>2. UNCHANGED hw /\ ~isArmed' /\ ~CbBusy'
    BY <1>3, <1>5, <2>1 DEF Assigned, Changed
  <2>3. Waits' /\ Fits(reg.byte0)' /\ CbAlone'
    BY <1>1, <2>1, <2>2 DEF WaitInv, Waits, Fits, CbAlone, isArmed
  <2>4. CASE Assigned(v)
    <3>1. Idle'
      BY <2>4 DEF Assigned, Idle
    <3> QED BY <2>3, <3>1 DEF WaitInv, Alone, LastArms
  <2>5. CASE Changed
    <3>1. PICK clear \in SUBSET (Bits \ ArmBits), set \in SUBSET (Bits \ ArmBits) :
             call'.todo = Change(clear, set)
      BY <2>5 DEF Changed
    <3>2. ~Doing("start")' /\ Len(call'.todo) = 2 /\ Early(call'.todo) = {}
      <4>1. Step("store", clear, set).do = "store"
        BY StepFacts
      <4> QED BY <3>1, <4>1, ChangeList DEF Doing, Idle
    <3>3. Alone'
      BY <2>1, <2>2, <3>2 DEF Alone
    <3>4. LastArms'
      BY <3>2 DEF LastArms
    <3> QED BY <2>3, <3>3, <3>4 DEF WaitInv
  <2> QED BY <1>5, <2>4, <2>5
<1>6. CASE r = "arm" /\ Asked(v)
  <2>1. /\ drv'.arm = v /\ drv'.prePost = drv.prePost /\ call'.todo = ArmSteps(v) /\ UNCHANGED hw
        /\ ~isRebooting
    BY <1>2, <1>6 DEF Asked, Drivers
  <2>2. Race' = Race
    BY <1>3, <2>1 DEF Race
  <2>3. Waits' /\ Fits(reg.byte0)'
    BY <1>1, <1>3, <2>1 DEF WaitInv, Waits, Fits
  <2>4. CASE v = armDisable
    <3>1. Alone' /\ LastArms'
      BY <2>1, <2>4 DEF Alone, LastArms
    <3>2. CbAlone'
      BY <1>1, <1>3, <2>1, <2>2, <2>4 DEF WaitInv, CbAlone
    <3> QED BY <2>3, <3>1, <3>2 DEF WaitInv
  <2>5. CASE v # armDisable
    <3>1. ~isArmed /\ ~hw.irq /\ ~CbBusy
      BY <1>6, <2>5, PutEffect DEF Allowed, Quiet, CbBusy
    <3>2. "arm" \notin shadow.byte0
      BY <1>1, <2>1, <3>1 DEF ArmInv, Lists
    <3>3. CbAlone' /\ Alone'
      BY <1>1, <1>3, <2>1, <3>1, <3>2 DEF CbAlone, Alone
    <3>4. LastArms'
      <4>1. CASE v \notin Armings
        <5>1. call'.todo = <<>>
          BY <2>1, <2>5, <4>1, ArmStepsAre DEF Armings
        <5> QED BY <5>1 DEF LastArms, Idle
      <4>2. CASE v \in Armings
        <5>1. Doing("start")' /\ ~Doing("write")'
          BY <2>1, <4>2, ArmList DEF Doing, Idle
        <5>2. ASSUME ~Racing', NEW step \in Early(call'.todo) PROVE "arm" \notin step.set
          <6>1. CASE v = armPostTrigger
            <7>1. step = StartStep
              BY <2>1, <5>2, <6>1, ArmList
            <7> QED BY <7>1, StepFacts
          <6>2. CASE v = armPrePostTrigger
            <7>1. Model # "vtr1012"
              BY <1>3, <2>1, <5>1, <5>2, <6>2 DEF Racing, Mode
            <7>2. FirstPass = {"circ"}
              BY <7>1 DEF FirstPass, FirstPass10010
            <7>3. step \in {StartStep, Step("store", ArmBits, {}), WriteStep,
                            Step("store", {}, FirstPass)}
              BY <2>1, <5>2, <6>2, ArmList
            <7> QED BY <7>2, <7>3, StepFacts
          <6> QED BY <4>2, <6>1, <6>2 DEF Armings
        <5> QED BY <1>1, <3>2, <5>1, <5>2 DEF LastArms
      <4> QED BY <4>1, <4>2
    <3> QED BY <2>3, <3>3, <3>4 DEF WaitInv
  <2> QED BY <2>4, <2>5
<1> QED BY <1>4, <1>5, <1>6, PutEffect

\* What a request to disarm stores and writes.
LEMMA DisarmingSteps ==
    ASSUME TypeOK, Inv, drv.arm = armDisable, Store \/ Write, "arm" \notin shadow.byte0
    PROVE  /\ Store => "arm" \notin shadow'.byte0
           /\ Write => "arm" \notin reg'.byte0
<1>1. \/ call.todo = <<WriteStep>> /\ "arm" \notin call.byte
      \/ \E clear, set : call.todo = <<Step("store", clear, set), WriteStep>> /\ "arm" \notin set
  BY DEF Inv, Disarming, Store, Write, Doing, Idle
<1>2. shadow \in Bytes /\ reg \in Bytes
  BY DEF TypeOK
<1>3. CASE call.todo = <<WriteStep>> /\ "arm" \notin call.byte
  <2>1. ~Store
    BY <1>3, ChangeFacts DEF Store, Doing
  <2> QED BY <1>2, <1>3, <2>1 DEF Write, Bytes
<1>4. ASSUME NEW clear, NEW set, call.todo = <<Step("store", clear, set), WriteStep>>, "arm" \notin set
      PROVE  /\ Store => "arm" \notin shadow'.byte0
             /\ Write => "arm" \notin reg'.byte0
  <2>1. Head(call.todo).do = "store" /\ Head(call.todo).set = set
    <3>1. Head(call.todo) = Step("store", clear, set)
      BY <1>4, ChangeFacts
    <3> QED BY <3>1, ChangeFacts
  <2>2. ~Write
    BY <2>1 DEF Write, Doing
  <2>3. Store => shadow'.byte0 = (shadow.byte0 \ Head(call.todo).clear) \cup Head(call.todo).set
    BY <1>2 DEF Store, Bytes
  <2> QED BY <1>4, <2>1, <2>2, <2>3
<1> QED BY <1>1, <1>3, <1>4

LEMMA StepWaitInv ==
    ASSUME TypeOK, Inv, ArmInv, WaitInv, Start \/ Store \/ Write
    PROVE  WaitInv'
<1>1. /\ Early(call'.todo) \subseteq Early(call.todo) /\ ~Idle /\ ~Doing("start")'
      /\ Len(call.todo) \in Nat /\ Len(call'.todo) = Len(call.todo) - 1
      /\ Len(call.todo) >= 3 => Head(call.todo) \in Early(call.todo)
      /\ Write => ~Doing("write")' /\ (Idle' \/ Len(call.todo) >= 3)
      /\ Start => Doing("store")'
  BY StepEffect DEF ArmInv, Lists
<1>2. UNCHANGED <<setup, isRebooting, cb>> /\ UNCHANGED Model /\ CbBusy' = CbBusy
  BY DEF Start, Store, Write, Model, CbBusy
<1>3. /\ drv \in Drivers /\ hw \in Hardware /\ shadow \in Bytes /\ reg \in Bytes /\ call \in Calls
  BY DEF TypeOK
<1>4. CASE Start
  <2>1. /\ Doing("start") /\ UNCHANGED <<shadow, reg>>
        /\ drv'.prePost = (drv.arm = armPrePostTrigger) /\ drv'.arm = drv.arm
        /\ hw'.irq = hw.irq /\ hw'.phase = hw.phase
    BY <1>3, <1>4 DEF Start, Drivers, Hardware
  <2>2. drv.arm # armDisable
    BY <2>1 DEF ArmInv, Lists, Armings, armDisable, armPostTrigger, armPrePostTrigger
  <2>3. ~isArmed /\ ~hw.irq /\ ~CbBusy /\ "arm" \notin shadow.byte0
    BY <1>1, <2>1, <2>2 DEF WaitInv, Alone
  <2>4. ~isArmed' /\ ~hw'.irq /\ ~CbBusy' /\ "arm" \notin shadow'.byte0
    BY <1>2, <2>1, <2>3 DEF isArmed
  <2>5. Waits' /\ Fits(reg.byte0)' /\ Alone' /\ CbAlone'
    BY <2>1, <2>3, <2>4 DEF WaitInv, Waits, Fits, Alone, CbAlone, isArmed
  <2>6. LastArms'
    <3>1. Mode' = Mode /\ ~Doing("write")'
      BY <1>1, <1>4, <2>1 DEF Mode, Doing
    <3>2. Racing' = Racing
      BY <1>2, <3>1 DEF Racing
    <3> QED BY <1>1, <2>1, <2>4, <3>1, <3>2 DEF WaitInv, LastArms
  <2> QED BY <2>5, <2>6 DEF WaitInv
<1>5. ~Start => ~Doing("start")
  BY DEF Store, Write, Doing
<1>6. CASE Store
  <2> DEFINE step == Head(call.todo)
             byte == (shadow.byte0 \ step.clear) \cup step.set
  <2>1. /\ UNCHANGED <<drv, reg, hw>> /\ shadow'.byte0 = byte /\ call'.byte = byte
        /\ Doing("store")
    BY <1>3, <1>6 DEF Store, Bytes, Calls
  <2>2. ~Doing("start") /\ Race' = Race /\ Racing' = Race /\ Racing = Race /\ isArmed' = isArmed
    BY <1>1, <1>2, <2>1 DEF Doing, Race, Racing, Mode, isArmed
  <2> HIDE DEF step
  <2>3. Waits' /\ Fits(reg.byte0)' /\ Alone'
    BY <1>1, <1>2, <2>1, <2>2 DEF WaitInv, Waits, Fits, Alone
  <2>4. LastArms'
    <3>1. ASSUME drv.arm # armDisable, ~Race, Len(call'.todo) >= 3 PROVE "arm" \notin byte
      BY <1>1, <2>2, <3>1 DEF WaitInv, LastArms, step
    <3> QED BY <1>1, <2>1, <2>2, <3>1 DEF WaitInv, LastArms
  <2>5. CbAlone'
    BY <1>1, <1>2, <1>6, <2>1, <2>2, DisarmingSteps DEF WaitInv, CbAlone
  <2> QED BY <2>3, <2>4, <2>5 DEF WaitInv
<1>7. CASE Write
  <2>1. PICK byte \in {shadow.byte0, call.byte} :
           /\ Doing("write") /\ UNCHANGED <<drv, shadow>> /\ reg'.byte0 = byte
           /\ hw' = Written(hw, byte)
    BY <1>3, <1>7 DEF Write, Bytes
  <2>2. /\ hw'.irq = hw.irq /\ ("arm" \notin byte => hw'.phase = "wait")
    BY <1>3, <2>1 DEF Written, Hardware
  <2>3. ~Doing("start") /\ ~Cleared /\ Race' = Race /\ Racing' = Race /\ Racing = Race
    BY <1>1, <1>2, <2>1 DEF Doing, Cleared, Race, Racing, Mode
  <2>4. Fits(byte)
    BY <2>1, <2>3 DEF ArmInv, Modes
  <2>5. Waits' /\ Fits(reg.byte0)'
    BY <2>1, <2>2, <2>4 DEF Waits, Fits, isArmed
  <2>6. Alone'
    <3> SUFFICES ASSUME ~Idle', drv.arm # armDisable, ~Race PROVE ~isArmed' /\ ~hw'.irq /\ ~CbBusy'
      BY <1>1, <2>1, <2>3 DEF Alone
    <3>1. "arm" \notin byte
      BY <1>1, <1>7, <2>1, <2>3 DEF WaitInv, LastArms
    <3> QED BY <1>1, <1>2, <2>1, <2>2, <2>3, <3>1 DEF WaitInv, Alone, isArmed
  <2>7. LastArms'
    BY <1>1, <1>7, <2>1, <2>3 DEF WaitInv, LastArms
  <2>8. CbAlone'
    <3> SUFFICES ASSUME CbBusy, ~Race
                 PROVE  /\ ~isArmed' /\ "arm" \notin shadow'.byte0 /\ ~hw'.irq
                        /\ drv'.arm = armDisable
      BY <1>2, <2>3 DEF CbAlone
    <3>1. "arm" \notin shadow.byte0 /\ ~hw.irq /\ drv.arm = armDisable
      BY <1>1 DEF WaitInv, CbAlone
    <3>2. "arm" \notin reg'.byte0
      BY <1>7, <3>1, DisarmingSteps
    <3> QED BY <2>1, <2>2, <3>1, <3>2 DEF isArmed
  <2> QED BY <2>5, <2>6, <2>7, <2>8 DEF WaitInv
<1> QED BY <1>4, <1>6, <1>7

LEMMA EnvironmentWaitInv ==
    ASSUME TypeOK, WaitInv,
           \/ IgnoreInterrupt \/ CompleteInterrupt \/ ReadStart \/ ReadNext \/ Post
           \/ PreSample \/ HwTrigger \/ HwGateDone \/ vtrReboot \/ UNCHANGED vars
    PROVE  WaitInv'
<1>1. UNCHANGED <<call, setup>>
  BY DEF IgnoreInterrupt, CompleteInterrupt, ReadStart, ReadNext, Post, PreSample, HwTrigger,
         HwGateDone, vtrReboot, vars
<1>2. drv \in Drivers /\ hw \in Hardware /\ shadow \in Bytes /\ reg \in Bytes /\ cb \in Readers
  BY DEF TypeOK
<1>3. drv'.arm = drv.arm /\ drv'.prePost = drv.prePost
  BY <1>2 DEF Drivers, IgnoreInterrupt, CompleteInterrupt, ReadStart, ReadNext, Post, PreSample,
              HwTrigger, HwGateDone, vtrReboot, vars
<1>4. /\ Idle' = Idle /\ (\A x : Doing(x)' = Doing(x)) /\ Race' = Race /\ Racing' = Racing
  BY <1>1, <1>3 DEF Idle, Doing, Race, Racing, Mode, Model
<1>5. CASE \/ IgnoreInterrupt \/ ReadStart \/ ReadNext \/ Post
           \/ PreSample \/ HwTrigger \/ HwGateDone \/ UNCHANGED vars
  <2>1. UNCHANGED <<shadow, reg, isRebooting>> /\ isArmed' = isArmed
    BY <1>5 DEF IgnoreInterrupt, ReadStart, ReadNext, Post, PreSample, HwTrigger, HwGateDone, vars,
                isArmed
  <2>2. CbBusy' => CbBusy
    BY <1>2, <1>5 DEF IgnoreInterrupt, ReadStart, ReadNext, Post, PreSample, HwTrigger, HwGateDone,
                      vars, CbBusy, Readers
  <2>3. ~isArmed => hw'.phase = "wait" /\ (hw'.irq => hw.irq)
    <3>1. ~isArmed => hw.phase = "wait"
      BY DEF WaitInv, Waits
    <3> QED BY <1>2, <1>5, <3>1
            DEF IgnoreInterrupt, ReadStart, ReadNext, Post, PreSample, HwTrigger, CanTrigger,
                HwGateDone, vars, Hardware
  <2>4. Waits' /\ Fits(reg.byte0)'
    BY <1>3, <2>1, <2>3 DEF WaitInv, Waits, Fits
  <2>5. Alone' /\ LastArms'
    BY <1>1, <1>3, <1>4, <2>1, <2>2, <2>3 DEF WaitInv, Alone, LastArms
  <2>6. CbAlone'
    BY <1>1, <1>3, <1>4, <2>1, <2>2, <2>3 DEF WaitInv, CbAlone
  <2> QED BY <2>4, <2>5, <2>6 DEF WaitInv
<1>6. CASE CompleteInterrupt
  <2>1. /\ shadow'.byte0 = shadow.byte0 \ ArmBits /\ reg'.byte0 = shadow.byte0 \ ArmBits
        /\ hw'.phase = "wait" /\ ~hw'.irq /\ hw.irq /\ drv.arm # armDisable
    BY <1>2, <1>6 DEF CompleteInterrupt, Bytes, Written, Hardware,
                      Armings, armDisable, armPostTrigger, armPrePostTrigger
  <2>2. "arm" \notin shadow'.byte0 /\ "arm" \notin reg'.byte0
    BY <2>1 DEF ArmBits
  <2>3. Waits' /\ Fits(reg.byte0)'
    BY <2>1, <2>2 DEF Waits, Fits
  <2>4. ~Idle => Race /\ ~Doing("start")
    BY <2>1 DEF WaitInv, Alone
  <2>5. Alone' /\ LastArms'
    BY <1>1, <1>3, <1>4, <2>2, <2>4 DEF WaitInv, Alone, LastArms
  <2>6. CbAlone'
    BY <1>4, <2>1, <2>2, <2>4 DEF CbAlone, isArmed
  <2> QED BY <2>3, <2>5, <2>6 DEF WaitInv
<1>7. CASE vtrReboot
  <2>1. reg'.byte0 = {} /\ UNCHANGED <<shadow, cb>> /\ hw'.phase = "wait" /\ hw'.irq = hw.irq
    BY <1>2, <1>7 DEF vtrReboot, Bytes, Written, Hardware
  <2>2. Waits' /\ Fits(reg.byte0)'
    BY <2>1 DEF Waits, Fits
  <2>3. Alone' /\ LastArms' /\ CbAlone'
    BY <1>1, <1>3, <1>4, <2>1 DEF WaitInv, Alone, LastArms, CbAlone, CbBusy, isArmed
  <2> QED BY <2>2, <2>3 DEF WaitInv
<1> QED BY <1>5, <1>6, <1>7

LEMMA NextWaitInv ==
    /\ TypeOK /\ Inv /\ ArmInv /\ (OperatorWaits => WaitInv) /\ [Next]_vars
       => (OperatorWaits' => WaitInv')
<1> SUFFICES ASSUME TypeOK, Inv, ArmInv, OperatorWaits => WaitInv, [Next]_vars, OperatorWaits'
             PROVE  WaitInv'
  OBVIOUS
<1>1. OperatorWaits
  BY DEF OperatorWaits, Next, Put, Start, Store, Write, IgnoreInterrupt, CompleteInterrupt,
         ReadStart, ReadNext, Post, PreSample, HwTrigger, HwGateDone, vtrReboot, vars
<1> QED BY <1>1, PutWaitInv, StepWaitInv, EnvironmentWaitInv DEF Next

LEMMA ReadsOff == OperatorWaits /\ WaitInv => NoReadWhileArmed
BY DEF NoReadWhileArmed, WaitInv, CbAlone, CbBusy, Race

\* A recorder whose operator leaves a cycle under way alone is never armed
\* while it is read or posted, except for a VTR1012 in pre/post-trigger mode.
THEOREM ReadsDisarmed == Spec => []NoReadWhileArmed
<1>1. (OperatorWaits => WaitInv) => NoReadWhileArmed
  BY ReadsOff DEF NoReadWhileArmed
<1>2. Init => (OperatorWaits => WaitInv)
  BY InitWaitInv
<1> QED BY <1>1, <1>2, InitTyped, NextTyped, InitInv, NextKeeps, InitArmInv, NextArmInv, NextWaitInv,
           PTL DEF Spec

-----------------------------------------------------------------------------
(* Whole sets *)

LEMMA Product ==
    ASSUME NEW g \in Nat, NEW k \in Nat
    PROVE  /\ g * k \in Nat /\ g * (k + 1) = g * k + g /\ g * 0 = 0
           /\ \A m \in Nat : m <= k => g * m <= g * k
<1>1. g * k \in Nat /\ g * (k + 1) = g * k + g /\ g * 0 = 0
  OBVIOUS
<1>2. ASSUME NEW m \in Nat, m <= k PROVE g * m <= g * k
  <2>1. PICK d \in Nat : k = m + d
    <3>1. k - m \in Nat /\ k = m + (k - m)
      BY <1>2
    <3> QED BY <3>1
  <2>2. g * k = g * m + g * d /\ g * d \in Nat /\ g * m \in Nat
    BY <2>1
  <2> QED BY <2>2
<1> QED BY <1>1, <1>2

LEMMA MinKept ==
    ASSUME NEW a \in Nat, NEW b \in Nat, NEW p \in Nat, NEW q \in Nat, NEW size \in Nat,
           a >= MinOf(p, size), b >= a, q <= p
    PROVE  b >= MinOf(q, size)
BY DEF MinOf

\* Since a post-trigger set was armed, at least as many gates have been
\* recorded as interrupts were taken or are pending, unless the memory is full.
Taken == drv.indPTE + (IF hw.irq THEN 1 ELSE 0)
Counted ==
    drv.arm = armPostTrigger /\ ~Doing("start") => hw.total >= MinOf(Gate * Taken, ArraySize)

\* The callback is asked for after as many as numberPTE.
Enough == drv.arm = armPostTrigger /\ CbBusy => drv.indPTE >= MaxOf(drv.pte, 1)

PostInv == Counted /\ Enough

LEMMA PostGives == ASSUME TypeOK, OperatorWaits, WaitInv, PostInv PROVE WholeSetPosted
<1> SUFFICES ASSUME cb.at = "post", drv.arm = armPostTrigger
             PROVE  hw.total >= MinOf(Gate * MaxOf(drv.pte, 1), ArraySize)
  BY DEF WholeSetPosted
<1>1. /\ drv.indPTE \in Nat /\ drv.pte \in Int /\ hw.gate \in Int /\ hw.total \in Nat
      /\ hw.irq \in BOOLEAN /\ ArraySize \in Nat
  <2>1. setup \in Setups
    BY DEF TypeOK
  <2>2. ArraySize \in Nat
    BY <2>1, SetupFacts
  <2> QED BY <2>2 DEF TypeOK, Drivers, Hardware
<1>2. CbBusy /\ ~Doing("start")
  BY DEF CbBusy, WaitInv, Alone, Doing, armDisable, armPostTrigger
<1> DEFINE m == MaxOf(drv.pte, 1)
<1>3. m \in Nat /\ m <= Taken /\ Taken \in Nat /\ Gate \in Nat
  BY <1>1, <1>2 DEF PostInv, Enough, Taken, Gate, MaxOf
<1> HIDE DEF m
<1>4. hw.total >= MinOf(Gate * Taken, ArraySize)
  BY <1>2 DEF PostInv, Counted
<1>5. Gate * m <= Gate * Taken /\ Gate * Taken \in Nat /\ Gate * m \in Nat
  BY <1>3, Product
<1> DEFINE p == Gate * Taken  q == Gate * m
<1> HIDE DEF p, q
<1>6. hw.total >= MinOf(p, ArraySize) /\ q <= p /\ p \in Nat /\ q \in Nat
  BY <1>4, <1>5 DEF p, q
<1>7. hw.total >= MinOf(q, ArraySize)
  BY <1>1, <1>6 DEF MinOf
<1> QED BY <1>7 DEF q, m

LEMMA InitPostInv == Init => PostInv
BY DEF Init, PostInv, Counted, Enough, armDisable, armPostTrigger

LEMMA PutPostInv ==
    ASSUME TypeOK, OperatorWaits, PostInv, NEW r \in Records, NEW v \in Values[r], Put(r, v)
    PROVE  PostInv'
<1>1. Idle /\ UNCHANGED <<setup, cb>> /\ CbBusy' = CbBusy /\ ArraySize' = ArraySize
  BY PutEffect DEF Same, CbBusy, ArraySize
<1>2. drv \in Drivers /\ hw \in Hardware
  BY DEF TypeOK
<1>3. Counted /\ Enough /\ ~Doing("start")
  BY <1>1 DEF PostInv, Doing
<1>4. hw'.total = hw.total /\ hw'.irq = hw.irq /\ hw'.gate = hw.gate
  BY <1>2, PutEffect DEF Refused, Assigned, Changed, Asked, Hardware
<1>5. drv'.indPTE = drv.indPTE
  BY <1>2, PutEffect DEF Refused, Assigned, Changed, Asked, Drivers
<1>6. Gate' = Gate /\ Taken' = Taken
  BY <1>4, <1>5 DEF Gate, Taken
<1>7. CASE Refused \/ Changed
  <2>1. drv'.arm = drv.arm /\ drv'.pte = drv.pte
    BY <1>2, <1>7 DEF Refused, Changed, Drivers
  <2> QED BY <1>1, <1>3, <1>4, <1>5, <1>6, <2>1 DEF PostInv, Counted, Enough
<1>8. CASE r \notin {"arm", "softTrigger"} /\ Assigned(v)
  <2>1. drv'.arm = drv.arm
    BY <1>2, <1>8 DEF Assigned, Drivers
  <2>2. ~CbBusy'
    BY <1>1, <1>8, PutEffect DEF Quiet, CbBusy
  <2> QED BY <1>1, <1>3, <1>4, <1>6, <2>1, <2>2 DEF PostInv, Counted, Enough
<1>9. CASE r = "arm" /\ Asked(v)
  <2>1. drv'.arm = v /\ call'.todo = ArmSteps(v)
    BY <1>2, <1>9 DEF Asked, Drivers
  <2> SUFFICES ASSUME v = armPostTrigger PROVE PostInv'
    BY <2>1 DEF PostInv, Counted, Enough
  <2>2. Doing("start")'
    BY <2>1, ArmList DEF Doing, Idle, Armings
  <2>3. Allowed(r, v) /\ r # "softTrigger" /\ v # armDisable
    BY <1>9, PutEffect DEF armPostTrigger, armDisable
  <2>4. ~CbBusy'
    BY <1>1, <2>3 DEF Allowed, Quiet, CbBusy
  <2> QED BY <2>2, <2>4 DEF PostInv, Counted, Enough
<1> QED BY <1>7, <1>8, <1>9, PutEffect

LEMMA StepPostInv ==
    ASSUME TypeOK, ArmInv, WaitInv, PostInv, Start \/ Store \/ Write
    PROVE  PostInv'
<1>1. ~Idle /\ ~Doing("start")' /\ UNCHANGED <<setup, cb>>
  BY StepEffect DEF ArmInv, Lists, Start, Store, Write
<1>2. CbBusy' = CbBusy /\ ArraySize' = ArraySize
  BY <1>1 DEF CbBusy, ArraySize
<1>3. drv \in Drivers /\ hw \in Hardware
  BY DEF TypeOK
<1>4. CASE Start
  <2>1. /\ Doing("start") /\ drv'.arm = drv.arm /\ hw'.total = 0 /\ hw'.irq = hw.irq
        /\ drv.arm = armPostTrigger => drv'.indPTE = 0
        /\ hw'.gate \in Int
    BY <1>3, <1>4 DEF Start, Drivers, Hardware
  <2> SUFFICES ASSUME drv.arm = armPostTrigger PROVE PostInv'
    BY <2>1 DEF PostInv, Counted, Enough
  <2>2. ~hw.irq /\ ~CbBusy
    BY <1>1, <2>1 DEF WaitInv, Alone, armPostTrigger, armDisable
  <2>3. Taken' = 0 /\ Gate' \in Nat
    BY <2>1, <2>2 DEF Taken, Gate, MaxOf
  <2>4. Gate' * Taken' = 0
    BY <2>3, Product
  <2>5. ArraySize \in Nat
    BY SetupFacts DEF TypeOK
  <2>6. Counted'
    BY <1>2, <2>1, <2>4, <2>5 DEF Counted, MinOf
  <2> QED BY <1>2, <2>2, <2>6 DEF PostInv, Enough
<1>5. CASE Store \/ Write
  <2>1. UNCHANGED drv /\ hw'.total = hw.total /\ hw'.irq = hw.irq /\ hw'.gate = hw.gate
    BY <1>3, <1>5 DEF Store, Write, Written, Hardware
  <2>2. ~Doing("start")
    BY <1>5 DEF Store, Write, Doing
  <2>3. Gate' = Gate /\ Taken' = Taken
    BY <2>1 DEF Gate, Taken
  <2> QED BY <1>2, <2>1, <2>2, <2>3 DEF PostInv, Counted, Enough
<1> QED BY <1>4, <1>5

LEMMA EnvironmentPostInv ==
    ASSUME TypeOK, PostInv,
           \/ IgnoreInterrupt \/ CompleteInterrupt \/ ReadStart \/ ReadNext \/ Post
           \/ PreSample \/ HwTrigger \/ HwGateDone \/ vtrReboot \/ UNCHANGED vars
    PROVE  PostInv'
<1>1. UNCHANGED <<call, setup>>
  BY DEF IgnoreInterrupt, CompleteInterrupt, ReadStart, ReadNext, Post, PreSample, HwTrigger,
         HwGateDone, vtrReboot, vars
<1>2. drv \in Drivers /\ hw \in Hardware /\ cb \in Readers
  BY DEF TypeOK
<1>3. /\ drv'.arm = drv.arm /\ drv'.pte = drv.pte /\ hw'.gate = hw.gate
  <2>1. drv'.arm = drv.arm /\ drv'.pte = drv.pte
    BY <1>2 DEF Drivers, IgnoreInterrupt, CompleteInterrupt, ReadStart, ReadNext, Post, PreSample,
                HwTrigger, HwGateDone, vtrReboot, vars
  <2>2. hw'.gate = hw.gate
    BY <1>2 DEF Hardware, IgnoreInterrupt, CompleteInterrupt, ReadStart, ReadNext, Post, PreSample,
                HwTrigger, HwGateDone, vtrReboot, Written, vars
  <2> QED BY <2>1, <2>2
<1>4. /\ drv.indPTE \in Nat /\ drv.pte \in Int /\ hw.total \in Nat /\ hw.irq \in BOOLEAN
      /\ hw.gate \in Int /\ ArraySize \in Nat /\ Gate \in Nat /\ Taken \in Nat
  <2>1. ArraySize \in Nat
    BY SetupFacts DEF TypeOK
  <2> QED BY <1>2, <2>1 DEF Drivers, Hardware, Gate, MaxOf, Taken
<1>5. Doing("start")' = Doing("start") /\ ArraySize' = ArraySize /\ Gate' = Gate
  BY <1>1, <1>3 DEF Doing, Idle, ArraySize, Gate
<1>6. hw'.irq \in BOOLEAN /\ drv'.indPTE \in Nat /\ hw'.total \in Nat
  BY <1>4, EnvironmentTyped DEF TypeOK, Drivers, Hardware
<1> SUFFICES ASSUME drv.arm = armPostTrigger PROVE PostInv'
  BY <1>3 DEF PostInv, Counted, Enough
<1> DEFINE g == Gate  size == ArraySize
<1>7. Enough'
  <2>1. CASE CompleteInterrupt
    <3>1. drv'.indPTE = drv.indPTE + 1 /\ ~(drv.indPTE + 1 < drv.pte)
      BY <1>2, <2>1 DEF CompleteInterrupt, Drivers, SetIncomplete
    <3>2. drv'.indPTE >= MaxOf(drv.pte, 1)
      BY <1>4, <3>1 DEF MaxOf
    <3> QED BY <1>3, <3>2 DEF Enough
  <2>2. CASE ~CompleteInterrupt
    <3>1. CbBusy' => CbBusy
      BY <1>2, <2>2 DEF IgnoreInterrupt, ReadStart, ReadNext, Post, PreSample, HwTrigger,
                        HwGateDone, vtrReboot, vars, CbBusy, Readers
    <3>2. drv'.indPTE >= drv.indPTE
      BY <1>2, <1>4, <2>2
         DEF IgnoreInterrupt, ReadStart, ReadNext, Post, PreSample, HwTrigger,
             HwGateDone, vtrReboot, vars, Drivers
    <3>3. CbBusy => drv.indPTE >= MaxOf(drv.pte, 1)
      BY DEF PostInv, Enough
    <3>4. MaxOf(drv.pte, 1) \in Int
      BY <1>4 DEF MaxOf
    <3>5. CbBusy' => drv'.indPTE >= MaxOf(drv.pte, 1)
      <4> SUFFICES ASSUME CbBusy' PROVE drv'.indPTE >= MaxOf(drv.pte, 1)
        OBVIOUS
      <4>1. drv.indPTE >= MaxOf(drv.pte, 1)
        BY <3>1, <3>3
      <4> QED BY <1>4, <1>6, <3>2, <3>4, <4>1
    <3> QED BY <1>3, <3>5 DEF Enough
  <2> QED BY <2>1, <2>2
<1>8. Counted'
  <2> SUFFICES ASSUME ~Doing("start") PROVE hw'.total >= MinOf(g * Taken', size)
    BY <1>5 DEF Counted
  <2>1. hw.total >= MinOf(g * Taken, size)
    BY DEF PostInv, Counted
  <2> DEFINE p == g * Taken
  <2>2. p \in Nat /\ hw.total >= MinOf(p, size)
    BY <1>4, <2>1, Product
  <2>3. CASE HwGateDone
    <3>1. \/ hw'.total = hw.total + g
          \/ hw'.total = MinOf(hw.total + g, size)
      BY <1>2, <2>3 DEF HwGateDone, Hardware
    <3>2. Taken' <= Taken + 1 /\ Taken' \in Nat /\ Taken + 1 \in Nat
      BY <1>2, <1>4, <2>3 DEF HwGateDone, Hardware, Taken
    <3> DEFINE q == g * Taken'
    <3>3. q <= g * (Taken + 1) /\ g * (Taken + 1) = p + g /\ q \in Nat
      BY <1>4, <3>2, Product
    <3> HIDE DEF p, q, g, size
    <3>4. q <= p + g /\ g \in Nat /\ size \in Nat
      BY <1>4, <3>3 DEF g, size
    <3>5. hw'.total >= MinOf(q, size)
      BY <1>4, <2>2, <3>1, <3>3, <3>4 DEF MinOf
    <3> QED BY <3>5 DEF q
  <2>4. CASE ~HwGateDone
    <3>1. hw'.total \in {hw.total, hw.total + 1}
      BY <1>2, <2>4 DEF IgnoreInterrupt, CompleteInterrupt, ReadStart, ReadNext, Post,
             PreSample, HwTrigger, vtrReboot, Written, vars, Hardware
    <3>2. hw'.total >= hw.total
      BY <1>4, <3>1
    <3>3. Taken' <= Taken /\ Taken' \in Nat
      <4>1. CASE IgnoreInterrupt \/ CompleteInterrupt
        <5>1. hw.irq /\ ~hw'.irq
          BY <1>2, <4>1 DEF IgnoreInterrupt, CompleteInterrupt, Written, Hardware
        <5>2. drv'.indPTE \in {drv.indPTE, drv.indPTE + 1}
          BY <1>2, <4>1 DEF IgnoreInterrupt, CompleteInterrupt, Drivers
        <5> QED BY <1>4, <5>1, <5>2 DEF Taken
      <4>2. CASE ~(IgnoreInterrupt \/ CompleteInterrupt)
        <5>1. hw'.irq = hw.irq /\ UNCHANGED drv
          BY <1>2, <2>4, <4>2 DEF ReadStart, ReadNext, Post, PreSample, HwTrigger, vtrReboot,
                                  Written, vars, Hardware
        <5> QED BY <1>4, <5>1 DEF Taken
      <4> QED BY <4>1, <4>2
    <3> DEFINE q == g * Taken'
    <3>4. q <= p /\ q \in Nat
      BY <1>4, <3>3, Product
    <3> HIDE DEF p, q, size
    <3>5. size \in Nat
      BY <1>4 DEF size
    <3>6. hw'.total >= MinOf(q, size)
      BY <1>4, <1>6, <2>2, <3>2, <3>4, <3>5, MinKept
    <3> QED BY <3>6 DEF q
  <2> QED BY <2>3, <2>4
<1> QED BY <1>7, <1>8 DEF PostInv

LEMMA NextPostInv ==
    /\ TypeOK /\ ArmInv /\ (OperatorWaits => WaitInv /\ PostInv) /\ [Next]_vars
       => (OperatorWaits' => PostInv')
<1> SUFFICES ASSUME TypeOK, ArmInv, OperatorWaits => WaitInv /\ PostInv, [Next]_vars, OperatorWaits'
             PROVE  PostInv'
  OBVIOUS
<1>1. OperatorWaits
  BY DEF OperatorWaits, Next, Put, Start, Store, Write, IgnoreInterrupt, CompleteInterrupt,
         ReadStart, ReadNext, Post, PreSample, HwTrigger, HwGateDone, vtrReboot, vars
<1> QED BY <1>1, PutPostInv, StepPostInv, EnvironmentPostInv DEF Next

\* A scan of a post-trigger set comes after as many triggers as numberPTE asks
\* for have been recorded, or the memory is full, whatever the settings.
THEOREM WholeSetIsPosted == Spec => []WholeSetPosted
<1> DEFINE I == TypeOK /\ Inv /\ ArmInv /\ (OperatorWaits => WaitInv /\ PostInv)
<1>1. Init => I
  BY InitTyped, InitInv, InitArmInv, InitWaitInv, InitPostInv
<1>2. I /\ [Next]_vars => I'
  BY NextTyped, NextKeeps, NextArmInv, NextWaitInv, NextPostInv
<1>3. I => WholeSetPosted
  BY PostGives DEF WholeSetPosted
<1> HIDE DEF I
<1> QED BY <1>1, <1>2, <1>3, PTL DEF Spec

-----------------------------------------------------------------------------
(* Samples in order *)

\* What has been read stays until the card records again.
ReadIsOver == ~Race /\ ~isRebooting =>
    \A s \in Channels : chan[s].fresh => CannotArm /\ ~hw.irq

\* The callback is asked for once, when nothing has been read yet.
NothingRead == ~Race /\ cb.pending => cb.at = "idle" /\ \A s \in Channels : ~chan[s].fresh

\* Until it has posted, nothing is recorded, and what it has read is in order.
ReadInOrder ==
    ~Race /\ cb.at # "idle" =>
        /\ cb.at = "read" => cb.location = readLocation
        /\ \A s \in Channels : chan[s].fresh => InOrder(s)

\* Only a circular memory records over its beginning.
RoomLeft == ~drv.prePost => hw.total <= ArraySize

ScanInv == ReadIsOver /\ NothingRead /\ ReadInOrder /\ RoomLeft

LEMMA ScanGives == ASSUME ScanInv PROVE SamplesInOrder
BY DEF ScanInv, ReadInOrder, SamplesInOrder, Race

LEMMA InitScanInv == Init => ScanInv
<1> SUFFICES ASSUME Init PROVE ScanInv
  OBVIOUS
<1>1. /\ \A s \in Channels : ~chan[s].fresh
      /\ ~cb.pending /\ cb.at = "idle" /\ hw.total = 0 /\ setup \in Setups
  BY DEF Init, NoData
<1>2. ArraySize \in Nat
  BY <1>1, SetupFacts
<1> QED BY <1>1, <1>2 DEF ScanInv, ReadIsOver, NothingRead, ReadInOrder, RoomLeft

LEMMA JoinedLists ==
    ASSUME NEW a \in Seq(Int), NEW b \in Seq(Int)
    PROVE  /\ a \o b \in Seq(Int) /\ Len(a \o b) = Len(a) + Len(b)
           /\ \A i \in 1 .. Len(a) + Len(b) :
                 (a \o b)[i] = IF i <= Len(a) THEN a[i] ELSE b[i - Len(a)]
BY ConcatProperties

\* A list holds, sample by sample, the two parts of the memory that lim names:
\* first the high part.
Copied(data, lim, total, size) ==
    LET copied == CellsOf(lim.high) + CellsOf(lim.low)
    IN /\ data \in Seq(Int) /\ Len(data) = copied
       /\ \A i \in 1 .. copied : data[i] = SampleIn(LimitCell(lim, i), total, size)

LEMMA CopiedSamples ==
    ASSUME NEW lim, lim.high[1] \in Int, CellsOf(lim.high) \in Nat, lim.low[1] \in Int,
           CellsOf(lim.low) \in Nat, hw.total \in Nat, ArraySize \in Nat \ {0}
    PROVE  Copied(Cells(lim.high) \o Cells(lim.low), lim, hw.total, ArraySize)
<1> DEFINE a == Cells(lim.high)  b == Cells(lim.low)
           m == CellsOf(lim.high)  n == CellsOf(lim.low)
<1>1. a \in Seq(Int) /\ b \in Seq(Int) /\ Len(a) = m /\ Len(b) = n
  BY CellsTyped
<1>2. /\ \A i \in 1 .. m : a[i] = SampleIn(lim.high[1] + i - 1, hw.total, ArraySize)
      /\ \A i \in 1 .. n : b[i] = SampleIn(lim.low[1] + i - 1, hw.total, ArraySize)
  BY DEF Cells
<1> HIDE DEF a, b, m, n
<1>3. /\ a \o b \in Seq(Int) /\ Len(a \o b) = m + n
      /\ \A i \in 1 .. m + n : (a \o b)[i] = IF i <= m THEN a[i] ELSE b[i - m]
  BY <1>1, JoinedLists
<1>4. m \in Nat /\ n \in Nat
  BY DEF m, n
<1>5. ASSUME NEW i \in 1 .. m + n
      PROVE  (a \o b)[i] = SampleIn(LimitCell(lim, i), hw.total, ArraySize)
  <2>1. CASE i <= m
    <3>1. i \in 1 .. m
      BY <1>4, <2>1
    <3>2. LimitCell(lim, i) = lim.high[1] + i - 1
      BY <2>1 DEF LimitCell, m
    <3> QED BY <1>2, <1>3, <2>1, <3>1, <3>2
  <2>2. CASE ~(i <= m)
    <3>1. i - m \in 1 .. n
      BY <1>4, <2>2
    <3>2. LimitCell(lim, i) = lim.low[1] + (i - m) - 1
      BY <1>4, <2>2 DEF LimitCell, m
    <3> QED BY <1>2, <1>3, <2>2, <3>1, <3>2
  <2> QED BY <2>1, <2>2
<1> QED BY <1>3, <1>5 DEF Copied, a, b, m, n

\* The first n members of a list that are the newest n of a ring.
LEMMA FirstAreNewest ==
    ASSUME NEW data \in Seq(Int), NEW n \in Nat, n <= Len(data), NEW total \in Int,
           \A i \in 1 .. n : data[i] = Newest(n, total)[i]
    PROVE  SubSeq(data, 1, n) = Newest(n, total)
<1>1. SubSeq(data, 1, n) = [i \in 1 .. n |-> data[i]]
  OBVIOUS
<1>2. Newest(n, total) = [i \in 1 .. n |-> MaxOf(total - n + i - 1, Stale)]
  BY DEF Newest
<1> QED BY <1>1, <1>2

PostLimits(len, total, size) == getArrayLimits(FALSE, len, total, size)
PreLimits(len, total, size)  == getArrayLimits(TRUE, len, total % size, size)

LEMMA PostScan ==
    ASSUME NEW size \in Nat \ {0}, NEW total \in 0 .. size, NEW len \in Nat, NEW data,
           NEW lim, PostLimits(len, total, size) = lim, lim.n \in Nat,
           Copied(data, lim, total, size)
    PROVE  SubSeq(data, 1, lim.n) = Newest(lim.n, total)
<1> DEFINE n == lim.n
<1>1. /\ CellsOf(lim.high) = 0 /\ CellsOf(lim.low) = n
      /\ \A i \in 1 .. n : SampleIn(LimitCell(lim, i), total, size) = Newest(n, total)[i]
  BY PostLimitsAreNewest DEF PostLimits
<1>2. n \in Nat /\ 0 + n = n
  OBVIOUS
<1> HIDE DEF n
<1>3. /\ data \in Seq(Int) /\ Len(data) = n
      /\ \A i \in 1 .. n : data[i] = SampleIn(LimitCell(lim, i), total, size)
  BY <1>1, <1>2 DEF Copied
<1>4. n <= Len(data) /\ total \in Int
  BY <1>2, <1>3
<1>5. \A i \in 1 .. n : data[i] = Newest(n, total)[i]
  BY <1>1, <1>3
<1>6. SubSeq(data, 1, n) = Newest(n, total)
  BY <1>2, <1>3, <1>4, <1>5, FirstAreNewest
<1> QED BY <1>6 DEF n

LEMMA PreScan ==
    ASSUME NEW size \in Nat \ {0}, NEW total \in Nat, NEW len \in Nat, NEW data,
           NEW lim, PreLimits(len, total, size) = lim, lim.n \in Nat,
           Copied(data, lim, total, size)
    PROVE  \/ lim.n = size
           \/ SubSeq(data, 1, lim.n) = Newest(lim.n, total)
           \/ SubSeq(data, 1, lim.n) = Newest(lim.n, total - 1)
<1> DEFINE n == lim.n
           copied == CellsOf(lim.high) + CellsOf(lim.low)
<1> SUFFICES ASSUME n # size
             PROVE  \/ SubSeq(data, 1, n) = Newest(n, total)
                    \/ SubSeq(data, 1, n) = Newest(n, total - 1)
  OBVIOUS
<1>1. PICK loc \in 0 .. size - 1 : loc = total % size
  BY DivMod
<1>2. len < size /\ n = len /\ (copied = n \/ copied = n + 1)
  <2>1. lim = getArrayLimits(TRUE, len, loc, size)
    BY <1>1 DEF PreLimits
  <2> QED BY <2>1 DEF getArrayLimits, MinOf, CellsOf
<1>3. \A i \in 1 .. copied : SampleIn(LimitCell(lim, i), total, size) = Newest(copied, total)[i]
  BY <1>2, LimitsAreNewest DEF PreLimits
<1>4. n \in Nat
  OBVIOUS
<1>5. /\ data \in Seq(Int) /\ Len(data) = copied
      /\ \A i \in 1 .. copied : data[i] = SampleIn(LimitCell(lim, i), total, size)
  BY DEF Copied
<1> HIDE DEF n, copied
<1>6. \A i \in 1 .. copied : data[i] = Newest(copied, total)[i]
  BY <1>3, <1>5
<1>7. CASE copied = n
  <2>1. n <= Len(data) /\ total \in Int
    BY <1>4, <1>7, <1>5
  <2>2. \A i \in 1 .. n : data[i] = Newest(n, total)[i]
    BY <1>6, <1>7
  <2> QED BY <1>4, <1>5, <2>1, <2>2, FirstAreNewest
<1>8. CASE copied = n + 1
  <2>1. ASSUME NEW i \in 1 .. n PROVE data[i] = Newest(n, total - 1)[i]
    <3>1. i \in 1 .. n + 1
      BY <1>4
    <3>2. /\ Newest(n + 1, total)[i] = MaxOf(total - (n + 1) + i - 1, Stale)
          /\ Newest(n, total - 1)[i] = MaxOf((total - 1) - n + i - 1, Stale)
      BY <3>1 DEF Newest
    <3>3. total - (n + 1) + i - 1 = (total - 1) - n + i - 1
      BY <1>4
    <3> QED BY <1>6, <1>8, <3>1, <3>2, <3>3
  <2>2. n <= Len(data) /\ total - 1 \in Int
    BY <1>4, <1>8, <1>5
  <2> QED BY <1>4, <1>5, <2>1, <2>2, FirstAreNewest
<1> QED BY <1>2, <1>7, <1>8

LEMMA ReadIsInOrder ==
    ASSUME TypeOK, NEW s \in Channels, Wanted(s) > 0, cb.location = readLocation, RoomLeft
    PROVE  LET scan  == ReadChannel(s)
               shown == SubSeq(scan.data, 1, scan.ndata)
           IN \/ shown = Newest(scan.ndata, hw.total)
              \/ drv.prePost /\ (scan.ndata = ArraySize \/ shown = Newest(scan.ndata, hw.total - 1))
<1> DEFINE len   == Wanted(s)
           lim   == getArrayLimits(drv.prePost, len, cb.location, ArraySize)
           data  == Cells(lim.high) \o Cells(lim.low)
           n     == lim.n
           total == hw.total
           size  == ArraySize
<1>1. /\ drv.prePost \in BOOLEAN /\ drv.pps \in Int /\ ChanLen[s] \in Nat
      /\ cb.location \in Nat /\ total \in Nat /\ size \in Nat \ {0}
  <2>1. ArraySize \in Nat \ {0} /\ ChanLen \in [Channels -> Nat]
    BY SetupFacts DEF TypeOK
  <2> QED BY <2>1 DEF TypeOK, Drivers, Readers, Hardware
<1>2. len \in Nat /\ ~(len <= 0)
  BY <1>1 DEF Wanted, MinOf
<1>3. ReadChannel(s) = [ndata |-> n, data |-> data, fresh |-> TRUE]
  BY <1>2 DEF ReadChannel
<1> HIDE DEF len
<1>4. /\ n \in Nat /\ lim.high[1] \in Int /\ CellsOf(lim.high) \in Nat
      /\ lim.low[1] \in Int /\ CellsOf(lim.low) \in Nat
  BY <1>1, <1>2, PartsTyped
<1>5. Copied(data, lim, total, size)
  BY <1>1, <1>4, CopiedSamples
<1>6. CASE ~drv.prePost
  <2>1. cb.location = total /\ total \in 0 .. size /\ drv.prePost = FALSE
    BY <1>1, <1>6 DEF readLocation, RoomLeft
  <2>2. /\ PostLimits(len, total, size) = lim /\ lim.n \in Nat /\ len \in Nat
        /\ size \in Nat \ {0} /\ total \in 0 .. size
    BY <1>1, <1>2, <1>4, <2>1 DEF PostLimits
  <2> HIDE DEF lim, data, size, total
  <2>3. SubSeq(data, 1, lim.n) = Newest(lim.n, total)
    BY <1>5, <2>2, PostScan
  <2> QED BY <1>3, <2>3 DEF total
<1>7. CASE drv.prePost
  <2>1. cb.location = total % size /\ drv.prePost = TRUE
    BY <1>1, <1>7 DEF readLocation
  <2>2. /\ PreLimits(len, total, size) = lim /\ lim.n \in Nat /\ len \in Nat
        /\ size \in Nat \ {0} /\ total \in Nat
    BY <1>1, <1>2, <1>4, <2>1 DEF PreLimits
  <2> HIDE DEF lim, data, size, total
  <2>3. \/ lim.n = size
        \/ SubSeq(data, 1, lim.n) = Newest(lim.n, total)
        \/ SubSeq(data, 1, lim.n) = Newest(lim.n, total - 1)
    BY <1>5, <2>2, PreScan
  <2> QED BY <1>3, <1>7, <2>3 DEF total, size
<1> QED BY <1>1, <1>6, <1>7

\* What cannot arm the card begins to only when a card is asked to be armed.
LEMMA PutCannotArm ==
    ASSUME TypeOK, CannotArm, NEW r \in Records, NEW v \in Values[r], Put(r, v)
    PROVE  CannotArm'
<1>1. /\ Idle /\ ~isArmed' /\ "arm" \notin shadow'.byte0
  BY PutEffect DEF Same, CannotArm, isArmed
<1>2. CASE call'.todo = <<>>
  <2>1. \A x : ~Doing(x)'
    BY <1>2 DEF Doing, Idle
  <2> QED BY <1>1, <1>2, <2>1, EmptyList DEF CannotArm, isArmed
<1>3. ASSUME NEW clear, NEW set, "arm" \notin set, call'.todo = Change(clear, set)
      PROVE  CannotArm'
  <2> DEFINE a == Step("store", clear, set)
  <2>1. a.do = "store" /\ a.set = set
    BY StepFacts
  <2> HIDE DEF a
  <2>2. ~Doing("write")' /\ Left(call'.todo) = {a, WriteStep}
    BY <1>3, <2>1, ChangeList DEF Doing, Idle, a
  <2> QED BY <1>1, <1>3, <2>1, <2>2, StepFacts DEF CannotArm, isArmed
<1>4. CASE Changed
  <2>1. PICK clear \in SUBSET (Bits \ ArmBits), set \in SUBSET (Bits \ ArmBits) :
           call'.todo = Change(clear, set)
    BY <1>4 DEF Changed
  <2>2. "arm" \notin set
    BY DEF ArmBits
  <2> QED BY <1>3, <2>1, <2>2
<1>5. CASE Asked(v)
  <2>1. call'.todo = ArmSteps(v)
    BY <1>5 DEF Asked
  <2>2. CASE v \in Armings
    <3>1. Doing("start")' /\ ~Doing("write")'
      BY <2>1, <2>2, ArmList DEF Doing, Idle
    <3> QED BY <1>1, <3>1 DEF CannotArm, isArmed
  <2>3. CASE v = armDisable
    <3>1. call'.todo = Change(ArmBits, {})
      BY <2>1, <2>3, ArmStepsAre DEF Change, WriteStep
    <3> QED BY <1>3, <3>1
  <2>4. CASE v \notin Armings /\ v # armDisable
    <3>1. call'.todo = <<>>
      BY <2>1, <2>4, ArmStepsAre DEF Armings
    <3> QED BY <1>2, <3>1
  <2> QED BY <2>2, <2>3, <2>4
<1>6. Refused \/ Assigned(v) => call'.todo = <<>>
  BY DEF Refused, Assigned
<1> QED BY <1>2, <1>4, <1>5, <1>6, PutEffect

LEMMA StepCannotArm ==
    ASSUME TypeOK, Ordered(call.todo), CannotArm, Store \/ Write
    PROVE  CannotArm'
<1>1. /\ Left(call'.todo) \subseteq Left(call.todo) /\ Head(call.todo) \in Left(call.todo)
      /\ Write => ~Doing("write")'
  BY StepEffect
<1>2. shadow \in Bytes /\ reg \in Bytes /\ call \in Calls
  BY DEF TypeOK
<1>3. /\ ~Doing("start") /\ ~isArmed /\ "arm" \notin shadow.byte0
      /\ Doing("write") => "arm" \notin call.byte
      /\ \A step \in Left(call.todo) : "arm" \notin step.set
  BY DEF CannotArm, Store, Write, Doing
<1>4. CASE Store
  <2>1. /\ UNCHANGED reg /\ call'.byte = shadow'.byte0
        /\ shadow'.byte0 = (shadow.byte0 \ Head(call.todo).clear) \cup Head(call.todo).set
    BY <1>2, <1>4 DEF Store, Bytes, Calls
  <2>2. "arm" \notin shadow'.byte0
    BY <1>1, <1>3, <2>1
  <2> QED BY <1>1, <1>3, <2>1, <2>2 DEF CannotArm, isArmed
<1>5. CASE Write
  <2>1. UNCHANGED shadow /\ Doing("write") /\ reg'.byte0 \in {shadow.byte0, call.byte}
    BY <1>2, <1>5 DEF Write, Bytes
  <2> QED BY <1>1, <1>3, <1>5, <2>1 DEF CannotArm, isArmed
<1> QED BY <1>4, <1>5

\* Nor does a request to disarm.
LEMMA DisarmCannotArm ==
    ASSUME TypeOK, Inv, ~isArmed, "arm" \notin shadow.byte0, Idle \/ drv.arm = armDisable
    PROVE  CannotArm
<1>1. CASE Idle
  <2>1. call.todo = <<>> /\ \A x : ~Doing(x)
    BY <1>1 DEF Idle, Doing
  <2> QED BY <2>1, EmptyList DEF CannotArm
<1>2. CASE ~Idle
  <2>1. \/ call.todo = <<WriteStep>> /\ "arm" \notin call.byte
        \/ \E clear, set : call.todo = <<Step("store", clear, set), WriteStep>> /\ "arm" \notin set
    BY <1>2 DEF Inv, Disarming, Idle
  <2>2. CASE call.todo = <<WriteStep>> /\ "arm" \notin call.byte
    <3>1. Left(call.todo) = {WriteStep}
      BY <2>2 DEF Left
    <3> QED BY <2>2, <3>1, StepFacts DEF CannotArm
  <2>3. ASSUME NEW clear, NEW set,
               call.todo = <<Step("store", clear, set), WriteStep>>, "arm" \notin set
        PROVE  CannotArm
    <3> DEFINE a == Step("store", clear, set)
    <3>1. a.do = "store" /\ a.set = set
      BY StepFacts
    <3>2. call.todo = Change(clear, set)
      BY <2>3 DEF Change, WriteStep
    <3> HIDE DEF a
    <3>3. ~Doing("write") /\ Left(call.todo) = {a, WriteStep}
      BY <3>1, <3>2, ChangeList DEF Doing, a
    <3> QED BY <2>3, <3>1, <3>3, StepFacts DEF CannotArm
  <2> QED BY <2>1, <2>2, <2>3
<1> QED BY <1>1, <1>2

LEMMA PutScanInv ==
    ASSUME TypeOK, ScanInv, NEW r \in Records, NEW v \in Values[r], Put(r, v)
    PROVE  ScanInv'
<1>1. UNCHANGED <<setup, isRebooting, cb, chan>>
  BY PutEffect DEF Same
<1>2. drv \in Drivers /\ hw \in Hardware
  BY DEF TypeOK
<1>3. hw'.total = hw.total /\ hw'.irq = hw.irq
  BY <1>2, PutEffect DEF Refused, Assigned, Changed, Asked, Hardware
<1>4. drv'.prePost = drv.prePost
  BY <1>2, PutEffect DEF Refused, Assigned, Changed, Asked, Drivers
<1>5. Race' = Race /\ UNCHANGED ArraySize /\ UNCHANGED Channels
  BY <1>1, <1>4 DEF Race, Model, ArraySize, Channels, Signals
<1>6. UNCHANGED readLocation /\ \A s \in Channels : InOrder(s)' = InOrder(s)
  BY <1>1, <1>3, <1>4, <1>5 DEF readLocation, InOrder
<1>7. ReadIsOver'
  BY <1>1, <1>3, <1>5, PutCannotArm DEF ScanInv, ReadIsOver
<1>8. NothingRead' /\ ReadInOrder' /\ RoomLeft'
  BY <1>1, <1>3, <1>4, <1>5, <1>6 DEF ScanInv, NothingRead, ReadInOrder, RoomLeft
<1> QED BY <1>7, <1>8 DEF ScanInv

LEMMA StepScanInv ==
    ASSUME TypeOK, ArmInv, WaitInv, ScanInv, Start \/ Store \/ Write
    PROVE  ScanInv'
<1>1. UNCHANGED <<setup, isRebooting, cb>>
  BY DEF Start, Store, Write
<1>2. drv \in Drivers /\ hw \in Hardware /\ chan \in [Channels -> Shown]
  BY DEF TypeOK
<1>3. UNCHANGED ArraySize /\ UNCHANGED Channels
  BY <1>1 DEF ArraySize, Channels, Signals
<1>4. CASE Start
  <2>1. /\ Doing("start") /\ hw'.total = 0 /\ ~Idle
        /\ \A s \in Channels : ~chan'[s].fresh
    BY <1>2, <1>4 DEF Start, Hardware, Shown, Doing
  <2>2. ~CbBusy
    BY <2>1 DEF ArmInv, Lists, WaitInv, Alone, Armings, armDisable, armPostTrigger,
                armPrePostTrigger
  <2>3. cb' = cb /\ ~cb.pending /\ cb.at = "idle"
    BY <1>1, <2>2 DEF CbBusy
  <2>4. ArraySize \in Nat
    BY SetupFacts DEF TypeOK
  <2>5. ReadIsOver' /\ NothingRead' /\ ReadInOrder'
    BY <1>3, <2>1, <2>3 DEF ReadIsOver, NothingRead, ReadInOrder
  <2>6. RoomLeft'
    BY <1>3, <2>1, <2>4 DEF RoomLeft
  <2> QED BY <2>5, <2>6 DEF ScanInv
<1>5. CASE Store \/ Write
  <2>1. UNCHANGED <<drv, chan>> /\ hw'.total = hw.total /\ hw'.irq = hw.irq
    BY <1>2, <1>5 DEF Store, Write, Written, Hardware
  <2>2. CannotArm => CannotArm'
    BY <1>5, StepCannotArm DEF ArmInv, Lists
  <2>3. Race' = Race
    BY <1>1, <2>1 DEF Race, Model
  <2>4. UNCHANGED readLocation /\ \A s \in Channels : InOrder(s)' = InOrder(s)
    BY <1>3, <2>1 DEF readLocation, InOrder
  <2>5. ReadIsOver'
    BY <1>1, <1>3, <2>1, <2>2, <2>3 DEF ScanInv, ReadIsOver
  <2>6. NothingRead' /\ ReadInOrder' /\ RoomLeft'
    BY <1>1, <1>3, <2>1, <2>3, <2>4 DEF ScanInv, NothingRead, ReadInOrder, RoomLeft
  <2> QED BY <2>5, <2>6 DEF ScanInv
<1> QED BY <1>4, <1>5

LEMMA ReadNextScanInv ==
    ASSUME TypeOK, Inv, WaitInv, ScanInv, ReadNext
    PROVE  ScanInv'
<1>1. /\ UNCHANGED <<drv, shadow, reg, hw, setup, isRebooting, call>> /\ cb.at = "read"
      /\ chan' = [chan EXCEPT ![cb.signal] = ReadChannel(cb.signal)]
  BY DEF ReadNext
<1>2. cb \in Readers /\ chan \in [Channels -> Shown] /\ cb.signal \in Channels
  BY DEF TypeOK, Readers
<1>3. cb'.pending = cb.pending /\ (cb'.at = "read" => cb'.location = cb.location)
  BY <1>2 DEF ReadNext, Readers
<1>4. /\ UNCHANGED <<Race, ArraySize, Channels, readLocation>> /\ CannotArm' = CannotArm
      /\ \A s : Wanted(s)' = Wanted(s)
  BY <1>1 DEF Race, Model, ArraySize, Channels, Signals, readLocation, CannotArm, isArmed, Doing,
              Idle, Wanted, ChanLen
<1>5. CASE Race
  <2>1. RoomLeft'
    BY <1>1, <1>4 DEF ScanInv, RoomLeft
  <2> QED BY <1>4, <1>5, <2>1 DEF ScanInv, ReadIsOver, NothingRead, ReadInOrder
<1>6. CASE ~Race
  <2>1. CannotArm /\ ~hw.irq
    BY <1>1, <1>6, DisarmCannotArm DEF WaitInv, CbAlone, CbBusy
  <2>2. ~cb.pending /\ cb.location = readLocation /\ RoomLeft
    BY <1>1, <1>6 DEF ScanInv, NothingRead, ReadInOrder
  <2>3. ReadIsOver'
    BY <1>1, <1>4, <2>1 DEF ReadIsOver
  <2>4. NothingRead' /\ RoomLeft'
    BY <1>1, <1>3, <1>4, <2>2 DEF NothingRead, RoomLeft
  <2>5. ASSUME NEW s \in Channels, chan'[s].fresh PROVE InOrder(s)'
    <3>1. CASE s = cb.signal /\ Wanted(s) > 0
      <4>1. chan'[s] = ReadChannel(s)
        BY <1>1, <1>2, <3>1
      <4> DEFINE scan == ReadChannel(s)  shown == SubSeq(scan.data, 1, scan.ndata)
      <4>2. \/ shown = Newest(scan.ndata, hw.total)
            \/ drv.prePost /\ (scan.ndata = ArraySize \/ shown = Newest(scan.ndata, hw.total - 1))
        BY <2>2, <3>1, ReadIsInOrder
      <4> HIDE DEF scan
      <4>3. chan'[s] = scan
        BY <4>1 DEF scan
      <4> QED BY <1>1, <1>4, <4>2, <4>3 DEF InOrder
    <3>2. CASE ~(s = cb.signal /\ Wanted(s) > 0)
      <4>1. chan'[s] = chan[s]
        <5>1. Wanted(s) \in Int
          <6>1. ChanLen \in [Channels -> Nat]
            BY SetupFacts DEF TypeOK
          <6> QED BY <6>1 DEF Wanted, MinOf, TypeOK, Drivers
        <5>2. s = cb.signal => ReadChannel(s) = chan[s]
          BY <3>2, <5>1 DEF ReadChannel
        <5> QED BY <1>1, <1>2, <5>2
      <4>2. InOrder(s)
        BY <1>1, <1>6, <2>5, <4>1 DEF ScanInv, ReadInOrder
      <4> QED BY <1>1, <1>4, <4>1, <4>2 DEF InOrder
    <3> QED BY <3>1, <3>2
  <2>6. ReadInOrder'
    BY <1>3, <1>4, <2>2, <2>5 DEF ReadInOrder
  <2> QED BY <2>3, <2>4, <2>6 DEF ScanInv
<1> QED BY <1>5, <1>6

LEMMA EnvironmentScanInv ==
    ASSUME TypeOK, Inv, WaitInv, ScanInv,
           \/ IgnoreInterrupt \/ CompleteInterrupt \/ ReadStart \/ ReadNext \/ Post
           \/ PreSample \/ HwTrigger \/ HwGateDone \/ vtrReboot \/ UNCHANGED vars
    PROVE  ScanInv'
<1> SUFFICES ASSUME ~ReadNext PROVE ScanInv'
  BY ReadNextScanInv
<1>1. UNCHANGED <<call, setup, chan>>
  BY DEF IgnoreInterrupt, CompleteInterrupt, ReadStart, ReadNext, Post, PreSample, HwTrigger,
         HwGateDone, vtrReboot, vars
<1>2. drv \in Drivers /\ hw \in Hardware /\ shadow \in Bytes /\ reg \in Bytes /\ cb \in Readers
  BY DEF TypeOK
<1>3. drv'.prePost = drv.prePost
  BY <1>2 DEF Drivers, IgnoreInterrupt, CompleteInterrupt, ReadStart, ReadNext, Post, PreSample,
              HwTrigger, HwGateDone, vtrReboot, vars
<1>4. /\ UNCHANGED <<Race, ArraySize, Channels>>
  BY <1>1, <1>3 DEF Race, Model, ArraySize, Channels, Signals
<1>5. CASE IgnoreInterrupt \/ ReadStart \/ Post \/ HwTrigger \/ vtrReboot \/ UNCHANGED vars
  <2>1. hw'.total = hw.total /\ (hw'.irq => hw.irq) /\ hw'.irq \in BOOLEAN
    BY <1>2, <1>5 DEF IgnoreInterrupt, ReadStart, Post, HwTrigger, vtrReboot, Written, vars, Hardware
  <2>2. UNCHANGED readLocation /\ \A s \in Channels : InOrder(s)' = InOrder(s)
    BY <1>1, <1>3, <1>4, <2>1 DEF readLocation, InOrder
  <2>3. (~isRebooting' => ~isRebooting) /\ (CannotArm /\ ~isRebooting' => CannotArm')
    <3>1. CASE vtrReboot
      BY <3>1 DEF vtrReboot
    <3>2. CASE ~vtrReboot
      <4>1. UNCHANGED <<shadow, reg, isRebooting>>
        BY <1>5, <3>2 DEF IgnoreInterrupt, ReadStart, Post, HwTrigger, vars
      <4> QED BY <1>1, <4>1 DEF CannotArm, isArmed, Doing, Idle
    <3> QED BY <3>1, <3>2
  <2>4. ReadIsOver'
    BY <1>1, <1>4, <2>1, <2>3 DEF ScanInv, ReadIsOver
  <2>5. RoomLeft'
    BY <1>3, <1>4, <2>1 DEF ScanInv, RoomLeft
  <2>6. NothingRead' /\ ReadInOrder'
    <3>1. CASE ReadStart
      <4>1. cb.pending /\ ~cb'.pending /\ cb'.at = "read" /\ cb'.location = readLocation
        BY <3>1 DEF ReadStart
      <4> QED BY <1>1, <1>4, <2>2, <4>1 DEF ScanInv, NothingRead, ReadInOrder
    <3>2. CASE Post
      <4>1. cb'.at = "idle" /\ cb'.pending = cb.pending /\ cb.at # "idle"
        BY <1>2, <3>2 DEF Post, Readers
      <4> QED BY <1>1, <1>4, <4>1 DEF ScanInv, NothingRead, ReadInOrder
    <3>3. CASE UNCHANGED cb
      BY <1>1, <1>4, <2>2, <3>3 DEF ScanInv, NothingRead, ReadInOrder
    <3> QED BY <1>5, <3>1, <3>2, <3>3 DEF IgnoreInterrupt, HwTrigger, vtrReboot, vars
  <2> QED BY <2>4, <2>5, <2>6 DEF ScanInv
<1>6. CASE CompleteInterrupt
  <2>1. /\ hw.irq /\ ~isRebooting /\ hw'.total = hw.total /\ cb' = [cb EXCEPT !.pending = TRUE]
    BY <1>2, <1>6 DEF CompleteInterrupt, Written, Hardware
  <2>2. ~Race => ~CbBusy /\ \A s \in Channels : ~chan[s].fresh
    BY <2>1 DEF WaitInv, CbAlone, ScanInv, ReadIsOver
  <2>3. ~Race => cb'.at = "idle"
    BY <1>2, <2>1, <2>2 DEF CbBusy, Readers
  <2>4. ReadIsOver' /\ NothingRead' /\ ReadInOrder'
    BY <1>1, <1>4, <2>2, <2>3 DEF ReadIsOver, NothingRead, ReadInOrder
  <2>5. RoomLeft'
    BY <1>3, <1>4, <2>1 DEF ScanInv, RoomLeft
  <2> QED BY <2>4, <2>5 DEF ScanInv
<1>7. CASE PreSample \/ HwGateDone
  <2>1. UNCHANGED <<isRebooting, cb>> /\ isArmed
    BY <1>7 DEF PreSample, HwGateDone, WaitInv, Waits
  <2>2. ~Race => ~CbBusy
    BY <2>1 DEF WaitInv, CbAlone
  <2>3. ~Race /\ ~isRebooting => \A s \in Channels : ~chan[s].fresh
    BY <2>1 DEF ScanInv, ReadIsOver, CannotArm
  <2>4. ReadIsOver' /\ NothingRead' /\ ReadInOrder'
    BY <1>1, <1>4, <2>1, <2>2, <2>3 DEF ReadIsOver, NothingRead, ReadInOrder, CbBusy
  <2>5. RoomLeft'
    <3> SUFFICES ASSUME ~drv.prePost PROVE hw'.total <= ArraySize
      BY <1>3, <1>4 DEF RoomLeft
    <3>1. ~Circular
      BY <1>2, <2>1 DEF WaitInv, Fits, Circular, isArmed, Drivers
    <3>2. hw'.total = MinOf(hw.total + Gate, ArraySize)
      BY <1>2, <1>7, <3>1 DEF PreSample, HwGateDone, Hardware
    <3>3. hw.total + Gate \in Int /\ ArraySize \in Nat
      <4>1. ArraySize \in Nat
        BY SetupFacts DEF TypeOK
      <4> QED BY <1>2, <4>1 DEF Gate, MaxOf, Hardware
    <3> QED BY <3>2, <3>3 DEF MinOf
  <2> QED BY <2>4, <2>5 DEF ScanInv
<1> QED BY <1>5, <1>6, <1>7

LEMMA NextScanInv ==
    /\ TypeOK /\ Inv /\ ArmInv /\ (OperatorWaits => WaitInv /\ ScanInv) /\ [Next]_vars
       => (OperatorWaits' => ScanInv')
<1> SUFFICES ASSUME TypeOK, Inv, ArmInv, OperatorWaits => WaitInv /\ ScanInv, [Next]_vars,
                    OperatorWaits'
             PROVE  ScanInv'
  OBVIOUS
<1>1. OperatorWaits
  BY DEF OperatorWaits, Next, Put, Start, Store, Write, IgnoreInterrupt, CompleteInterrupt,
         ReadStart, ReadNext, Post, PreSample, HwTrigger, HwGateDone, vtrReboot, vars
<1> QED BY <1>1, PutScanInv, StepScanInv, EnvironmentScanInv DEF Next

\* What a scan shows of a channel are the newest samples in the order they were
\* taken, for a memory of any size and any number of channels.
THEOREM SamplesAreInOrder == Spec => []SamplesInOrder
<1> DEFINE I == TypeOK /\ Inv /\ ArmInv /\ (OperatorWaits => WaitInv /\ ScanInv)
<1>1. Init => I
  BY InitTyped, InitInv, InitArmInv, InitWaitInv, InitScanInv
<1>2. I /\ [Next]_vars => I'
  <2> SUFFICES ASSUME I, [Next]_vars PROVE I'
    OBVIOUS
  <2>1. TypeOK' /\ Inv' /\ ArmInv'
    BY NextTyped, NextKeeps, NextArmInv
  <2>2. OperatorWaits' => WaitInv' /\ ScanInv'
    BY NextWaitInv, NextScanInv
  <2> QED BY <2>1, <2>2
<1>3. I => SamplesInOrder
  BY ScanGives DEF SamplesInOrder
<1> HIDE DEF I
<1> QED BY <1>1, <1>2, <1>3, PTL DEF Spec
=============================================================================
