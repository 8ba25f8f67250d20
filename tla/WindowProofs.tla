---------------------------- MODULE WindowProofs ----------------------------
(***************************************************************************)
(* For a memory of any size: which samples the windows of the drivers hold. *)
(***************************************************************************)
EXTENDS Windows, SequenceTheorems, TLAPS

\* What % leaves of a number, from either side.
LEMMA Remainder ==
    ASSUME NEW b \in Nat \ {0}, NEW q \in Int, NEW r \in 0 .. b - 1
    PROVE  (q * b + r) % b = r
OBVIOUS

LEMMA Quotient ==
    ASSUME NEW b \in Nat \ {0}, NEW q \in Int, NEW r \in 0 .. b - 1
    PROVE  (q * b + r) \div b = q
OBVIOUS

LEMMA DivMod ==
    ASSUME NEW a \in Int, NEW b \in Nat \ {0}
    PROVE  \E q \in Int : \E r \in 0 .. b - 1 : a = q * b + r /\ a % b = r
<1>1. a \div b \in Int /\ a = (a \div b) * b + (a % b) /\ a % b \in 0 .. b - 1
  OBVIOUS
<1> QED BY <1>1

-----------------------------------------------------------------------------
(* Sequences *)

\* What follows what.
LEMMA ConcatIs ==
    ASSUME NEW S, NEW a \in Seq(S), NEW b \in Seq(S)
    PROVE  a \o b = [i \in 1 .. Len(a) + Len(b) |-> IF i <= Len(a) THEN a[i] ELSE b[i - Len(a)]]
<1> DEFINE c == [i \in 1 .. Len(a) + Len(b) |-> IF i <= Len(a) THEN a[i] ELSE b[i - Len(a)]]
<1>1. Len(a) \in Nat /\ Len(b) \in Nat
  OBVIOUS
<1>2. /\ a \o b \in Seq(S) /\ Len(a \o b) = Len(a) + Len(b)
      /\ \A i \in 1 .. Len(a) + Len(b) :
            (a \o b)[i] = IF i <= Len(a) THEN a[i] ELSE b[i - Len(a)]
  BY ConcatProperties
<1>3. c \in Seq(S) /\ Len(c) = Len(a) + Len(b)
  <2>1. \A i \in 1 .. Len(a) + Len(b) : c[i] \in S
    BY <1>1
  <2> QED BY <1>1, <2>1
<1>4. \A i \in 1 .. Len(a) + Len(b) : c[i] = (a \o b)[i]
  BY <1>2
<1> HIDE DEF c
<1>5. a \o b = c
  BY <1>2, <1>3, <1>4, SeqEqual
<1> QED BY <1>5 DEF c

-----------------------------------------------------------------------------
(* Rings *)

\* The cell of a ring that is k cells before the one after the newest sample
\* has the k-th newest sample, or Stale if there are not so many.
LEMMA CellBack ==
    ASSUME NEW size \in Nat \ {0}, NEW total \in Nat, NEW k \in 1 .. size,
           NEW cell \in 0 .. size - 1,
           cell = (total % size) - k \/ cell = (total % size) - k + size
    PROVE  SampleIn(cell, total, size) = MaxOf(total - k, Stale)
<1>1. PICK q \in Int, loc \in 0 .. size - 1 : total = q * size + loc /\ total % size = loc
  <2>1. total \in Int
    OBVIOUS
  <2> QED BY <2>1, DivMod, Zenon
<1>2. \E p \in Int : total - 1 - cell = p * size + (k - 1)
  <2>1. CASE cell = loc - k
    <3>1. total - 1 - cell = q * size + (k - 1)
      BY <1>1, <2>1
    <3> QED BY <3>1
  <2>2. CASE cell = loc - k + size
    <3>1. total - 1 - cell = (q - 1) * size + (k - 1)
      BY <1>1, <2>2
    <3>2. q - 1 \in Int
      OBVIOUS
    <3> QED BY <3>1, <3>2
  <2> QED BY <1>1, <2>1, <2>2
<1>3. (total - 1 - cell) % size = k - 1
  <2>1. PICK p \in Int : total - 1 - cell = p * size + (k - 1)
    BY <1>2
  <2>2. k - 1 \in 0 .. size - 1
    OBVIOUS
  <2> QED BY <2>1, <2>2, Remainder
<1>4. total - 1 - ((total - 1 - cell) % size) = total - k
  BY <1>3
<1> QED BY <1>4 DEF SampleIn, MaxOf, Stale

\* A location register that holds the cell of the newest sample leads to the
\* cell after it.
LEMMA AfterNewest ==
    ASSUME NEW size \in Nat \ {0}, NEW total \in Nat \ {0}
    PROVE  AfterLast((total - 1) % size, size) = total % size
<1>1. PICK q \in Int, last \in 0 .. size - 1 :
        total - 1 = q * size + last /\ (total - 1) % size = last
  <2>1. total - 1 \in Int
    OBVIOUS
  <2> QED BY <2>1, DivMod, Zenon
<1>2. CASE last + 1 = size
  <2>1. total = (q + 1) * size + 0
    BY <1>1, <1>2
  <2>2. q + 1 \in Int /\ 0 \in 0 .. size - 1
    BY <1>1
  <2>3. total % size = 0
    BY <2>1, <2>2, Remainder
  <2> QED BY <1>1, <1>2, <2>3 DEF AfterLast
<1>3. CASE last + 1 # size
  <2>1. total = q * size + (last + 1)
    BY <1>1
  <2>2. last + 1 \in 0 .. size - 1
    BY <1>1, <1>3
  <2>3. total % size = last + 1
    BY <1>1, <2>1, <2>2, Remainder
  <2> QED BY <1>1, <1>3, <2>3 DEF AfterLast
<1> QED BY <1>2, <1>3

-----------------------------------------------------------------------------
(* readPrePostTrigger: the two runs through an event *)

\* The runs have nmax words, all of them in the event's memory.
THEOREM RunsStayInEvent ==
    ASSUME NEW size \in Nat \ {0}, NEW location \in 0 .. size - 1, NEW nmax \in 1 .. size
    PROVE  LET runs == Runs(location, nmax, size)
           IN /\ runs.n1 \in Nat /\ runs.n2 \in Nat
              /\ runs.n1 + runs.n2 = nmax
              /\ \A i \in 1 .. nmax : RunCell(runs, i) \in 0 .. size - 1
BY DEF Runs, RunCell

\* They show the newest nmax samples in the order they were taken, also when
\* the ring has wrapped, is exactly full, has not filled yet or is empty.
THEOREM RingRunsAreNewest ==
    ASSUME NEW size \in Nat \ {0}, NEW total \in Nat, NEW nmax \in 1 .. size,
           NEW i \in 1 .. nmax
    PROVE  LET runs == Runs(total % size, nmax, size)
           IN SampleIn(RunCell(runs, i), total, size) = Newest(nmax, total)[i]
<1> DEFINE loc  == total % size
           runs == Runs(loc, nmax, size)
           k    == nmax - i + 1
           cell == RunCell(runs, i)
<1>1. loc \in 0 .. size - 1
  BY DivMod
<1>2. k \in 1 .. size
  OBVIOUS
<1>3. cell \in 0 .. size - 1
  BY <1>1, RunsStayInEvent
<1>4. cell = loc - k \/ cell = loc - k + size
  BY <1>1 DEF Runs, RunCell
<1>5. SampleIn(cell, total, size) = MaxOf(total - k, Stale)
  BY <1>2, <1>3, <1>4, CellBack
<1>6. Newest(nmax, total)[i] = MaxOf(total - k, Stale)
  BY DEF Newest
<1> QED BY <1>5, <1>6

\* So they do when the location registers hold the cell of the newest sample.
THEOREM RunsAreNewest ==
    ASSUME NEW size \in Nat \ {0}, NEW total \in Nat \ {0}, NEW nmax \in 1 .. size,
           NEW i \in 1 .. nmax
    PROVE  LET runs == Runs(AfterLast((total - 1) % size, size), nmax, size)
           IN SampleIn(RunCell(runs, i), total, size) = Newest(nmax, total)[i]
<1>1. AfterLast((total - 1) % size, size) = total % size
  BY AfterNewest
<1>2. SampleIn(RunCell(Runs(total % size, nmax, size), i), total, size)
         = Newest(nmax, total)[i]
  BY RingRunsAreNewest
<1> QED BY <1>1, <1>2

\* A memory that has not wrapped has its samples in its first cells.
LEMMA FirstCells ==
    ASSUME NEW size \in Nat, NEW total \in 0 .. size, NEW i \in 0 .. total - 1
    PROVE  SampleIn(i, total, size) = i
<1>1. size \in Nat \ {0} /\ total - 1 - i \in 0 .. size - 1 /\ 0 \in Int
  OBVIOUS
<1>2. PICK r \in 0 .. size - 1 : r = total - 1 - i
  BY <1>1
<1>3. (0 * size + r) % size = r /\ 0 * size + r = r
  BY <1>1, Remainder
<1> QED BY <1>2, <1>3 DEF SampleIn

-----------------------------------------------------------------------------
(* getArrayLimits of the VTR1012 and the VTR10010 *)

\* readMemory copies as many cells as it reports, or one more when the window
\* wraps: the room of the channel is then exceeded by one (see RoomKept).
THEOREM OneTooManyIffWraps ==
    ASSUME NEW size \in Nat \ {0}, NEW len \in Nat, NEW location \in 0 .. size,
           NEW prePost \in BOOLEAN
    PROVE  LET lim == getArrayLimits(prePost, len, location, size)
               copied == CellsOf(lim.high) + CellsOf(lim.low)
           IN /\ lim.n \in 0 .. MinOf(len, size)
              /\ copied = IF prePost /\ location < lim.n THEN lim.n + 1 ELSE lim.n
BY DEF getArrayLimits, CellsOf, MinOf

\* The cell of the i-th sample that it copies.
LimitCell(lim, i) ==
    IF i <= CellsOf(lim.high) THEN lim.high[1] + i - 1
    ELSE lim.low[1] + i - CellsOf(lim.high) - 1

\* Unless the window is as large as the memory, what is copied of a ring are
\* its newest samples in the order they were taken.
THEOREM LimitsAreNewest ==
    ASSUME NEW size \in Nat \ {0}, NEW total \in Nat, NEW len \in Nat, len < size
    PROVE  LET lim == getArrayLimits(TRUE, len, total % size, size)
               copied == CellsOf(lim.high) + CellsOf(lim.low)
           IN \A i \in 1 .. copied :
                 SampleIn(LimitCell(lim, i), total, size) = Newest(copied, total)[i]
<1> DEFINE loc == total % size
           lim == getArrayLimits(TRUE, len, loc, size)
           copied == CellsOf(lim.high) + CellsOf(lim.low)
<1>1. loc \in 0 .. size - 1
  BY DivMod
<1>2. copied \in 0 .. size
  BY <1>1 DEF getArrayLimits, CellsOf, MinOf
<1> SUFFICES ASSUME NEW i \in 1 .. copied
             PROVE  SampleIn(LimitCell(lim, i), total, size) = Newest(copied, total)[i]
  OBVIOUS
<1>3. PICK m \in 0 .. size : m = copied
  BY <1>2
<1>4. i \in 1 .. m
  BY <1>3
<1> DEFINE k == m - i + 1
<1>5. k \in 1 .. size
  BY <1>4
<1>6. /\ LimitCell(lim, i) \in 0 .. size - 1
      /\ LimitCell(lim, i) = loc - k \/ LimitCell(lim, i) = loc - k + size
  <2>1. CASE loc < len
    BY <1>1, <1>3, <1>4, <2>1 DEF LimitCell, getArrayLimits, CellsOf, MinOf
  <2>2. CASE loc >= len
    BY <1>1, <1>3, <1>4, <2>2 DEF LimitCell, getArrayLimits, CellsOf, MinOf
  <2>3. loc < len \/ loc >= len
    BY <1>1
  <2> QED BY <2>1, <2>2, <2>3, Zenon
<1>7. SampleIn(LimitCell(lim, i), total, size) = MaxOf(total - k, Stale)
  <2> HIDE DEF lim, k
  <2> QED BY <1>5, <1>6, CellBack
<1>8. Newest(m, total)[i] = MaxOf(total - k, Stale)
  <2>1. Newest(m, total)[i] = MaxOf(total - m + i - 1, Stale)
    BY <1>4 DEF Newest
  <2>2. total - m + i - 1 = total - k
    BY <1>4
  <2> QED BY <2>1, <2>2
<1> QED BY <1>3, <1>7, <1>8

\* After a post-trigger cycle the last samples before location are copied.
THEOREM PostLimitsAreNewest ==
    ASSUME NEW size \in Nat \ {0}, NEW total \in 0 .. size, NEW len \in Nat
    PROVE  LET lim == getArrayLimits(FALSE, len, total, size)
           IN /\ CellsOf(lim.high) = 0 /\ CellsOf(lim.low) = lim.n
              /\ \A i \in 1 .. lim.n :
                    SampleIn(LimitCell(lim, i), total, size) = Newest(lim.n, total)[i]
<1> DEFINE lim == getArrayLimits(FALSE, len, total, size)
<1>1. /\ CellsOf(lim.high) = 0 /\ CellsOf(lim.low) = lim.n
      /\ lim.low[1] = total - lim.n
  BY DEF getArrayLimits, CellsOf, MinOf
<1>2. PICK n \in 0 .. total : n = lim.n
  BY DEF getArrayLimits, MinOf
<1> HIDE DEF lim
<1>3. ASSUME NEW i \in 1 .. lim.n
      PROVE  SampleIn(LimitCell(lim, i), total, size) = Newest(lim.n, total)[i]
  <2>1. i \in 1 .. n
    BY <1>2, <1>3
  <2> DEFINE cell == total - n + i - 1
  <2>2. LimitCell(lim, i) = cell
    BY <1>1, <1>2, <2>1 DEF LimitCell
  <2>3. PICK r \in 0 .. size - 1 : r = total - 1 - cell
    BY <2>1
  <2>4. (0 * size + r) % size = r /\ 0 * size + r = r
    BY Remainder
  <2>5. SampleIn(cell, total, size) = cell
    BY <2>1, <2>3, <2>4 DEF SampleIn
  <2>6. Newest(n, total)[i] = cell
    BY <2>1 DEF Newest, MaxOf, Stale
  <2> QED BY <1>2, <2>2, <2>5, <2>6
<1> QED BY <1>1, <1>3 DEF lim
=============================================================================
