------------------------------ MODULE Windows ------------------------------
(***************************************************************************)
(* Which cells of a recorder's memory a driver copies.                      *)
(*                                                                          *)
(* In the pre/post-trigger modes the memory of a channel, or of an event,   *)
(* is a ring: sample t is in cell t % size, and location is the cell after  *)
(* the newest sample.  The operators here are the arithmetic of the drivers *)
(* and, as a reference, where the newest samples of a ring are.             *)
(***************************************************************************)
EXTENDS Integers

MinOf(a, b) == IF a < b THEN a ELSE b
MaxOf(a, b) == IF a > b THEN a ELSE b

-----------------------------------------------------------------------------
(* Reference: the ring *)

\* The sample in cell i of a ring that has taken total samples, or Stale:
\* a cell outside the ring or not written yet.
Stale == -1
SampleIn(i, total, size) ==
    LET t == total - 1 - ((total - 1 - i) % size)
    IN IF i \in 0 .. size - 1 /\ t >= 0 THEN t ELSE Stale

\* The newest n of total samples, oldest first.
Newest(n, total) == [i \in 1 .. n |-> MaxOf(total - n + i - 1, Stale)]

-----------------------------------------------------------------------------
(* getArrayLimits of the VTR1012 and the VTR10010 *)

\* n is what it returns; a part is the cells from its first up to, and
\* without, its second member.  The high part is copied first.
getArrayLimits(prePost, len, location, size) ==
    LET most  == MinOf(len, size)
        n     == IF prePost THEN most ELSE MinOf(most, location)
        wraps == prePost /\ location < n
    IN [n    |-> n,
        high |-> IF wraps THEN <<size - n + location - 1, size>> ELSE <<0, 0>>,
        low  |-> <<IF wraps THEN 0 ELSE location - n, location>>]

CellsOf(part) == part[2] - part[1]

-----------------------------------------------------------------------------
(* The two calls of readContiguous for an event of the VTR10012, the VTR812 *)
(* and the SIS ADC                                                          *)

\* The location registers hold the cell of the newest sample.
AfterLast(last, size) == IF last + 1 = size THEN 0 ELSE last + 1

\* The newest nmax of the cells before location: n1 from first on, at the end
\* of the ring if they wrap, then n2 from its beginning.
Runs(location, nmax, size) ==
    IF location < nmax
    THEN [first |-> size - (nmax - location), n1 |-> nmax - location, n2 |-> location]
    ELSE [first |-> location - nmax, n1 |-> nmax, n2 |-> 0]

\* The cell of the i-th word they run through.
RunCell(runs, i) == IF i <= runs.n1 THEN runs.first + i - 1 ELSE i - runs.n1 - 1
=============================================================================
