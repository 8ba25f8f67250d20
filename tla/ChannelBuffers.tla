--------------------------- MODULE ChannelBuffers ---------------------------
(***************************************************************************)
(* The waveform records of one channel and the array they share             *)
(* (gtrSup/gtr/devGtr.c, waveform_init_record and waveform_read).           *)
(*                                                                          *)
(* A gtrchannel points to one array, pdata, into which the driver reads.    *)
(* It is the array of a waveform record where that has the type the driver  *)
(* writes, or one that device support allocates.  Records are initialised   *)
(* in any order; each one that is processed after a scan copies from pdata, *)
(* unless pdata is its own.                                                 *)
(***************************************************************************)
EXTENDS Integers, FiniteSets

CONSTANT Setups     \* the setups looked at, a set of records

VARIABLES
    setup,          \* the channel and its records, for good
    channel,        \* the gtrchannel
    isPdataBptr,    \* of each record's dpvt
    array,          \* every array that is or was allocated
    todo,           \* records not initialised, then not processed
    scan,           \* scans read; 0 until all records are initialised
    shown           \* what each record showed when it was last processed

vars == <<setup, channel, isPdataBptr, array, todo, scan, shown>>

-----------------------------------------------------------------------------
(* The setup *)

Ftvl       == setup.ftvl        \* the type of each record's elements
Nelm       == setup.nelm        \* and their number
DriverLong == setup.driverLong  \* TRUE: the driver honours LONG, as the SIS ADC's does
MaxData    == setup.maxData     \* bound: elements the recorder has for the channel
MaxScans   == setup.maxScans    \* bound: scans
Records    == DOMAIN Ftvl       \* the waveform records of the channel

Types == {"SHORT", "LONG", "FLOAT", "DOUBLE"}

ASSUME ChannelBuffersAssumption ==
    \A s \in Setups :
        /\ s.ftvl \in [DOMAIN s.ftvl -> Types]
        /\ s.nelm \in [DOMAIN s.ftvl -> Nat \ {0}]
        /\ s.driverLong \in BOOLEAN /\ s.maxData \in Nat /\ s.maxScans \in Nat

-----------------------------------------------------------------------------
(* Arrays *)

\* bptr of a record, and the array its initialisation may allocate.
Bptr(r)   == <<"bptr", r>>
Calloc(r) == <<"calloc", r>>
Arrays    == {Bptr(r) : r \in Records} \cup {Calloc(r) : r \in Records}
NoArray   == <<"none">>

SizeOf(type) == CASE type = "SHORT" -> 2 [] type = "DOUBLE" -> 8 [] OTHER -> 4

\* of what type and how many elements an array has, and what the driver last
\* put there: n elements of the type as, in the scan of that number.
NewArray(type, n) == [type |-> type, size |-> n, live |-> TRUE,
                      as |-> type, n |-> 0, scan |-> 0]
NoArrays == [type |-> "SHORT", size |-> 0, live |-> FALSE, as |-> "SHORT", n |-> 0, scan |-> 0]

Bytes(a) == a.size * SizeOf(a.type)

TypeOK ==
    /\ setup \in Setups
    /\ channel \in [pdata : Arrays \cup {NoArray}, len : Nat, ftvl : Types, ndata : Nat]
    /\ channel.ndata <= channel.len
    /\ isPdataBptr \in [Records -> BOOLEAN]
    /\ array \in [Arrays -> [type : Types, size : Nat, live : BOOLEAN, as : Types,
                             n : Nat, scan : Nat]]
    /\ todo \subseteq Records
    /\ scan \in 0 .. MaxScans
    /\ shown \in [Records -> [nord : Nat, scan : Nat, right : BOOLEAN]]

-----------------------------------------------------------------------------
(* waveform_init_record *)

Init ==
    /\ setup \in Setups
    /\ channel = [pdata |-> NoArray, len |-> 0, ftvl |-> "SHORT", ndata |-> 0]
    /\ isPdataBptr = [r \in Records |-> FALSE]
    /\ array = [a \in Arrays |-> IF a[1] = "bptr" THEN NewArray(Ftvl[a[2]], Nelm[a[2]])
                                 ELSE NoArrays]
    /\ todo = Records
    /\ scan = 0
    /\ shown = [r \in Records |-> [nord |-> 0, scan |-> 0, right |-> TRUE]]

\* The record's own array serves as the channel's.  (The limits of no driver
\* are equal, which would let FLOAT and DOUBLE do so.)
LendsArray(r) == Ftvl[r] \in {"SHORT", "LONG"} /\ channel.pdata = NoArray

UsesBptr(r) ==
    /\ LendsArray(r)
    /\ channel' = [channel EXCEPT !.pdata = Bptr(r), !.len = Nelm[r], !.ftvl = Ftvl[r]]
    /\ isPdataBptr' = [isPdataBptr EXCEPT ![r] = TRUE]
    /\ UNCHANGED array

\* Variant: the array is allocated but once.
Allocates_Once(r) ==
    /\ ~LendsArray(r)
    /\ channel.pdata = NoArray \/ channel.len < Nelm[r]
    /\ array' = [a \in Arrays |->
                    IF a = Calloc(r) /\ channel.pdata = NoArray
                    THEN NewArray("SHORT", Nelm[r]) ELSE array[a]]
    /\ isPdataBptr' = [isPdataBptr EXCEPT ![r] = FALSE]
    /\ channel' = [channel EXCEPT !.pdata = IF @ = NoArray THEN Calloc(r) ELSE @,
                                  !.len = Nelm[r], !.ftvl = "SHORT"]
\* A larger array takes the place of the channel's, which is freed unless it
\* is this record's own: isPdataBptr is looked up in this record's dpvt.
Allocates(r) ==
    /\ ~LendsArray(r)
    /\ channel.pdata = NoArray \/ channel.len < Nelm[r]
    /\ array' = [a \in Arrays |->
                    IF a = Calloc(r) THEN NewArray("SHORT", Nelm[r])
                    ELSE IF a = channel.pdata /\ ~isPdataBptr[r]
                         THEN [array[a] EXCEPT !.live = FALSE] ELSE array[a]]
    /\ isPdataBptr' = [isPdataBptr EXCEPT ![r] = FALSE]
    /\ channel' = [channel EXCEPT !.pdata = Calloc(r), !.len = Nelm[r], !.ftvl = "SHORT"]

Shares(r) ==
    /\ ~LendsArray(r)
    /\ channel.pdata # NoArray /\ channel.len >= Nelm[r]
    /\ UNCHANGED <<channel, isPdataBptr, array>>

waveform_init_record(r) ==
    /\ scan = 0 /\ r \in todo
    /\ UsesBptr(r) \/ Allocates(r) \/ Shares(r)
    /\ todo' = todo \ {r}
    /\ UNCHANGED <<setup, scan, shown>>

-----------------------------------------------------------------------------
(* The driver's readMemory, called by myCallback once all records that were *)
(* asked to have been processed                                             *)

WrittenAs == IF DriverLong /\ channel.ftvl = "LONG" THEN "LONG" ELSE "SHORT"

\* What the driver copies of n elements.
Clipped_All(n) == n                                              \* variant
Clipped(n) == IF n < channel.len THEN n ELSE channel.len

readMemory ==
    /\ todo = {} /\ scan < MaxScans
    /\ \E n \in 0 .. MaxData :
        LET m == Clipped(n) IN
        /\ channel' = [channel EXCEPT !.ndata = m]
        /\ array' = [array EXCEPT ![channel.pdata] =
                        [@ EXCEPT !.as = WrittenAs, !.n = m, !.scan = scan + 1]]
    /\ scan' = scan + 1
    /\ todo' = Records
    /\ UNCHANGED <<setup, isPdataBptr, shown>>

-----------------------------------------------------------------------------
(* waveform_read *)

\* FLOAT and DOUBLE are scaled from 16 bits; the others are copied as they are.
ReadsAs(r) == IF Ftvl[r] = "LONG" THEN "LONG" ELSE "SHORT"

\* Variant: nord is not limited by the record's own size.
Elements_All(r) == channel.ndata
Elements(r) == IF channel.ndata > Nelm[r] THEN Nelm[r] ELSE channel.ndata

\* No new data: the record goes into alarm and shows what it had.
ReadNothing(r) ==
    /\ Elements(r) = 0
    /\ UNCHANGED <<shown, array>>

ReadInPlace(r) ==
    /\ Elements(r) > 0 /\ channel.pdata = Bptr(r)
    /\ shown' = [shown EXCEPT ![r] =
                    [nord |-> Elements(r), scan |-> array[Bptr(r)].scan,
                     right |-> array[Bptr(r)].as = Ftvl[r]]]
    /\ UNCHANGED array

ReadCopy(r) ==
    /\ Elements(r) > 0 /\ channel.pdata # Bptr(r)
    /\ LET from == array[channel.pdata] IN
       /\ shown' = [shown EXCEPT ![r] = [nord |-> Elements(r), scan |-> from.scan,
                                         right |-> from.as = ReadsAs(r)]]
       /\ array' = [array EXCEPT ![Bptr(r)] =
             [@ EXCEPT !.as = Ftvl[r], !.n = Elements(r), !.scan = from.scan]]

waveform_read(r) ==
    /\ scan > 0 /\ r \in todo
    /\ ReadNothing(r) \/ ReadInPlace(r) \/ ReadCopy(r)
    /\ todo' = todo \ {r}
    /\ UNCHANGED <<setup, channel, isPdataBptr, scan>>

Finished == scan = MaxScans /\ todo = {} /\ UNCHANGED vars

Next ==
    \/ \E r \in Records : waveform_init_record(r) \/ waveform_read(r)
    \/ readMemory
    \/ Finished

Spec == Init /\ [][Next]_vars

-----------------------------------------------------------------------------
(* What holds *)

\* Whatever the records and the order in which they are initialised, the
\* array that the driver is given is allocated and has room for len elements
\* of the type it writes.
DriverWritesFit ==
    channel.pdata # NoArray =>
        LET a == array[channel.pdata] IN
        a.live /\ channel.len * SizeOf(WrittenAs) <= Bytes(a)

\* The records go together: one that may lend its array is as large as any,
\* and only a driver that writes LONG has records of FTVL LONG, no others.
Compatible ==
    /\ \A r, q \in Records : Ftvl[r] \in {"SHORT", "LONG"} => Nelm[q] <= Nelm[r]
    /\ \/ \A r \in Records : Ftvl[r] # "LONG"
       \/ DriverLong /\ \A r \in Records : Ftvl[r] = "LONG"

\* Every record of a channel whose records go together shows the samples of
\* the scan it is processed for, in an array that has not been freed, as many
\* as it has room for, whether it shares its array, lends it or copies.
EachShowsTheScan ==
    Compatible /\ scan > 0 /\ channel.ndata > 0 => \A r \in Records \ todo :
        /\ shown[r].scan = scan /\ shown[r].right
        /\ shown[r].nord <= Nelm[r]
        /\ shown[r].nord = channel.ndata \/ shown[r].nord = Nelm[r]
        /\ array[Bptr(r)].live

=============================================================================
