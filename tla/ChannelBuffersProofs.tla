------------------------ MODULE ChannelBuffersProofs ------------------------
(***************************************************************************)
(* Theorems of ChannelBuffers, for every set of setups: any records of any  *)
(* types and sizes, initialised in any order.                               *)
(***************************************************************************)
EXTENDS ChannelBuffers, TLAPS

\* The arrays of a channel and of its records are all different.
LEMMA ArraysDiffer ==
    /\ \A r \in Records : Bptr(r) \in Arrays /\ Calloc(r) \in Arrays
    /\ \A r, q \in Records : Bptr(r) # Calloc(q)
    /\ \A a \in Arrays : a # NoArray
<1>1. \A r \in Records : Bptr(r) \in Arrays /\ Calloc(r) \in Arrays
  BY DEF Arrays
<1>2. \A r : Bptr(r)[1] = "bptr" /\ Calloc(r)[1] = "calloc" /\ NoArray[1] = "none"
  BY DEF Bptr, Calloc, NoArray
<1>3. \A r, q \in Records : Bptr(r) # Calloc(q)
  BY <1>2
<1>4. \A a \in Arrays : a # NoArray
  BY <1>2 DEF Arrays
<1> QED BY <1>1, <1>3, <1>4

\* What the assumption says of the setup at hand.
LEMMA SetupTypes ==
    ASSUME setup \in Setups
    PROVE  /\ Ftvl \in [Records -> Types] /\ Nelm \in [Records -> Nat \ {0}]
           /\ DriverLong \in BOOLEAN /\ MaxData \in Nat /\ MaxScans \in Nat
BY ChannelBuffersAssumption DEF Ftvl, Nelm, DriverLong, MaxData, MaxScans, Records

ArrayType == [type : Types, size : Nat, live : BOOLEAN, as : Types, n : Nat, scan : Nat]

ShownType == [nord : Nat, scan : Nat, right : BOOLEAN]

ChannelType == [pdata : Arrays \cup {NoArray}, len : Nat, ftvl : Types, ndata : Nat]

LEMMA NewArrayType ==
    ASSUME NEW type \in Types, NEW n \in Nat
    PROVE  /\ NewArray(type, n) \in ArrayType
           /\ NewArray(type, n).type = type /\ NewArray(type, n).size = n
           /\ NewArray(type, n).live
BY DEF NewArray, ArrayType

\* The channel has an array of its type and room, and it is allocated.  A
\* record's own array keeps its type and size, and is not freed before it is
\* lent.
Lent ==
    channel.pdata # NoArray =>
        LET a == array[channel.pdata] IN
        a.live /\ a.type = channel.ftvl /\ a.size = channel.len
OwnArrays ==
    \A r \in Records :
        /\ array[Bptr(r)].type = Ftvl[r] /\ array[Bptr(r)].size = Nelm[r]
        /\ channel.pdata = NoArray => array[Bptr(r)].live
\* Nothing is read before the records are initialised.
Unread == scan = 0 => channel.ndata = 0

\* A channel without an array has room for nothing.
HasArray == channel.pdata = NoArray => channel.len = 0

Inv == TypeOK /\ Lent /\ OwnArrays /\ Unread /\ HasArray

LEMMA InvInit == Init => Inv
<1> SUFFICES ASSUME Init PROVE Inv
  OBVIOUS
<1> USE DEF Init
<1>1. Ftvl \in [Records -> Types] /\ Nelm \in [Records -> Nat \ {0}] /\ MaxScans \in Nat
  BY SetupTypes
<1>2. NoArrays \in ArrayType /\ "SHORT" \in Types
  BY DEF NoArrays, ArrayType, Types
<1>3. ASSUME NEW a \in Arrays PROVE array[a] \in ArrayType
  <2>1. CASE a[1] = "bptr"
    <3>1. PICK r \in Records : a = Bptr(r) \/ a = Calloc(r)
      BY DEF Arrays
    <3>2. a = Bptr(r) /\ a[2] = r
      BY <2>1, <3>1 DEF Bptr, Calloc
    <3> QED BY <1>1, <2>1, <3>2, NewArrayType
  <2> QED BY <1>2, <2>1
<1>4. ASSUME NEW r \in Records
      PROVE  array[Bptr(r)] = NewArray(Ftvl[r], Nelm[r])
  BY ArraysDiffer DEF Bptr
<1>5. TypeOK
  BY <1>1, <1>2, <1>3 DEF TypeOK, ArrayType
<1>6. OwnArrays
  <2> HIDE DEF Init
  <2> SUFFICES ASSUME NEW r \in Records
               PROVE  /\ array[Bptr(r)].type = Ftvl[r]
                      /\ array[Bptr(r)].size = Nelm[r]
                      /\ array[Bptr(r)].live
    BY DEF OwnArrays
  <2>1. Ftvl[r] \in Types /\ Nelm[r] \in Nat
    BY <1>1
  <2>2. /\ NewArray(Ftvl[r], Nelm[r]).type = Ftvl[r]
        /\ NewArray(Ftvl[r], Nelm[r]).size = Nelm[r]
        /\ NewArray(Ftvl[r], Nelm[r]).live
    BY <2>1, NewArrayType
  <2>3. array[Bptr(r)] = NewArray(Ftvl[r], Nelm[r])
    BY <1>4
  <2> QED BY <2>2, <2>3
<1> QED BY <1>5, <1>6 DEF Inv, Lent, Unread, HasArray

-----------------------------------------------------------------------------
(* waveform_init_record *)

LEMMA InitRecordKeeps ==
    ASSUME Inv, NEW r \in Records, waveform_init_record(r)
    PROVE  Inv'
<1> USE DEF Inv
<1>1. /\ Ftvl \in [Records -> Types] /\ Nelm \in [Records -> Nat \ {0}] /\ MaxScans \in Nat
      /\ setup' = setup /\ setup \in Setups
  BY SetupTypes DEF TypeOK, waveform_init_record
<1>2. Records' = Records /\ Ftvl' = Ftvl /\ Nelm' = Nelm /\ MaxScans' = MaxScans /\ Arrays' = Arrays
  BY <1>1 DEF Records, Ftvl, Nelm, MaxScans, Arrays
<1>3. todo' \subseteq Records /\ scan' = scan /\ scan \in 0 .. MaxScans
  BY DEF waveform_init_record, TypeOK
<1>4. Ftvl[r] \in Types /\ Nelm[r] \in Nat /\ "SHORT" \in Types
  BY <1>1 DEF Types
<1>5. ASSUME NEW c \in ChannelType, channel' = c, c.ndata <= c.len,
             isPdataBptr' \in [Records -> BOOLEAN],
             array' \in [Arrays -> ArrayType]
      PROVE  TypeOK'
  BY <1>1, <1>2, <1>3, <1>5 DEF TypeOK, ArrayType, ChannelType, waveform_init_record
<1>6. channel \in ChannelType /\ channel.ndata = 0 /\ array \in [Arrays -> ArrayType]
      /\ isPdataBptr \in [Records -> BOOLEAN]
  BY DEF TypeOK, ArrayType, ChannelType, Unread, waveform_init_record
<1>7. CASE UsesBptr(r)
  <2> DEFINE c == [channel EXCEPT !.pdata = Bptr(r), !.len = Nelm[r], !.ftvl = Ftvl[r]]
  <2>1. channel' = c /\ isPdataBptr' = [isPdataBptr EXCEPT ![r] = TRUE] /\ array' = array
        /\ channel.pdata = NoArray
    BY <1>7 DEF UsesBptr, LendsArray
  <2>2. /\ c \in ChannelType /\ c.ndata = 0 /\ c.pdata = Bptr(r)
        /\ c.len = Nelm[r] /\ c.ftvl = Ftvl[r]
    BY <1>4, <1>6, ArraysDiffer DEF ChannelType
  <2>3. TypeOK'
    <3> HIDE DEF c
    <3> QED BY <1>4, <1>5, <1>6, <2>1, <2>2
  <2>4. Lent'
    BY <2>1, <2>2 DEF Lent, OwnArrays
  <2>5. OwnArrays'
    BY <1>2, <2>1, <2>2, ArraysDiffer DEF OwnArrays
  <2>6. Unread' /\ HasArray'
    BY <1>4, <2>1, <2>2, ArraysDiffer DEF Unread, HasArray
  <2> QED BY <2>3, <2>4, <2>5, <2>6
<1>8. CASE Allocates(r)
  <2> DEFINE c == [channel EXCEPT !.pdata = Calloc(r), !.len = Nelm[r], !.ftvl = "SHORT"]
             b(a) == IF a = Calloc(r) THEN NewArray("SHORT", Nelm[r])
                     ELSE IF a = channel.pdata /\ ~isPdataBptr[r]
                          THEN [array[a] EXCEPT !.live = FALSE] ELSE array[a]
  <2>1. channel' = c /\ isPdataBptr' = [isPdataBptr EXCEPT ![r] = FALSE]
        /\ array' = [a \in Arrays |-> b(a)]
    BY <1>8 DEF Allocates
  <2>2. /\ c \in ChannelType /\ c.ndata = 0 /\ c.pdata = Calloc(r)
        /\ c.len = Nelm[r] /\ c.ftvl = "SHORT"
    BY <1>4, <1>6, ArraysDiffer DEF ChannelType
  <2>3. \A a \in Arrays : b(a) \in ArrayType
    <3> TAKE a \in Arrays
    <3>1. array[a] \in ArrayType /\ [array[a] EXCEPT !.live = FALSE] \in ArrayType
      BY <1>6 DEF ArrayType
    <3> QED BY <1>4, <3>1, NewArrayType
  <2>4. array' \in [Arrays -> ArrayType] /\ isPdataBptr' \in [Records -> BOOLEAN]
    BY <1>6, <2>1, <2>3
  <2>5. TypeOK'
    <3> HIDE DEF c
    <3> QED BY <1>4, <1>5, <2>1, <2>2, <2>4
  <2>6. array'[Calloc(r)] = NewArray("SHORT", Nelm[r])
    BY <2>1, ArraysDiffer
  <2>7. Lent'
    <3> HIDE DEF c, b
    <3> QED BY <1>4, <2>1, <2>2, <2>6, NewArrayType DEF Lent
  <2>8. \A q \in Records : array'[Bptr(q)].type = array[Bptr(q)].type
                           /\ array'[Bptr(q)].size = array[Bptr(q)].size
    <3> TAKE q \in Records
    <3>1. Bptr(q) # Calloc(r) /\ Bptr(q) \in Arrays
      BY ArraysDiffer
    <3>2. array'[Bptr(q)] \in {array[Bptr(q)], [array[Bptr(q)] EXCEPT !.live = FALSE]}
      BY <2>1, <3>1
    <3>3. array[Bptr(q)] \in ArrayType
      BY <1>6, <3>1
    <3> QED BY <3>2, <3>3 DEF ArrayType
  <2>9. OwnArrays'
    <3>1. channel'.pdata # NoArray
      BY <2>1, <2>2, ArraysDiffer
    <3> QED BY <1>2, <2>8, <3>1 DEF OwnArrays
  <2>10. Unread' /\ HasArray'
    BY <1>4, <2>1, <2>2, ArraysDiffer DEF Unread, HasArray
  <2> QED BY <2>5, <2>7, <2>9, <2>10
<1>9. CASE Shares(r)
  <2>1. channel' = channel /\ isPdataBptr' = isPdataBptr /\ array' = array
    BY <1>9 DEF Shares
  <2>2. TypeOK'
    BY <1>1, <1>2, <1>3, <2>1 DEF TypeOK, waveform_init_record
  <2> QED BY <1>2, <1>3, <2>1, <2>2 DEF Lent, OwnArrays, Unread, HasArray
<1> QED BY <1>7, <1>8, <1>9 DEF waveform_init_record

-----------------------------------------------------------------------------
(* Scans *)

\* A step that only writes samples: the arrays stay what they are.
LEMMA SamplesKeep ==
    ASSUME Inv, setup' = setup, channel'.pdata = channel.pdata,
           channel'.len = channel.len, channel'.ftvl = channel.ftvl,
           NEW a \in Arrays \cup {NoArray}, NEW as \in Types, NEW n \in Nat, NEW k \in Nat,
           array' = [array EXCEPT ![a] = [@ EXCEPT !.as = as, !.n = n, !.scan = k]]
    PROVE  array' \in [Arrays -> ArrayType] /\ Lent' /\ OwnArrays'
<1> DEFINE new == [array[a] EXCEPT !.as = as, !.n = n, !.scan = k]
<1>1. array \in [Arrays -> ArrayType] /\ channel.pdata \in Arrays \cup {NoArray}
  BY DEF Inv, TypeOK, ArrayType
<1>2. Records' = Records /\ Ftvl' = Ftvl /\ Nelm' = Nelm
  BY DEF Records, Ftvl, Nelm
<1>3. ASSUME a \in Arrays
      PROVE  /\ new \in ArrayType /\ new.type = array[a].type
             /\ new.size = array[a].size /\ new.live = array[a].live
  BY <1>1, <1>3 DEF ArrayType
<1>4. \A b \in Arrays : array'[b] = IF b = a THEN new ELSE array[b]
  BY <1>1
<1>5. array' \in [Arrays -> ArrayType]
  <2> HIDE DEF new
  <2>1. \A b \in Arrays : array'[b] \in ArrayType
    BY <1>1, <1>3, <1>4
  <2>2. array' = [b \in Arrays |-> array'[b]]
    BY <1>1
  <2> QED BY <2>1, <2>2
<1>6. \A b \in Arrays : /\ array'[b].type = array[b].type
                        /\ array'[b].size = array[b].size /\ array'[b].live = array[b].live
  <2> HIDE DEF new
  <2> QED BY <1>3, <1>4
<1>7. Lent'
  BY <1>1, <1>6 DEF Inv, Lent
<1>8. OwnArrays'
  BY <1>2, <1>6, ArraysDiffer DEF Inv, OwnArrays
<1> QED BY <1>5, <1>7, <1>8

LEMMA ReadMemoryKeeps ==
    ASSUME Inv, readMemory
    PROVE  Inv'
<1>1. PICK x \in 0 .. MaxData :
        /\ channel' = [channel EXCEPT !.ndata = Clipped(x)]
        /\ array' = [array EXCEPT ![channel.pdata] =
                        [@ EXCEPT !.as = WrittenAs, !.n = Clipped(x), !.scan = scan + 1]]
  BY DEF readMemory
<1>2. /\ MaxData \in Nat /\ MaxScans \in Nat /\ scan \in 0 .. MaxScans /\ scan < MaxScans
      /\ channel \in ChannelType /\ setup' = setup /\ isPdataBptr' = isPdataBptr
      /\ scan' = scan + 1 /\ todo' = Records
  BY SetupTypes DEF Inv, TypeOK, ChannelType, readMemory
<1>3. Clipped(x) \in Nat /\ Clipped(x) <= channel.len
  BY <1>2 DEF Clipped, ChannelType
<1>4. /\ channel' \in ChannelType /\ channel'.ndata <= channel'.len
      /\ channel'.pdata = channel.pdata /\ channel'.len = channel.len
      /\ channel'.ftvl = channel.ftvl /\ channel.pdata \in Arrays \cup {NoArray}
  BY <1>1, <1>2, <1>3 DEF ChannelType
<1>5. WrittenAs \in Types
  BY DEF WrittenAs, Types
<1>6. array' \in [Arrays -> ArrayType] /\ Lent' /\ OwnArrays'
  <2>1. scan + 1 \in Nat
    BY <1>2
  <2> QED BY <1>1, <1>2, <1>3, <1>4, <1>5, <2>1, SamplesKeep
<1>7. Records' = Records /\ MaxScans' = MaxScans /\ Arrays' = Arrays
  BY <1>2 DEF Records, Ftvl, MaxScans, Arrays
<1>8. TypeOK'
  BY <1>2, <1>4, <1>6, <1>7 DEF Inv, TypeOK, ArrayType, ChannelType, readMemory
<1> QED BY <1>2, <1>4, <1>6, <1>8 DEF Inv, Unread, HasArray

\* What waveform_read shows.  A record has something to show, if the channel
\* has data.
LEMMA ReadRecord ==
    ASSUME Inv, NEW r \in Records, waveform_read(r)
    PROVE  /\ shown' \in [Records -> ShownType]
           /\ \A q \in Records \ {r} : shown'[q] = shown[q]
           /\ channel.ndata > 0 =>
                /\ channel.pdata \in Arrays
                /\ shown'[r] = [nord |-> Elements(r), scan |-> array[channel.pdata].scan,
                                right |-> array[channel.pdata].as =
                                   (IF channel.pdata = Bptr(r) THEN Ftvl[r] ELSE ReadsAs(r))]
                /\ Elements(r) <= Nelm[r]
                /\ Elements(r) = channel.ndata \/ Elements(r) = Nelm[r]
<1>1. /\ Nelm[r] \in Nat \ {0} /\ channel.ndata \in Nat /\ channel.ndata <= channel.len
      /\ channel.pdata \in Arrays \cup {NoArray} /\ channel.len \in Nat
      /\ shown \in [Records -> ShownType]
  BY SetupTypes DEF Inv, TypeOK, ShownType
<1>2. /\ Elements(r) \in Nat /\ (Elements(r) > 0 <=> channel.ndata > 0)
      /\ Elements(r) <= Nelm[r] /\ (Elements(r) = channel.ndata \/ Elements(r) = Nelm[r])
  BY <1>1 DEF Elements
<1>3. channel.ndata > 0 => channel.pdata \in Arrays
  BY <1>1 DEF Inv, HasArray
<1>4. channel.ndata > 0 => array[channel.pdata].scan \in Nat
  BY <1>3 DEF Inv, TypeOK
<1>5. CASE ReadNothing(r)
  BY <1>1, <1>2, <1>5 DEF ReadNothing
<1>6. CASE ~ReadNothing(r)
  <2> DEFINE new == [nord |-> Elements(r), scan |-> array[channel.pdata].scan,
                     right |-> array[channel.pdata].as =
                                  (IF channel.pdata = Bptr(r) THEN Ftvl[r] ELSE ReadsAs(r))]
  <2>1. shown' = [shown EXCEPT ![r] = new] /\ channel.ndata > 0
    BY <1>2, <1>6 DEF waveform_read, ReadInPlace, ReadCopy
  <2>2. new \in ShownType
    BY <1>2, <1>4, <2>1 DEF ShownType
  <2> HIDE DEF new
  <2>3. /\ shown' \in [Records -> ShownType] /\ shown'[r] = new
        /\ \A q \in Records \ {r} : shown'[q] = shown[q]
    BY <1>1, <2>1, <2>2
  <2> QED BY <1>2, <1>3, <2>1, <2>3 DEF new
<1> QED BY <1>5, <1>6

LEMMA WaveformReadKeeps ==
    ASSUME Inv, NEW r \in Records, waveform_read(r)
    PROVE  Inv'
<1>1. /\ setup' = setup /\ channel' = channel /\ isPdataBptr' = isPdataBptr
      /\ scan' = scan /\ todo' \subseteq todo
  BY DEF waveform_read
<1>2. Records' = Records /\ MaxScans' = MaxScans /\ Arrays' = Arrays
      /\ Ftvl' = Ftvl /\ Nelm' = Nelm
  BY <1>1 DEF Records, Ftvl, Nelm, MaxScans, Arrays
<1>3. array' \in [Arrays -> ArrayType] /\ Lent' /\ OwnArrays'
  <2>1. CASE array' = array
    BY <1>1, <1>2, <2>1 DEF Inv, TypeOK, ArrayType, Lent, OwnArrays
  <2>2. CASE ReadCopy(r)
    <3>1. array' = [array EXCEPT ![Bptr(r)] =
             [@ EXCEPT !.as = Ftvl[r], !.n = Elements(r),
                       !.scan = array[channel.pdata].scan]]
          /\ Elements(r) > 0
      BY <2>2 DEF ReadCopy
    <3>2. /\ Ftvl[r] \in Types /\ Nelm[r] \in Nat /\ channel.ndata \in Nat /\ channel.len \in Nat
          /\ Bptr(r) \in Arrays \cup {NoArray}
      BY SetupTypes, ArraysDiffer DEF Inv, TypeOK
    <3>3. Elements(r) \in Nat
      BY <3>2 DEF Elements
    <3>4. channel.pdata \in Arrays
      BY <3>1, <3>2 DEF Inv, TypeOK, HasArray, Elements
    <3>5. array[channel.pdata].scan \in Nat
      BY <3>4 DEF Inv, TypeOK
    <3> QED BY <1>1, <3>1, <3>2, <3>3, <3>5, SamplesKeep
  <2> QED BY <2>1, <2>2 DEF waveform_read, ReadNothing, ReadInPlace
<1>4. shown' \in [Records -> ShownType]
  BY ReadRecord DEF Inv, TypeOK, ShownType
<1>5. TypeOK'
  BY <1>1, <1>2, <1>3, <1>4 DEF Inv, TypeOK, ArrayType, ShownType
<1> QED BY <1>1, <1>3, <1>5 DEF Inv, Unread, HasArray

-----------------------------------------------------------------------------
(* Theorems *)

LEMMA InvKept == Inv /\ [Next]_vars => Inv'
<1> SUFFICES ASSUME Inv, [Next]_vars PROVE Inv'
  OBVIOUS
<1>1. CASE UNCHANGED vars
  BY <1>1 DEF vars, Inv, TypeOK, Lent, OwnArrays, Unread, HasArray, Records, Ftvl, Nelm, MaxScans, Arrays
<1>2. CASE Finished
  BY <1>1, <1>2 DEF Finished
<1>3. CASE readMemory
  BY <1>3, ReadMemoryKeeps
<1>4. ASSUME NEW r \in Records, waveform_init_record(r) \/ waveform_read(r)
      PROVE  Inv'
  BY <1>4, InitRecordKeeps, WaveformReadKeeps
<1> QED BY <1>1, <1>2, <1>3, <1>4 DEF Next

\* The channel, the arrays and the records keep their types, and no driver
\* counts more samples than the channel has room for.
THEOREM BuffersTypeCorrect == Spec => []TypeOK
<1>1. Inv => TypeOK
  BY DEF Inv
<1> QED BY <1>1, InvInit, InvKept, PTL DEF Spec

\* The array that readMemory fills is allocated and large enough, whatever
\* records the channel has and in whatever order waveform_init_record meets
\* them.
THEOREM DriverArrayFits == Spec => []DriverWritesFit
<1>1. Inv => DriverWritesFit
  <2> SUFFICES ASSUME Inv, channel.pdata # NoArray
               PROVE  /\ array[channel.pdata].live
                      /\ channel.len * SizeOf(WrittenAs) <= Bytes(array[channel.pdata])
    BY DEF DriverWritesFit
  <2>1. /\ array[channel.pdata].live /\ array[channel.pdata].type = channel.ftvl
        /\ array[channel.pdata].size = channel.len
    BY DEF Inv, Lent
  <2>2. channel.ftvl \in Types /\ channel.len \in Nat
    BY DEF Inv, TypeOK
  <2>3. SizeOf(WrittenAs) \in {2, 4} /\ SizeOf(channel.ftvl) \in {2, 4, 8}
        /\ SizeOf(WrittenAs) <= SizeOf(channel.ftvl)
    BY <2>2 DEF SizeOf, WrittenAs, Types
  <2>4. channel.len * SizeOf(WrittenAs) <= channel.len * SizeOf(channel.ftvl)
    BY <2>2, <2>3
  <2> QED BY <2>1, <2>4 DEF Bytes
<1> QED BY <1>1, InvInit, InvKept, PTL DEF Spec

-----------------------------------------------------------------------------
(* What compatible records show: the array is lent by a record as large as   *)
(* any, or allocated, so that it is not replaced and holds what the records  *)
(* expect in it.                                                             *)

\* Only a record of FTVL SHORT or LONG lends its array; no record's own array
\* is freed; an array that is allocated takes SHORT, as the driver writes what
\* every record reads.
Lender   == \A r \in Records :
    /\ channel.pdata = Bptr(r) => Ftvl[r] \in {"SHORT", "LONG"}
    /\ channel.pdata = Calloc(r) => channel.ftvl = "SHORT"
OwnLive  == \A r \in Records : array[Bptr(r)].live
Expected == channel.pdata # NoArray => \A r \in Records : ReadsAs(r) = WrittenAs

\* The channel's array holds the scan that was read last.
Loaded == scan > 0 /\ channel.ndata > 0 =>
    array[channel.pdata].as = WrittenAs /\ array[channel.pdata].scan = scan

ShowInv == Compatible => Lender /\ OwnLive /\ Expected /\ Loaded /\ EachShowsTheScan

LEMMA ShowInvInit == Init => ShowInv
<1> SUFFICES ASSUME Init, Compatible
             PROVE  Lender /\ OwnLive /\ Expected /\ Loaded /\ EachShowsTheScan
  BY DEF ShowInv
<1>1. channel.pdata = NoArray /\ channel.ndata = 0
  BY DEF Init
<1>2. OwnLive
  BY <1>1, InvInit DEF Inv, OwnArrays, OwnLive
<1>3. Lender
  BY <1>1, ArraysDiffer DEF Lender
<1> QED BY <1>1, <1>2, <1>3 DEF Expected, Loaded, EachShowsTheScan

\* The setup never changes, so neither does what it says.
LEMMA SetupKept ==
    ASSUME setup' = setup
    PROVE  /\ Records' = Records /\ Ftvl' = Ftvl /\ Nelm' = Nelm /\ DriverLong' = DriverLong
           /\ Compatible' <=> Compatible
           /\ \A r : ReadsAs(r)' = ReadsAs(r)
BY DEF Records, Ftvl, Nelm, DriverLong, Compatible, ReadsAs

\* An array that a compatible record has lent is never replaced by a larger.
LEMMA NotReplaced ==
    ASSUME Inv, Compatible, Lender, NEW r \in Records, NEW q \in Records,
           channel.pdata = Bptr(q)
    PROVE  ~Allocates(r)
<1>1. channel.len = Nelm[q] /\ Ftvl[q] \in {"SHORT", "LONG"} /\ channel.pdata # NoArray
  BY ArraysDiffer DEF Inv, Lent, OwnArrays, Lender
<1>2. Nelm[r] <= Nelm[q] /\ Nelm[r] \in Nat /\ Nelm[q] \in Nat
  BY <1>1, SetupTypes DEF Compatible, Inv, TypeOK
<1> QED BY <1>1, <1>2 DEF Allocates

LEMMA ShowInitRecord ==
    ASSUME Inv, ShowInv, Compatible, NEW r \in Records, waveform_init_record(r)
    PROVE  Lender' /\ OwnLive' /\ Expected' /\ Loaded' /\ EachShowsTheScan'
<1>1. /\ Lender /\ OwnLive /\ Expected
      /\ setup' = setup /\ scan = 0 /\ scan' = scan
  BY DEF ShowInv, waveform_init_record
<1>2. /\ Records' = Records /\ Ftvl' = Ftvl /\ DriverLong' = DriverLong
      /\ \A q : ReadsAs(q)' = ReadsAs(q)
  BY <1>1, SetupKept
<1>3. Loaded' /\ EachShowsTheScan'
  BY <1>1 DEF Loaded, EachShowsTheScan
<1>4. channel \in ChannelType
  BY DEF Inv, TypeOK, ChannelType
<1>5. CASE UsesBptr(r)
  <2>1. /\ channel' = [channel EXCEPT !.pdata = Bptr(r), !.len = Nelm[r], !.ftvl = Ftvl[r]]
        /\ array' = array /\ Ftvl[r] \in {"SHORT", "LONG"}
    BY <1>5 DEF UsesBptr, LendsArray
  <2>2. channel'.pdata = Bptr(r) /\ channel'.ftvl = Ftvl[r]
    BY <1>4, <2>1 DEF ChannelType
  <2>3. Lender'
    BY <1>2, <2>1, <2>2, ArraysDiffer DEF Lender, Bptr
  <2>4. Expected'
    BY <1>2, <2>1, <2>2 DEF Expected, WrittenAs, Compatible, ReadsAs
  <2> QED BY <1>1, <1>2, <1>3, <2>1, <2>3, <2>4 DEF OwnLive
<1>6. CASE Allocates(r)
  <2>1. /\ channel' = [channel EXCEPT !.pdata = Calloc(r), !.len = Nelm[r], !.ftvl = "SHORT"]
        /\ array' = [a \in Arrays |->
                        IF a = Calloc(r) THEN NewArray("SHORT", Nelm[r])
                        ELSE IF a = channel.pdata /\ ~isPdataBptr[r]
                             THEN [array[a] EXCEPT !.live = FALSE] ELSE array[a]]
        /\ ~LendsArray(r)
        /\ channel.pdata = NoArray \/ channel.len < Nelm[r]
    BY <1>6 DEF Allocates
  <2>2. channel'.pdata = Calloc(r) /\ channel'.ftvl = "SHORT"
    BY <1>4, <2>1 DEF ChannelType
  <2>3. \A q \in Records : channel.pdata # Bptr(q)
    BY <1>1, <1>6, NotReplaced
  <2>4. Lender'
    BY <1>2, <2>2, ArraysDiffer DEF Lender
  <2>5. OwnLive'
    <3>1. \A q \in Records : array'[Bptr(q)] = array[Bptr(q)]
      BY <2>1, <2>3, ArraysDiffer
    <3> QED BY <1>1, <1>2, <3>1 DEF OwnLive
  <2>6. \A q \in Records : Ftvl[q] # "LONG"
    <3>1. CASE channel.pdata = NoArray
      <4>1. Ftvl[r] # "LONG"
        BY <2>1, <3>1 DEF LendsArray
      <4> QED BY <4>1 DEF Compatible
    <3>2. CASE channel.pdata # NoArray
      <4>1. channel.pdata \in Arrays
        BY <1>4, <3>2 DEF ChannelType
      <4>2. PICK q \in Records : channel.pdata = Calloc(q)
        BY <2>3, <4>1 DEF Arrays
      <4>3. WrittenAs = "SHORT"
        BY <1>1, <4>2 DEF Lender, WrittenAs
      <4> QED BY <1>1, <3>2, <4>3 DEF Expected, ReadsAs
    <3> QED BY <3>1, <3>2
  <2>7. Expected'
    BY <1>2, <2>2, <2>6 DEF Expected, WrittenAs, ReadsAs
  <2> QED BY <1>3, <2>4, <2>5, <2>7
<1>7. CASE Shares(r)
  BY <1>1, <1>2, <1>3, <1>7 DEF Shares, Lender, OwnLive, Expected, WrittenAs
<1> QED BY <1>5, <1>6, <1>7 DEF waveform_init_record

\* readMemory fills the channel's array for all records.
LEMMA ShowReadMemory ==
    ASSUME Inv, ShowInv, Compatible, readMemory
    PROVE  Lender' /\ OwnLive' /\ Expected' /\ Loaded' /\ EachShowsTheScan'
<1>1. PICK n \in 0 .. MaxData :
        /\ channel' = [channel EXCEPT !.ndata = Clipped(n)]
        /\ array' = [array EXCEPT ![channel.pdata] =
                        [@ EXCEPT !.as = WrittenAs, !.n = Clipped(n), !.scan = scan + 1]]
  BY DEF readMemory
<1>2. /\ Lender /\ OwnLive /\ Expected
      /\ setup' = setup /\ scan' = scan + 1 /\ todo' = Records /\ scan \in Nat
      /\ channel \in ChannelType /\ array \in [Arrays -> ArrayType]
  BY SetupTypes DEF ShowInv, readMemory, Inv, TypeOK, ChannelType, ArrayType
<1>3. /\ Records' = Records /\ Ftvl' = Ftvl /\ DriverLong' = DriverLong
      /\ \A r : ReadsAs(r)' = ReadsAs(r)
  BY <1>2, SetupKept
<1>4. channel'.pdata = channel.pdata /\ channel'.ftvl = channel.ftvl
  BY <1>1, <1>2 DEF ChannelType
<1>5. Lender' /\ Expected' /\ WrittenAs' = WrittenAs
  BY <1>2, <1>3, <1>4 DEF Lender, Expected, WrittenAs, Bptr, Calloc
<1>6. \A a \in Arrays : array'[a].live = array[a].live
  BY <1>1, <1>2 DEF ArrayType
<1>7. OwnLive'
  BY <1>2, <1>3, <1>6, ArraysDiffer DEF OwnLive, Bptr
<1>8. Loaded'
  <2> SUFFICES ASSUME channel'.ndata > 0
               PROVE  array'[channel.pdata].as = WrittenAs /\ array'[channel.pdata].scan = scan + 1
    BY <1>2, <1>4, <1>5 DEF Loaded
  <2>1. channel.pdata # NoArray
    <3> SUFFICES ASSUME channel.pdata = NoArray PROVE FALSE
      OBVIOUS
    <3>1. channel.len = 0 /\ MaxData \in Nat
      BY SetupTypes DEF Inv, HasArray, TypeOK
    <3>2. channel'.ndata = Clipped(n)
      BY <1>1, <1>2 DEF ChannelType
    <3> QED BY <3>1, <3>2 DEF Clipped
  <2>2. channel.pdata \in Arrays
    BY <1>2, <2>1 DEF ChannelType
  <2> QED BY <1>1, <1>2, <2>2 DEF ArrayType
<1>9. EachShowsTheScan'
  BY <1>2, <1>3 DEF EachShowsTheScan
<1> QED BY <1>5, <1>7, <1>8, <1>9

\* waveform_read copies to an array that no other record reads from.
LEMMA ShowWaveformRead ==
    ASSUME Inv, ShowInv, Compatible, NEW r \in Records, waveform_read(r)
    PROVE  Lender' /\ OwnLive' /\ Expected' /\ Loaded' /\ EachShowsTheScan'
<1>1. /\ Lender /\ OwnLive /\ Expected /\ Loaded /\ EachShowsTheScan
      /\ setup' = setup /\ channel' = channel /\ scan' = scan /\ todo' = todo \ {r}
      /\ scan > 0 /\ r \in todo
      /\ channel \in ChannelType /\ array \in [Arrays -> ArrayType]
  BY DEF ShowInv, waveform_read, Inv, TypeOK, ChannelType, ArrayType
<1>2. /\ Records' = Records /\ Ftvl' = Ftvl /\ Nelm' = Nelm /\ DriverLong' = DriverLong
      /\ \A q : ReadsAs(q)' = ReadsAs(q)
  BY <1>1, SetupKept
<1>3. Lender' /\ Expected' /\ WrittenAs' = WrittenAs
  BY <1>1, <1>2 DEF Lender, Expected, WrittenAs, Bptr, Calloc
<1>4. /\ \A a \in Arrays : array'[a].live = array[a].live
      /\ channel.pdata \in Arrays => array'[channel.pdata] = array[channel.pdata]
  <2>1. CASE ReadCopy(r)
    BY <1>1, <2>1 DEF ReadCopy, ArrayType
  <2> QED BY <2>1 DEF waveform_read, ReadNothing, ReadInPlace
<1>5. OwnLive'
  BY <1>1, <1>2, <1>4, ArraysDiffer DEF OwnLive, Bptr
<1>6. channel.ndata > 0 => channel.pdata \in Arrays /\ channel.pdata # NoArray
  BY ReadRecord, ArraysDiffer
<1>7. Loaded'
  BY <1>1, <1>3, <1>4, <1>6 DEF Loaded
<1>8. EachShowsTheScan'
  <2> SUFFICES ASSUME channel.ndata > 0, NEW q \in Records, q \notin todo'
               PROVE  /\ shown'[q].scan = scan /\ shown'[q].right
                      /\ shown'[q].nord <= Nelm[q]
                      /\ shown'[q].nord = channel.ndata \/ shown'[q].nord = Nelm[q]
                      /\ array'[Bptr(q)].live
    BY <1>1, <1>2 DEF EachShowsTheScan, Bptr
  <2>1. array'[Bptr(q)].live
    BY <1>1, <1>4, ArraysDiffer DEF OwnLive
  <2>2. CASE q # r
    <3>1. shown'[q] = shown[q] /\ q \notin todo
      BY <1>1, <2>2, ReadRecord
    <3> QED BY <1>1, <2>1, <3>1 DEF EachShowsTheScan
  <2>3. CASE q = r
    <3>1. array[channel.pdata].as = WrittenAs /\ array[channel.pdata].scan = scan
      BY <1>1 DEF Loaded
    <3>2. ReadsAs(r) = WrittenAs
      BY <1>1, <1>6 DEF Expected
    <3>3. channel.pdata = Bptr(r) => Ftvl[r] = ReadsAs(r)
      BY <1>1 DEF Lender, ReadsAs
    <3>4. (array[channel.pdata].as = (IF channel.pdata = Bptr(r) THEN Ftvl[r] ELSE ReadsAs(r)))
             = TRUE
      BY <3>1, <3>2, <3>3
    <3>5. /\ shown'[r] = [nord |-> Elements(r), scan |-> scan, right |-> TRUE]
          /\ Elements(r) <= Nelm[r]
          /\ Elements(r) = channel.ndata \/ Elements(r) = Nelm[r]
      BY <3>1, <3>4, ReadRecord
    <3>6. shown'[r].nord = Elements(r) /\ shown'[r].scan = scan /\ shown'[r].right
      BY <3>5
    <3> QED BY <2>1, <2>3, <3>5, <3>6
  <2> QED BY <2>2, <2>3
<1> QED BY <1>3, <1>5, <1>7, <1>8

LEMMA ShowInvKept == Inv /\ ShowInv /\ [Next]_vars => ShowInv'
<1> SUFFICES ASSUME Inv, ShowInv, [Next]_vars PROVE ShowInv'
  OBVIOUS
<1>1. setup' = setup
  BY DEF Next, vars, waveform_init_record, waveform_read, readMemory, Finished
<1>2. Compatible' <=> Compatible
  BY <1>1, SetupKept
<1>3. SUFFICES ASSUME Compatible
               PROVE  Lender' /\ OwnLive' /\ Expected' /\ Loaded' /\ EachShowsTheScan'
  BY <1>2 DEF ShowInv
<1>4. CASE UNCHANGED vars
  BY <1>1, <1>3, <1>4, SetupKept
     DEF vars, ShowInv, Lender, OwnLive, Expected, WrittenAs, Loaded, EachShowsTheScan, Bptr, Calloc
<1>5. CASE Finished
  BY <1>4, <1>5 DEF Finished
<1>6. CASE readMemory
  BY <1>3, <1>6, ShowReadMemory
<1>7. ASSUME NEW r \in Records, waveform_init_record(r) \/ waveform_read(r)
      PROVE  Lender' /\ OwnLive' /\ Expected' /\ Loaded' /\ EachShowsTheScan'
  BY <1>3, <1>7, ShowInitRecord, ShowWaveformRead
<1> QED BY <1>4, <1>5, <1>6, <1>7 DEF Next

\* For any number of waveform records of a channel that go together, in
\* whatever order they are initialised and processed: each shows the scan it
\* is processed for, read as the driver wrote it, in an array not freed.
THEOREM RecordsShowTheScan == Spec => []EachShowsTheScan
<1>1. ShowInv => EachShowsTheScan
  BY DEF ShowInv, EachShowsTheScan
<1> QED BY <1>1, InvInit, InvKept, ShowInvInit, ShowInvKept, PTL DEF Spec

=============================================================================
