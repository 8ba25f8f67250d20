-------------------------- MODULE MCChannelBuffers --------------------------
(***************************************************************************)
(* Setups of ChannelBuffers for TLC: the records of one channel.            *)
(***************************************************************************)
EXTENDS ChannelBuffers, TLC

\* A SHORT record as large as any and three to be scaled, two of them smaller.
Scaled ==
    [ftvl |-> "s" :> "SHORT" @@ "d" :> "DOUBLE" @@ "f" :> "FLOAT" @@ "g" :> "FLOAT",
     nelm |-> "s" :> 4 @@ "d" :> 4 @@ "f" :> 2 @@ "g" :> 3,
     driverLong |-> FALSE, maxData |-> 5, maxScans |-> 2]

\* Records of FTVL LONG with a driver that honours it.
AllLong ==
    [Scaled EXCEPT !.ftvl = "l" :> "LONG" @@ "m" :> "LONG" @@ "n" :> "LONG",
                   !.nelm = "l" :> 3 @@ "m" :> 3 @@ "n" :> 3, !.driverLong = TRUE]

\* Records that do not go together: a SHORT one smaller than one to be scaled,
\* whose array may be freed, and a LONG one among them.
Mixed ==
    [Scaled EXCEPT !.ftvl = "s" :> "SHORT" @@ "d" :> "DOUBLE" @@ "l" :> "LONG",
                   !.nelm = "s" :> 2 @@ "d" :> 4 @@ "l" :> 3, !.driverLong = TRUE]

AllSetups == {Scaled, AllLong, Mixed}
=============================================================================
