--------------------------- MODULE DvcAudio_proofs ---------------------------
(***************************************************************************)
(* Proofs about DvcAudio.  Three invariants build on one another: TypeInv  *)
(* (types, the order of the decoder's two positions, the channel within    *)
(* the disc), Demuxed (the demultiplexer and the buffer are where the      *)
(* disc, given in one go, leads) and Scanned (the scan has not passed a    *)
(* header that lies ahead).  RingInv, ClockInv and ReqInv are about the    *)
(* ring, the clock and the requests and need TypeInv only.  A transfer is  *)
(* a fold over its bytes: what one byte does (feed_byte) is carried        *)
(* through the recursive function Units by UnitsRun and UnitsArrive.       *)
(***************************************************************************)
EXTENDS DvcAudio, FiniteSetTheorems, SequenceTheorems, WellFoundedInduction, TLAPS

\* Bits put into a stamp leave a number.
LEMMA BitsAreInt ==
    ASSUME NEW s \in Int, NEW v \in Int
    PROVE  /\ bits(s, 32, 30, v) \in Int /\ bits(s, 29, 22, v) \in Int
           /\ bits(s, 21, 15, v) \in Int /\ bits(s, 14, 7, v) \in Int
           /\ bits(s, 6, 0, v) \in Int
BY DEF bits

Stamps == {"scr", "pts", "dts"}
\* The bits a part may carry.
IsPart(p) ==
    /\ p.stamp \in Stamps
    /\ \/ p.hi = 32 /\ p.lo = 30
       \/ p.hi = 29 /\ p.lo = 22
       \/ p.hi = 21 /\ p.lo = 15
       \/ p.hi = 14 /\ p.lo = 7
       \/ p.hi = 6 /\ p.lo = 0

LEMMA DemuxFields ==
    ASSUME NEW d \in Demuxers
    PROVE  /\ d.m_state \in DemuxStates /\ d.m_packet_body \in BOOLEAN
           /\ d.m_length_decreasing \in BOOLEAN /\ d.m_packet_length \in Word
           /\ d.m_dts_present \in BOOLEAN /\ d.temp \in [Stamps -> Int]
           /\ d.m_scr \in Int /\ d.m_pts \in Int /\ d.m_dts \in Int
           /\ d.m_pts_updated \in BOOLEAN /\ d.m_dts_updated \in BOOLEAN
           /\ d.m_program_end \in BOOLEAN
BY DEF Demuxers, Stamps

LEMMA ByteIsNat ==
    ASSUME NEW data \in Byte PROVE data \in Nat
BY DEF Byte

LEMMA Countdown ==
    ASSUME NEW l \in Word PROVE (l + 65535) % 65536 \in Word
<1>1. MaxWord \in Nat /\ \A x \in Nat : x < 65536 => x <= MaxWord BY DEF MaxWord
<1>2. l \in Nat BY <1>1 DEF Word
<1>3. (l + 65535) % 65536 \in Nat /\ (l + 65535) % 65536 < 65536 BY <1>2
<1>4. (l + 65535) % 65536 <= MaxWord BY <1>1, <1>3
<1> QED BY <1>1, <1>3, <1>4 DEF Word

LEMMA LowByte ==
    ASSUME NEW l \in Word, NEW data \in Byte
    PROVE  ((l \div 256) * 256) + data \in Word
<1>1. MaxWord \in Nat /\ \A x \in Nat : x < 65536 <=> x <= MaxWord BY DEF MaxWord
<1>2. data \in Nat /\ data < 256 BY DEF Byte
<1>3. l \in Nat /\ l < 65536 BY <1>1 DEF Word
<1>4. l \div 256 \in Nat /\ l \div 256 < 256 BY <1>3
<1>5. ((l \div 256) * 256) + data \in Nat /\ ((l \div 256) * 256) + data < 65536
  BY <1>2, <1>4
<1> QED BY <1>1, <1>5 DEF Word

LEMMA HighByte ==
    ASSUME NEW l \in Word, NEW data \in Byte
    PROVE  (l % 256) + data * 256 \in Word
<1>1. MaxWord \in Nat /\ \A x \in Nat : x < 65536 <=> x <= MaxWord BY DEF MaxWord
<1>2. data \in Nat /\ data < 256 BY DEF Byte
<1>3. l \in Nat BY <1>1 DEF Word
<1>4. l % 256 \in Nat /\ l % 256 < 256 BY <1>3
<1>5. (l % 256) + data * 256 \in Nat /\ (l % 256) + data * 256 < 65536
  BY <1>2, <1>4
<1> QED BY <1>1, <1>5 DEF Word

LEMMA GoType ==
    ASSUME NEW d \in Demuxers, NEW state \in DemuxStates
    PROVE  Go(d, state) \in Demuxers
BY DEF Demuxers, Go

LEMMA PutType ==
    ASSUME NEW d \in Demuxers, NEW part, IsPart(part), NEW data \in Byte
    PROVE  PutStamp(d, part, data) \in Demuxers
<1> DEFINE v == IF part.above THEN data \div 2 ELSE data
           b == bits(d.temp[part.stamp], part.hi, part.lo, v)
<1>0. data \in Nat BY ByteIsNat
<1>1. v \in Int BY <1>0
<1>2. d.temp \in [Stamps -> Int] /\ part.stamp \in Stamps
  BY DemuxFields, Zenon DEF IsPart
<1>3. d.temp[part.stamp] \in Int BY <1>2
<1> HIDE DEF v
<1>4. b \in Int
  BY <1>1, <1>3, BitsAreInt, Zenon DEF IsPart
<1>5. PutStamp(d, part, data) = [d EXCEPT !.temp = [d.temp EXCEPT ![part.stamp] = b]]
  BY DEF PutStamp, v
<1> HIDE DEF b
<1>6. [d.temp EXCEPT ![part.stamp] = b] \in [Stamps -> Int] BY <1>2, <1>4
<1>7. \A t \in [Stamps -> Int] : [d EXCEPT !.temp = t] \in Demuxers
  BY DEF Demuxers, Stamps
<1> QED BY <1>5, <1>6, <1>7

LEMMA CountedType ==
    ASSUME NEW d \in Demuxers
    PROVE  Counted(d) \in Demuxers /\ Counted(d).m_state = d.m_state
<1> DEFINE l == IF d.m_length_decreasing THEN (d.m_packet_length + 65535) % 65536
                ELSE d.m_packet_length
           ends == d.m_length_decreasing /\ d.m_packet_length = 1
<1>0. d.m_packet_length \in Word BY DemuxFields, Zenon
<1>1. l \in Word BY <1>0, Countdown
<1>4. Counted(d) = [d EXCEPT !.m_length_decreasing = d.m_length_decreasing /\ ~ends,
                  !.m_packet_body = d.m_packet_body /\ ~ends,
                  !.m_packet_length = l,
                  !.m_pts_updated = FALSE, !.m_dts_updated = FALSE, !.m_program_end = FALSE]
  BY DEF Counted
<1>5. (d.m_length_decreasing /\ ~ends) \in BOOLEAN /\ (d.m_packet_body /\ ~ends) \in BOOLEAN
  OBVIOUS
<1> HIDE DEF l, ends
<1> QED BY <1>1, <1>4, <1>5, ZenonT(40) DEF Demuxers

LEMMA StateNames ==
    /\ {"IDLE", "MAGIC0", "MAGIC2", "MAGIC_MATCH", "PACK5", "PES0", "PES1", "PES2", "PES3",
        "PES8", "PES_DTS0"} \subseteq DemuxStates
    /\ {"PACK0", "PACK1", "PACK2", "PACK3", "PACK4", "PES4", "PES5", "PES6", "PES7",
        "PES_DTS1", "PES_DTS2", "PES_DTS3", "PES_DTS4"} \subseteq DemuxStates
    /\ DOMAIN Parts = {"PACK0", "PACK1", "PACK2", "PACK3", "PACK4", "PES4", "PES5", "PES6", "PES7",
        "PES_DTS1", "PES_DTS2", "PES_DTS3", "PES_DTS4"}
<1>1. DOMAIN Parts = {"PACK0", "PACK1", "PACK2", "PACK3", "PACK4", "PES4", "PES5", "PES6", "PES7",
        "PES_DTS1", "PES_DTS2", "PES_DTS3", "PES_DTS4"}
  BY DEF Parts
<1> QED BY <1>1 DEF DemuxStates

LEMMA PartsSound ==
    \A s \in DOMAIN Parts : IsPart(Parts[s]) /\ Parts[s].next \in DemuxStates
<1> DEFINE Ok(p) == IsPart(p) /\ p.next \in DemuxStates
<1>0. /\ {"IDLE", "MAGIC0", "MAGIC2", "MAGIC_MATCH", "PACK5", "PES0", "PES1", "PES2", "PES3",
        "PES8", "PES_DTS0"} \subseteq DemuxStates
      /\ {"PACK0", "PACK1", "PACK2", "PACK3", "PACK4", "PES4", "PES5", "PES6", "PES7",
        "PES_DTS1", "PES_DTS2", "PES_DTS3", "PES_DTS4"} \subseteq DemuxStates
  BY StateNames
<1>1. ASSUME NEW stamp \in Stamps, NEW hi, NEW lo, NEW above,
             NEW required, NEW next \in DemuxStates,
         \/ hi = 32 /\ lo = 30
         \/ hi = 29 /\ lo = 22
         \/ hi = 21 /\ lo = 15
         \/ hi = 14 /\ lo = 7
         \/ hi = 6 /\ lo = 0
      PROVE Ok(Part(stamp, hi, lo, above, required, next))
  BY <1>1 DEF IsPart, Part
<1> HIDE DEF Ok
<1>2. /\ Ok(Parts["PACK0"]) /\ Ok(Parts["PACK1"]) /\ Ok(Parts["PACK2"]) /\ Ok(Parts["PACK3"])
      /\ Ok(Parts["PACK4"])
  BY <1>0, <1>1 DEF Parts, Stamps
<1>3. /\ Ok(Parts["PES4"]) /\ Ok(Parts["PES5"]) /\ Ok(Parts["PES6"]) /\ Ok(Parts["PES7"])
  BY <1>0, <1>1 DEF Parts, Stamps
<1>4. /\ Ok(Parts["PES_DTS1"]) /\ Ok(Parts["PES_DTS2"]) /\ Ok(Parts["PES_DTS3"])
      /\ Ok(Parts["PES_DTS4"])
  BY <1>0, <1>1 DEF Parts, Stamps
<1>5. \A s \in DOMAIN Parts : Ok(Parts[s])
  BY <1>2, <1>3, <1>4, StateNames, Zenon
<1> QED BY <1>5 DEF Ok

LEMMA FirstPartType ==
    ASSUME NEW d \in Demuxers, NEW stamp \in Stamps, NEW data \in Byte, NEW next \in DemuxStates
    PROVE  FirstPart(d, stamp, data, next) \in Demuxers
<1>1. IsPart(Part(stamp, 32, 30, TRUE, FALSE, next)) BY DEF IsPart, Part
<1>2. PutStamp(d, Part(stamp, 32, 30, TRUE, FALSE, next), data) \in Demuxers
  BY <1>1, PutType
<1> QED BY <1>2, GoType, Zenon DEF FirstPart

LEMMA PacketFieldType ==
    ASSUME NEW d \in Demuxers, NEW data \in Byte
    PROVE  PacketField(d, data) \in Demuxers
<1>1. /\ "PES4" \in DemuxStates /\ "IDLE" \in DemuxStates /\ "PES3" \in DemuxStates
      /\ "PES2" \in DemuxStates /\ "pts" \in Stamps
  BY StateNames DEF Stamps
<1>2. \A x \in BOOLEAN : [d EXCEPT !.m_dts_present = x] \in Demuxers
  BY DEF Demuxers
<1>3. [Go(d, "IDLE") EXCEPT !.m_packet_body = TRUE] \in Demuxers
  <2>1. Go(d, "IDLE") \in Demuxers BY <1>1, GoType
  <2> QED BY <2>1 DEF Demuxers
<1>4. \A x \in BOOLEAN : FirstPart([d EXCEPT !.m_dts_present = x], "pts", data, "PES4") \in Demuxers
  BY <1>1, <1>2, FirstPartType
<1>5. Go(d, "PES3") \in Demuxers /\ Go(d, "PES2") \in Demuxers /\ Go(d, "IDLE") \in Demuxers
  BY <1>1, GoType
<1> QED BY <1>3, <1>4, <1>5 DEF PacketField

LEMMA MatchedType ==
    ASSUME NEW d \in Demuxers, NEW data, NEW class, NEW filter
    PROVE  Matched(d, data, class, filter) \in Demuxers
<1>1. /\ "PACK0" \in DemuxStates /\ "IDLE" \in DemuxStates /\ "PES0" \in DemuxStates
  BY StateNames
<1>2. [Go(d, "IDLE") EXCEPT !.m_program_end = TRUE] \in Demuxers
  <2>1. Go(d, "IDLE") \in Demuxers BY <1>1, GoType
  <2> QED BY <2>1 DEF Demuxers
<1>3. Go(d, "PACK0") \in Demuxers /\ Go(d, "PES0") \in Demuxers /\ Go(d, "IDLE") \in Demuxers
  BY <1>1, GoType
<1> QED BY <1>2, <1>3 DEF Matched

LEMMA GatherPartType ==
    ASSUME NEW d \in Demuxers, NEW data \in Byte, d.m_state \in DOMAIN Parts
    PROVE  GatherPart(d, data) \in Demuxers
<1> DEFINE part == Parts[d.m_state]
           put == PutStamp(d, part, data)
<1>1. IsPart(part) /\ part.next \in DemuxStates BY PartsSound
<1>2. put \in Demuxers BY <1>1, PutType
<1>3. "IDLE" \in DemuxStates /\ "PES_DTS0" \in DemuxStates BY StateNames
<1>4. GatherPart(d, data) =
        CASE part.required /\ data % 2 = 0 -> Go(d, "IDLE")
          [] ~(part.required /\ data % 2 = 0) /\ d.m_state = "PES7" /\ d.m_dts_present ->
                Go(put, "PES_DTS0")
          [] OTHER -> [Go(put, part.next) EXCEPT
                           !.m_packet_body = @ \/ part.next = "PES8"]
  BY DEF GatherPart
<1> HIDE DEF put, part
<1>5. [Go(put, part.next) EXCEPT !.m_packet_body = @ \/ part.next = "PES8"] \in Demuxers
  <2>1. Go(put, part.next) \in Demuxers BY <1>1, <1>2, GoType
  <2>2. (Go(put, part.next).m_packet_body \/ part.next = "PES8") \in BOOLEAN OBVIOUS
  <2> QED BY <2>1, <2>2 DEF Demuxers
<1>6. Go(d, "IDLE") \in Demuxers /\ Go(put, "PES_DTS0") \in Demuxers
  BY <1>2, <1>3, GoType
<1> QED BY <1>4, <1>5, <1>6

LEMMA SteppedType ==
    ASSUME NEW d \in Demuxers, NEW data \in Byte, NEW class, NEW filter
    PROVE  Stepped(d, data, class, filter) \in Demuxers
<1>0. d.m_state \in DemuxStates /\ d.temp \in [Stamps -> Int] /\ d.m_dts_present \in BOOLEAN
      /\ d.m_packet_length \in Word
  BY DemuxFields, Zenon
<1>1. /\ {"IDLE", "MAGIC0", "MAGIC2", "MAGIC_MATCH", "PACK5", "PES0", "PES1", "PES2", "PES3",
         "PES8", "PES_DTS0", "PES_DTS1"} \subseteq DemuxStates
  BY StateNames
<1>2. d.temp["scr"] \in Int /\ d.temp["pts"] \in Int /\ d.temp["dts"] \in Int
  BY <1>0 DEF Stamps
<1>3. \A s \in {"IDLE", "MAGIC0", "MAGIC2", "MAGIC_MATCH", "PES1", "PES2"} : Go(d, s) \in Demuxers
  BY <1>1, GoType
<1>4. CASE d.m_state = "PACK5"
  <2>1. [Go(d, "IDLE") EXCEPT !.m_scr = d.temp["scr"]] \in Demuxers
    BY <1>2, <1>3 DEF Demuxers
  <2> QED BY <1>4, <2>1 DEF Stepped
<1>5. CASE d.m_state = "PES8"
  <2> DEFINE dts == IF d.m_dts_present THEN d.temp["dts"] ELSE d.temp["pts"]
  <2>1. dts \in Int BY <1>2
  <2>2. Stepped(d, data, class, filter) =
           [Go(d, "IDLE") EXCEPT !.m_pts = d.temp["pts"], !.m_pts_updated = TRUE,
                                 !.m_dts = dts, !.m_dts_updated = TRUE]
    BY <1>5 DEF Stepped
  <2> HIDE DEF dts
  <2> QED BY <1>2, <1>3, <2>1, <2>2 DEF Demuxers
<1>6. CASE d.m_state = "PES_DTS0"
  <2>1. "dts" \in Stamps /\ "PES_DTS1" \in DemuxStates BY <1>1 DEF Stamps
  <2>2. FirstPart(d, "dts", data, "PES_DTS1") \in Demuxers BY <2>1, FirstPartType
  <2> QED BY <1>3, <1>6, <2>2 DEF Stepped
<1>7. CASE d.m_state = "PES2"
  BY <1>7, PacketFieldType DEF Stepped
<1>8. CASE d.m_state = "PES3"
  BY <1>3, <1>8 DEF Stepped
<1>9. ASSUME NEW l \in Word, NEW x \in BOOLEAN, NEW s \in {"PES1", "PES2"}
      PROVE  [Go(d, s) EXCEPT !.m_packet_length = l, !.m_length_decreasing = x] \in Demuxers
  BY <1>3, ZenonT(40) DEF Demuxers
<1>10. CASE d.m_state = "PES1"
  <2> DEFINE l == ((d.m_packet_length \div 256) * 256) + data
  <2>1. l \in Word BY <1>0, LowByte
  <2>2. Stepped(d, data, class, filter) =
          [Go(d, "PES2") EXCEPT !.m_packet_length = l, !.m_length_decreasing = TRUE]
    BY <1>10 DEF Stepped, Go
  <2> HIDE DEF l
  <2> QED BY <1>9, <2>1, <2>2
<1>11. CASE d.m_state = "PES0"
  <2> DEFINE l == (d.m_packet_length % 256) + data * 256
  <2>1. l \in Word BY <1>0, HighByte
  <2>2. Stepped(d, data, class, filter) = [Go(d, "PES1") EXCEPT !.m_packet_length = l]
    BY <1>11 DEF Stepped, Go
  <2> HIDE DEF l
  <2> QED BY <1>3, <2>1, <2>2 DEF Demuxers
<1>12. CASE d.m_state = "MAGIC_MATCH"
  BY <1>12, MatchedType DEF Stepped
<1>13. CASE d.m_state = "MAGIC2"
  BY <1>3, <1>13 DEF Stepped
<1>14. CASE d.m_state = "MAGIC0"
  BY <1>3, <1>14 DEF Stepped
<1>15. CASE d.m_state = "IDLE"
  BY <1>3, <1>15 DEF Stepped
<1>16. CASE d.m_state \notin {"IDLE", "MAGIC0", "MAGIC2", "MAGIC_MATCH", "PACK5", "PES0", "PES1",
                            "PES2", "PES3", "PES8", "PES_DTS0"}
  <2>1. d.m_state \in DOMAIN Parts BY <1>0, <1>16 DEF DemuxStates
  <2>2. Stepped(d, data, class, filter) = GatherPart(d, data) BY <1>16 DEF Stepped
  <2> QED BY <2>1, <2>2, GatherPartType
<1> QED BY <1>4, <1>5, <1>6, <1>7, <1>8, <1>10, <1>11, <1>12, <1>13, <1>14, <1>15, <1>16

LEMMA FeedType ==
    ASSUME NEW d \in Demuxers, NEW data \in Byte, NEW class, NEW filter
    PROVE  feed(d, data, class, filter) \in Demuxers
BY CountedType, SteppedType, Zenon DEF feed

LEMMA ResetType == demux_reset \in Demuxers
<1>1. "IDLE" \in DemuxStates /\ 0 \in Word BY StateNames DEF Word, MaxWord
<1> QED BY <1>1 DEF demux_reset, Demuxers
\* The order of the natural numbers.
Before == {ss \in Nat \X Nat : ss[1] < ss[2]}

\* A set of natural numbers that is not empty has a least element.
LEMMA Least ==
    ASSUME NEW T, T \subseteq Nat, T # {}
    PROVE  \E x \in T : \A y \in T : x <= y
<1>1. IsWellFoundedOn(Before, Nat)
  BY NatLessThanWellFounded DEF OpToRel, Before
<1>2. \E x \in T : \A y \in T : ~ (<<y, x>> \in Before)
  BY <1>1, WFMin, Zenon
<1>3. PICK x \in T : \A y \in T : ~ (<<y, x>> \in Before)
  BY <1>2, Zenon
<1>4. ASSUME NEW y \in T
      PROVE  x <= y
  <2>1. y \in Nat /\ x \in Nat
    OBVIOUS
  <2>2. <<y, x>> \in Nat \X Nat /\ <<y, x>>[1] = y /\ <<y, x>>[2] = x
    BY <2>1
  <2>3. ~(y < x)
    BY <1>3, <2>2, Zenon DEF Before
  <2> QED
    BY <2>1, <2>3
<1> QED
  BY <1>4

\* Values 0 .. n of the recursion that starts with x and goes on with step.
Begins(f, n, S, x, step) ==
    /\ f \in [0 .. n -> S] /\ f[0] = x
    /\ \A k \in 0 .. n : k > 0 => f[k] = step[k - 1][f[k - 1]]

\* They exist, for any n.
LEMMA BeginsExists ==
    ASSUME NEW S, NEW x \in S, NEW step \in [Nat -> [S -> S]], NEW n \in Nat
    PROVE  \E f : Begins(f, n, S, x, step)
<1> DEFINE T == {i \in Nat : ~\E f : Begins(f, i, S, x, step)}
<1> SUFFICES ASSUME T # {} PROVE FALSE OBVIOUS
<1>1. PICK i \in T : \A j \in T : i <= j
  <2>1. T \subseteq Nat OBVIOUS
  <2> HIDE DEF T
  <2> QED BY <2>1, Least
<1>2. i # 0
  <2>1. Begins([j \in 0 .. 0 |-> x], 0, S, x, step) BY DEF Begins
  <2> QED BY <2>1
<1>3. i - 1 \in Nat /\ i - 1 \notin T
  <2>1. i \in Nat /\ i - 1 \in Nat /\ ~(i <= i - 1) BY <1>2
  <2> HIDE DEF T
  <2> QED BY <1>1, <2>1
<1>4. PICK f : Begins(f, i - 1, S, x, step) BY <1>3
<1> DEFINE g == [j \in 0 .. i |-> IF j = i THEN step[i - 1][f[i - 1]] ELSE f[j]]
<1>5. Begins(g, i, S, x, step)
  <2>1. f \in [0 .. i - 1 -> S] /\ i - 1 \in 0 .. i - 1 BY <1>3, <1>4 DEF Begins
  <2>2. step[i - 1][f[i - 1]] \in S BY <1>3, <2>1
  <2>3. \A j \in 0 .. i : j # i => j \in 0 .. i - 1 BY <1>3
  <2>4. g \in [0 .. i -> S] BY <2>1, <2>2, <2>3
  <2>5. g[0] = x BY <1>2, <1>4 DEF Begins
  <2>6. ASSUME NEW j \in 0 .. i, j > 0 PROVE g[j] = step[j - 1][g[j - 1]]
    <3>1. j - 1 \in 0 .. i /\ j - 1 # i /\ g[j - 1] = f[j - 1] BY <2>6
    <3>2. CASE j = i BY <3>1, <3>2
    <3>3. CASE j # i
      <4>1. g[j] = f[j] /\ j \in 0 .. i - 1 BY <2>3, <3>3
      <4>2. f[j] = step[j - 1][f[j - 1]] BY <1>4, <2>6, <4>1 DEF Begins
      <4> QED BY <3>1, <4>1, <4>2
    <3> QED BY <3>2, <3>3
  <2> HIDE DEF g
  <2> QED BY <2>4, <2>5, <2>6 DEF Begins
<1> QED BY <1>5


\* What the feeding of bytes works on.
Fields == [demux : Demuxers, audio : Audios, fma : AudioUnits]

\* The read position is in the buffer, the scan position a byte behind it or further on.
Sound(a) ==
    /\ a \in Audios
    /\ a.read <= Len(a.buffer) /\ a.read <= a.bit + 1 /\ a.bit <= Len(a.buffer)

\* b is a with drop bytes moved out and others added.
Fills(a, b, drop) ==
    /\ drop \in {0, a.read} /\ b.underflow = a.underflow
    /\ b.read = a.read - drop /\ b.bit = a.bit - drop
    /\ Len(a.buffer) <= Len(b.buffer) + drop

\* The same when the byte data is at their end.
Takes(a, b, data) ==
    \E drop \in Nat :
        /\ Fills(a, b, drop) /\ Len(b.buffer) = Len(a.buffer) - drop + 1
        /\ b.buffer[Len(b.buffer)] = data
        /\ \A i \in 1..(Len(b.buffer) - 1) : b.buffer[i] = a.buffer[drop + i]

\* The parts of a decoder.
LEMMA AudioFields ==
    ASSUME NEW a \in Audios
    PROVE  /\ a.buffer \in Seq(Byte) /\ Len(a.buffer) \in Nat /\ a.read \in Nat /\ a.bit \in Int
           /\ a.underflow \in BOOLEAN /\ DOMAIN a.buffer = 1..Len(a.buffer)
<1>1. a.buffer \in Seq(Byte) /\ a.read \in Nat /\ a.bit \in Int /\ a.underflow \in BOOLEAN
  BY DEF Audios
<1> DEFINE B == Byte
           s == a.buffer
<1>2. s \in Seq(B) BY <1>1
<1> HIDE DEF B, s
<1>3. Len(s) \in Nat /\ DOMAIN s = 1..Len(s) BY <1>2
<1> QED BY <1>1, <1>3 DEF s

\* The bytes behind the first n.
LEMMA Behind ==
    ASSUME NEW S, NEW s \in Seq(S), NEW n \in 0..Len(s)
    PROVE  /\ SubSeq(s, n + 1, Len(s)) \in Seq(S) /\ Len(SubSeq(s, n + 1, Len(s))) = Len(s) - n
           /\ \A i \in 1..(Len(s) - n) : SubSeq(s, n + 1, Len(s))[i] = s[n + i]
OBVIOUS

LEMMA Appended ==
    ASSUME NEW S, NEW s \in Seq(S), NEW x \in S
    PROVE  /\ Append(s, x) \in Seq(S) /\ Len(Append(s, x)) = Len(s) + 1
           /\ Append(s, x)[Len(s) + 1] = x
           /\ \A i \in 1..Len(s) : Append(s, x)[i] = s[i]
OBVIOUS

\* What moving bytes out of the buffer leaves.
LEMMA ErasedIs ==
    ASSUME NEW a \in Audios, NEW n \in Nat, n <= a.read, a.read <= Len(a.buffer)
    PROVE  LET b == Erased(a, n)
           IN  /\ b \in Audios /\ b.read = a.read - n /\ b.bit = a.bit - n
               /\ b.underflow = a.underflow
               /\ Len(b.buffer) = Len(a.buffer) - n
               /\ \A i \in 1..Len(b.buffer) : b.buffer[i] = a.buffer[n + i]
<1> DEFINE s == a.buffer
           t == SubSeq(s, n + 1, Len(s))
           b == Erased(a, n)
<1>1. s \in Seq(Byte) /\ Len(s) \in Nat /\ a.read \in Nat
      /\ a.bit \in Int /\ a.underflow \in BOOLEAN
  BY AudioFields
<1>2. n \in 0..Len(s) BY <1>1
<1>3. b = [a EXCEPT !.buffer = t, !.bit = a.bit - n, !.read = a.read - n]
  BY DEF Erased
<1> HIDE DEF s
<1>4. /\ t \in Seq(Byte) /\ Len(t) = Len(s) - n
      /\ \A i \in 1..(Len(s) - n) : t[i] = s[n + i]
  BY <1>1, <1>2, Behind
<1>5. a.read - n \in Nat /\ a.bit - n \in Int BY <1>1
<1> HIDE DEF t, b
<1>6. /\ b \in Audios /\ b.buffer = t /\ b.read = a.read - n /\ b.bit = a.bit - n
      /\ b.underflow = a.underflow
  BY <1>3, <1>4, <1>5 DEF Audios
<1>7. \A i \in 1..Len(b.buffer) : b.buffer[i] = a.buffer[n + i]
  BY <1>4, <1>6 DEF s
<1> QED BY <1>4, <1>6, <1>7 DEF b, s

\* A byte goes to the end of the buffer, from whose front bytes may go that were read.
LEMMA Written ==
    ASSUME NEW a, Sound(a), NEW data \in Byte
    PROVE  Sound(write(a, data)) /\ Takes(a, write(a, data), data)
<1> DEFINE b == write(a, data)
           fits == buffered_bytes(a) + 1 <= BufferLimit
           drop == IF fits THEN 0 ELSE a.read
           room == IF fits THEN a ELSE Erased(a, a.read)
           s == room.buffer
<1>1. /\ a \in Audios /\ a.read <= Len(a.buffer) /\ a.read <= a.bit + 1 /\ a.bit <= Len(a.buffer)
      /\ Len(a.buffer) \in Nat /\ a.read \in Nat /\ a.bit \in Int
  BY AudioFields DEF Sound
<1>2. drop \in Nat /\ drop \in {0, a.read} /\ drop <= a.read BY <1>1
<1>3. /\ room \in Audios /\ room.read = a.read - drop /\ room.bit = a.bit - drop
      /\ room.underflow = a.underflow /\ Len(s) = Len(a.buffer) - drop
      /\ \A i \in 1..Len(s) : s[i] = a.buffer[drop + i]
  <2>1. CASE fits
    <3>1. room = a /\ drop = 0 BY <2>1
    <3>2. \A i \in 1..Len(a.buffer) : a.buffer[i] = a.buffer[0 + i] OBVIOUS
    <3> QED BY <1>1, <3>1, <3>2
  <2>2. CASE ~fits
    <3>1. room = Erased(a, a.read) /\ drop = a.read BY <2>2
    <3> HIDE DEF room, drop
    <3>2. \A n \in Nat : n <= a.read =>
             /\ Erased(a, n) \in Audios /\ Erased(a, n).read = a.read - n
             /\ Erased(a, n).bit = a.bit - n /\ Erased(a, n).underflow = a.underflow
             /\ Len(Erased(a, n).buffer) = Len(a.buffer) - n
             /\ \A i \in 1..Len(Erased(a, n).buffer) : Erased(a, n).buffer[i] = a.buffer[n + i]
      BY <1>1, ErasedIs, Zenon
    <3>3. a.read \in Nat /\ a.read <= a.read BY <1>1
    <3>4. /\ room \in Audios /\ room.read = a.read - drop /\ room.bit = a.bit - drop
          /\ room.underflow = a.underflow
          /\ Len(room.buffer) = Len(a.buffer) - drop
          /\ \A i \in 1..Len(room.buffer) : room.buffer[i] = a.buffer[drop + i]
      BY <3>1, <3>2, <3>3, Zenon
    <3> QED BY <3>4
  <2> QED BY <2>1, <2>2
<1>4. b = [room EXCEPT !.buffer = Append(s, data)] BY DEF write
<1> HIDE DEF drop, fits, room
<1>5. s \in Seq(Byte) /\ Len(s) \in Nat BY <1>3, AudioFields
<1> DEFINE t == Append(s, data)
<1> HIDE DEF s
<1>6. /\ t \in Seq(Byte) /\ Len(t) = Len(s) + 1 /\ t[Len(s) + 1] = data
      /\ \A i \in 1..Len(s) : t[i] = s[i]
  BY <1>5, Appended
<1> HIDE DEF t, b
<1>7. /\ b \in Audios /\ b.buffer = t /\ b.read = room.read /\ b.bit = room.bit
      /\ b.underflow = room.underflow
  BY <1>3, <1>4, <1>6 DEF Audios, t
<1>8. Sound(b)
  <2>1. /\ b.read = a.read - drop /\ b.bit = a.bit - drop
        /\ Len(b.buffer) = Len(a.buffer) - drop + 1
    BY <1>3, <1>6, <1>7 DEF s
  <2> DEFINE la == Len(a.buffer)
             lb == Len(b.buffer)
  <2>2. b.read <= lb /\ b.read <= b.bit + 1 /\ b.bit <= lb
    <3>1. la \in Nat /\ lb = la - drop + 1 BY <1>1, <2>1
    <3> HIDE DEF la, lb
    <3>2. a.read <= la /\ a.bit <= la BY <1>1 DEF la
    <3> QED BY <1>1, <1>2, <2>1, <3>1, <3>2
  <2> QED BY <1>7, <2>2 DEF Sound
<1>9. Fills(a, b, drop) /\ Len(b.buffer) = Len(a.buffer) - drop + 1
  BY <1>1, <1>2, <1>3, <1>5, <1>6, <1>7 DEF Fills
<1>10. b.buffer[Len(b.buffer)] = data BY <1>6, <1>7
<1>11. \A i \in 1..(Len(b.buffer) - 1) : b.buffer[i] = a.buffer[drop + i]
  <2>1. Len(b.buffer) - 1 = Len(s) BY <1>5, <1>6, <1>7
  <2> QED BY <2>1, <1>3, <1>6, <1>7 DEF s
<1> QED BY <1>2, <1>8, <1>9, <1>10, <1>11 DEF b, Takes

\* The constants that typing needs, one name each.
LEMMA DiscFields ==
    ASSUME NEW d \in Discs, NEW n \in Streams
    PROVE  /\ d.bytes \in Seq(Byte) /\ Len(d.bytes) \in Nat
           /\ \A k \in 1..Len(d.bytes) : d.bytes[k] \in Byte
           /\ d.payload[n] \in Seq(1..Len(d.bytes)) /\ Len(d.payload[n]) \in Nat
           /\ DOMAIN d.payload[n] = 1..Len(d.payload[n])
           /\ \A i \in 1..Len(d.payload[n]) : d.payload[n][i] \in 1..Len(d.bytes)
           /\ d.frames[n] \in Seq(Nat)
<1> DEFINE B == Byte
           s == d.bytes
           p == d.payload[n]
           P == 1..Len(s)
<1>1. s \in Seq(B) /\ p \in Seq(P) /\ d.frames[n] \in Seq(Nat)
  BY DvcAudioConstants
<1> HIDE DEF B, s, p, P
<1>2. Len(s) \in Nat /\ \A k \in 1..Len(s) : s[k] \in B BY <1>1
<1>3. Len(p) \in Nat /\ DOMAIN p = 1..Len(p) /\ \A i \in 1..Len(p) : p[i] \in P BY <1>1
<1> QED BY <1>1, <1>2, <1>3 DEF B, s, p, P

\* The uncut demultiplexer is in one state after each byte, that before it fed with the byte.
Feeds(f, d, n) ==
    /\ f \in [0..Len(d.bytes) -> Demuxers] /\ f[0] = demux_reset
    /\ \A k \in 1..Len(d.bytes) : f[k] = feed(f[k - 1], d.bytes[k], AudioClass, n)
LEMMA UncutFeeds ==
    ASSUME NEW d \in Discs, NEW n \in Streams
    PROVE  \E f : Feeds(f, d, n) /\ \A k \in 0..Len(d.bytes) : Uncut(d, n)[k] = {f[k]}
<1> DEFINE L == Len(d.bytes)
           Byte1(k) == IF k < L THEN d.bytes[k + 1] ELSE 0
           step == [k \in Nat |-> [u \in Demuxers |-> feed(u, Byte1(k), AudioClass, n)]]
           Grown(g) == [k \in 0..L |-> IF k = 0 THEN {demux_reset}
                            ELSE {feed(u, d.bytes[k], AudioClass, n) : u \in g[k - 1]}]
<1>1. L \in Nat /\ \A k \in 1..L : d.bytes[k] \in Byte BY DiscFields
<1>2. \A k \in Nat : Byte1(k) \in Byte
  <2>1. 0 \in Byte BY DEF Byte
  <2>2. \A k \in Nat : k < L => k + 1 \in 1..L BY <1>1
  <2> HIDE DEF L
  <2> QED BY <1>1, <2>1, <2>2
<1> HIDE DEF Byte1
<1>3. step \in [Nat -> [Demuxers -> Demuxers]] BY <1>2, FeedType
<1>4. \E f : Begins(f, L, Demuxers, demux_reset, step)
  BY <1>1, <1>3, ResetType, BeginsExists, Zenon
<1>5. PICK f : Begins(f, L, Demuxers, demux_reset, step) BY <1>4
<1>6. f \in [0..L -> Demuxers] /\ f[0] = demux_reset BY <1>5 DEF Begins
<1>7. \A k \in 1..L : f[k] = feed(f[k - 1], d.bytes[k], AudioClass, n)
  <2> TAKE k \in 1..L
  <2>1. k \in 0..L /\ k > 0 /\ k - 1 \in 0..L /\ k - 1 \in Nat /\ k - 1 < L /\ (k - 1) + 1 = k
    BY <1>1
  <2>2. f[k] = step[k - 1][f[k - 1]] BY <1>5, <2>1 DEF Begins
  <2>3. f[k - 1] \in Demuxers BY <1>6, <2>1
  <2>4. Byte1(k - 1) = d.bytes[k] BY <2>1 DEF Byte1
  <2> QED BY <2>1, <2>2, <2>3, <2>4
<1> HIDE DEF step
<1>8. Feeds(f, d, n) BY <1>6, <1>7 DEF Feeds
<1> DEFINE F == [k \in 0..L |-> {f[k]}]
<1>9. F = Grown(F)
  <2>1. ASSUME NEW k \in 0..L
        PROVE  F[k] = Grown(F)[k]
    <3>1. CASE k = 0 BY <1>6, <3>1
    <3>2. CASE k # 0
      <4>1. k \in 1..L /\ k - 1 \in 0..L BY <1>1, <3>2
      <4>2. F[k - 1] = {f[k - 1]} /\ F[k] = {f[k]} BY <4>1
      <4>3. Grown(F)[k] = {feed(u, d.bytes[k], AudioClass, n) : u \in F[k - 1]} BY <3>2
      <4>4. f[k] = feed(f[k - 1], d.bytes[k], AudioClass, n) BY <1>7, <4>1
      <4> HIDE DEF F
      <4> QED BY <4>2, <4>3, <4>4, ZenonT(40)
    <3> QED BY <3>1, <3>2
  <2> QED BY <2>1
<1> DEFINE G == Uncut(d, n)
<1>10. G = CHOOSE g : g = Grown(g) BY Zenon DEF Uncut
<1> HIDE DEF F
<1>11. G = Grown(G) BY <1>9, <1>10, Zenon
<1> HIDE DEF G
<1>12. /\ G[0] = {demux_reset}
       /\ \A k \in 1..L : G[k] = {feed(u, d.bytes[k], AudioClass, n) : u \in G[k - 1]}
  <2>1. 0 \in 0..L /\ \A k \in 1..L : k \in 0..L /\ k # 0 BY <1>1
  <2>2. \A k \in 0..L : G[k] = IF k = 0 THEN {demux_reset}
                            ELSE {feed(u, d.bytes[k], AudioClass, n) : u \in G[k - 1]}
    BY <1>11
  <2> QED BY <2>1, <2>2
<1> DEFINE T == {k \in 0..L : G[k] # {f[k]}}
<1>13. T = {}
  <2> SUFFICES ASSUME T # {} PROVE FALSE OBVIOUS
  <2>1. T \subseteq Nat BY <1>1
  <2> HIDE DEF T
  <2>2. PICK k \in T : \A j \in T : k <= j BY <2>1, Least
  <2>3. k \in 0..L /\ G[k] # {f[k]} BY DEF T
  <2>4. k # 0 BY <1>6, <1>12, <2>3
  <2>5. k \in 1..L /\ k - 1 \in 0..L /\ ~(k <= k - 1) BY <1>1, <2>3, <2>4
  <2>6. G[k - 1] = {f[k - 1]} BY <2>2, <2>5 DEF T
  <2>7. f[k] = feed(f[k - 1], d.bytes[k], AudioClass, n) BY <1>7, <2>5
  <2>8. G[k] = {feed(u, d.bytes[k], AudioClass, n) : u \in G[k - 1]} BY <1>12, <2>5
  <2> QED BY <2>3, <2>6, <2>7, <2>8
<1>14. \A k \in 0..L : Uncut(d, n)[k] = {f[k]} BY <1>13 DEF G
<1> QED BY <1>8, <1>14

\* Drop bytes were moved out from a to b, and others added.
Moved(a, b, drop) ==
    /\ drop <= a.read /\ b.read = a.read - drop /\ b.bit = a.bit - drop
    /\ b.underflow = a.underflow /\ Len(a.buffer) <= Len(b.buffer) + drop

\* A transfer changes no more of the registers than the start of playback.
SameUnit(f, g) ==
    /\ g.stream = f.stream /\ g.unf = f.unf /\ g.decoding = f.decoding
    /\ g.dsp_enable = f.dsp_enable /\ g.since = f.since /\ g.dclk = f.dclk
    /\ f.dsp_enable => g.start_valid = f.start_valid /\ g.start_in = f.start_in

SoundUnits == {u \in Fields : Sound(u.audio)}
Carried(u, v) ==
    /\ v \in SoundUnits /\ SameUnit(u.fma, v.fma)
    /\ \E drop \in Nat : Moved(u.audio, v.audio, drop)

\* The bytes of stream n before place at, behind the first base of them, are the buffer.
Holds(d, n, at, base, buffer) ==
    LET p == d.payload[n]
    IN  /\ base + Len(buffer) <= Len(p)
        /\ \A i \in 1..Len(p) : p[i] < at <=> i <= base + Len(buffer)
        /\ \A i \in 1..Len(buffer) : buffer[i] = d.bytes[p[base + i]]

\* The unit is where the first bytes of the disc, given in one go, lead.
Tracks(d, n, at, base, u) ==
    Uncut(d, n)[at - 1] = {u.demux} /\ Holds(d, n, at, base, u.audio.buffer)

LEMMA NotedType ==
    ASSUME NEW f \in AudioUnits, NEW demux \in Demuxers
    PROVE  Noted(f, demux) \in AudioUnits /\ SameUnit(f, Noted(f, demux))
<1>1. demux.m_pts \in Int /\ demux.m_scr \in Int BY DemuxFields, Zenon
<1> DEFINE i == (demux.m_pts \div 2) - (demux.m_scr \div 2)
<1>2. i \in Int BY <1>1
<1>3. Noted(f, demux) = IF demux.m_pts_updated /\ ~f.start_valid /\ ~f.dsp_enable
                        THEN [f EXCEPT !.start_valid = TRUE, !.start_in = i] ELSE f
  BY DEF Noted
<1> HIDE DEF i
<1>4. [f EXCEPT !.start_valid = TRUE, !.start_in = i] \in AudioUnits BY <1>2 DEF AudioUnits
<1>5. ~f.dsp_enable => SameUnit(f, [f EXCEPT !.start_valid = TRUE, !.start_in = i])
  BY DEF AudioUnits, SameUnit
<1>6. SameUnit(f, f) BY DEF SameUnit
<1> QED BY <1>3, <1>4, <1>5, <1>6

LEMMA CarriedSelf ==
    ASSUME NEW u \in SoundUnits
    PROVE  Carried(u, u)
<1>1. SameUnit(u.fma, u.fma) BY DEF SameUnit
<1>2. u.audio \in Audios BY DEF SoundUnits, Fields
<1> DEFINE a == u.audio
<1>3. Len(a.buffer) \in Nat /\ a.read \in Nat /\ a.bit \in Int BY <1>2, AudioFields
<1>4. Moved(a, a, 0) BY <1>3 DEF Moved
<1> QED BY <1>1, <1>4 DEF Carried

LEMMA CarriedOn ==
    ASSUME NEW u \in SoundUnits, NEW v, NEW w, Carried(u, v), Carried(v, w)
    PROVE  Carried(u, w)
<1>1. SameUnit(u.fma, w.fma) BY DEF Carried, SameUnit
<1> DEFINE a == u.audio
           b == v.audio
           c == w.audio
<1>2. v \in SoundUnits /\ w \in SoundUnits BY DEF Carried
<1>3. a \in Audios /\ b \in Audios /\ c \in Audios BY <1>2 DEF SoundUnits, Fields
<1>4. PICK m \in Nat : Moved(a, b, m) BY DEF Carried
<1>5. PICK n \in Nat : Moved(b, c, n) BY DEF Carried
<1> HIDE DEF a, b, c
<1>6. /\ Len(a.buffer) \in Nat /\ a.read \in Nat /\ a.bit \in Int
      /\ Len(b.buffer) \in Nat /\ b.read \in Nat /\ b.bit \in Int
      /\ Len(c.buffer) \in Nat /\ c.read \in Nat /\ c.bit \in Int
  BY <1>3, AudioFields
<1>7. Moved(a, c, m + n)
  <2>1. m <= a.read /\ b.read = a.read - m /\ b.bit = a.bit - m
        /\ Len(a.buffer) <= Len(b.buffer) + m
    BY <1>4 DEF Moved
  <2>2. n <= b.read /\ c.read = b.read - n /\ c.bit = b.bit - n
        /\ Len(b.buffer) <= Len(c.buffer) + n
    BY <1>5 DEF Moved
  <2>3. c.underflow = a.underflow BY <1>4, <1>5 DEF Moved
  <2> DEFINE la == Len(a.buffer)
             lb == Len(b.buffer)
             lc == Len(c.buffer)
             r == a.read
             i == a.bit
  <2>6. la \in Nat /\ lb \in Nat /\ lc \in Nat /\ r \in Nat /\ i \in Int BY <1>6
  <2>7. la <= lb + m /\ lb <= lc + n /\ m <= r /\ n <= r - m
        /\ c.read = r - m - n /\ c.bit = i - m - n
    BY <2>1, <2>2
  <2> HIDE DEF la, lb, lc, r, i
  <2>8. la <= lc + (m + n) /\ m + n <= r /\ c.read = r - (m + n) /\ c.bit = i - (m + n)
    BY <2>6, <2>7
  <2>4. Len(a.buffer) <= Len(c.buffer) + (m + n) BY <2>8 DEF la, lc
  <2>5. m + n <= a.read /\ c.read = a.read - (m + n) /\ c.bit = a.bit - (m + n)
    BY <2>8 DEF r, i
  <2> QED BY <2>3, <2>4, <2>5 DEF Moved
<1>8. m + n \in Nat OBVIOUS
<1> QED BY <1>1, <1>2, <1>7, <1>8 DEF Carried, a, b, c

LEMMA FeedByteCarries ==
    ASSUME NEW u \in SoundUnits, NEW data \in Byte
    PROVE  Carried(u, feed_byte(u, data))
<1> DEFINE demux == feed(u.demux, data, AudioClass, u.fma.stream)
           audio == IF is_body(u.demux) THEN write(u.audio, data) ELSE u.audio
           fma1 == Noted(u.fma, demux)
           v == feed_byte(u, data)
<1>1. /\ u.demux \in Demuxers /\ u.audio \in Audios /\ u.fma \in AudioUnits /\ Sound(u.audio)
  BY DEF SoundUnits, Fields
<1>2. demux \in Demuxers BY <1>1, FeedType, Zenon
<1> HIDE DEF demux
<1>3. fma1 \in AudioUnits /\ SameUnit(u.fma, fma1) BY <1>1, <1>2, NotedType
<1>4. Sound(audio) /\ \E drop \in Nat : Moved(u.audio, audio, drop)
  <2>1. CASE ~is_body(u.demux)
    <3>1. \E drop \in Nat : Moved(u.audio, u.audio, drop) BY CarriedSelf DEF Carried
    <3> QED BY <1>1, <2>1, <3>1
  <2>2. CASE is_body(u.demux)
    <3>1. audio = write(u.audio, data) BY <2>2
    <3> HIDE DEF audio
    <3> DEFINE a == u.audio
    <3>2. Sound(a) /\ a.read \in Nat BY <1>1, AudioFields
    <3> HIDE DEF a
    <3>3. Sound(write(a, data)) /\ \E drop \in Nat : Fills(a, write(a, data), drop)
      BY <3>2, Written DEF Takes
    <3>4. \A b : \A drop \in Nat : Fills(a, b, drop) => Moved(a, b, drop)
      BY <3>2 DEF Fills, Moved
    <3> QED BY <3>1, <3>3, <3>4 DEF a
  <2> QED BY <2>1, <2>2
<1>5. v = [demux |-> demux, audio |-> audio, fma |-> fma1] BY DEF feed_byte, demux
<1> HIDE DEF v, audio, fma1
<1>6. v \in Fields BY <1>2, <1>3, <1>4, <1>5 DEF Fields, Sound
<1> QED BY <1>3, <1>4, <1>5, <1>6 DEF Carried, SoundUnits, v

\* The places of a stream are those the uncut demultiplexer takes.
LEMMA PlacesTaken ==
    ASSUME NEW d \in Discs, NEW n \in Streams, NEW u, NEW k \in 1..Len(d.bytes),
           Uncut(d, n)[k - 1] = {u}
    PROVE  /\ is_body(u) => \E j \in 1..Len(d.payload[n]) : d.payload[n][j] = k
           /\ ~is_body(u) => \A j \in 1..Len(d.payload[n]) : d.payload[n][j] # k
<1> DEFINE p == d.payload[n]
<1>1. DOMAIN p = 1..Len(p) BY DiscFields
<1>2. {p[i] : i \in DOMAIN p} =
         {j \in 1..Len(d.bytes) : \A w \in Uncut(d, n)[j - 1] : is_body(w)}
  BY PayloadAssumption
<1> HIDE DEF p
<1>3. k \in {p[i] : i \in DOMAIN p} <=> is_body(u) BY <1>2
<1> QED BY <1>1, <1>3 DEF p

LEMMA PlacesGrow ==
    ASSUME NEW d \in Discs, NEW n \in Streams,
           NEW i \in 1..Len(d.payload[n]), NEW j \in 1..Len(d.payload[n])
    PROVE  i < j <=> d.payload[n][i] < d.payload[n][j]
<1> DEFINE p == d.payload[n]
           l == Len(p)
<1>1. DOMAIN p = 1..l /\ l \in Nat /\ \A k \in 1..l : p[k] \in Nat BY DiscFields
<1>2. \A k, m \in 1..l : k < m => p[k] < p[m] BY <1>1, PayloadAssumption
<1>3. i \in 1..l /\ j \in 1..l OBVIOUS
<1> HIDE DEF p, l
<1> QED BY <1>1, <1>2, <1>3 DEF p

\* A byte that is not taken.
LEMMA HoldsPassed ==
    ASSUME NEW d \in Discs, NEW n \in Streams, NEW at \in 1..Len(d.bytes), NEW base \in Nat,
           NEW buffer, Holds(d, n, at, base, buffer),
           \A j \in 1..Len(d.payload[n]) : d.payload[n][j] # at
    PROVE  Holds(d, n, at + 1, base, buffer)
<1> DEFINE p == d.payload[n]
<1>1. \A i \in 1..Len(p) : p[i] \in Nat /\ p[i] # at BY DiscFields
<1>2. \A i \in 1..Len(p) : p[i] < at + 1 <=> p[i] < at
  <2> TAKE i \in 1..Len(p)
  <2> DEFINE x == p[i]
  <2>1. x \in Nat /\ x # at BY <1>1
  <2>2. at \in Nat BY DiscFields
  <2> HIDE DEF x, p
  <2>3. x < at + 1 <=> x < at BY <2>1, <2>2
  <2> QED BY <2>3 DEF x
<1> QED BY <1>2 DEF Holds

\* A byte that is taken.
LEMMA HoldsTaken ==
    ASSUME NEW d \in Discs, NEW n \in Streams, NEW at \in 1..Len(d.bytes), NEW base \in Nat,
           NEW b \in Seq(Byte), NEW c \in Seq(Byte), NEW drop \in 0..Len(b),
           Holds(d, n, at, base, b),
           \E j \in 1..Len(d.payload[n]) : d.payload[n][j] = at,
           Len(c) = Len(b) - drop + 1, c[Len(c)] = d.bytes[at],
           \A i \in 1..(Len(c) - 1) : c[i] = b[drop + i]
    PROVE  Holds(d, n, at + 1, base + drop, c)
<1> DEFINE p == d.payload[n]
           l == Len(p)
           lb == Len(b)
           lc == Len(c)
           B == Byte
<1>1. l \in Nat /\ \A k \in 1..l : p[k] \in Nat
  <2>1. l \in Nat /\ \A k \in 1..l : p[k] \in 1..Len(d.bytes) BY DiscFields
  <2>2. 1..Len(d.bytes) \subseteq Nat BY DiscFields
  <2> HIDE DEF p, l
  <2> QED BY <2>1, <2>2
<1>2. at \in Nat BY DiscFields
<1>3. \A k, m \in 1..l : k < m <=> p[k] < p[m] BY PlacesGrow
<1>4. /\ base + lb <= l /\ \A i \in 1..l : p[i] < at <=> i <= base + lb
      /\ \A i \in 1..lb : b[i] = d.bytes[p[base + i]]
  BY DEF Holds
<1>5. PICK j \in 1..l : p[j] = at OBVIOUS
<1> HIDE DEF p, l, B
<1>6. lb \in Nat /\ lc \in Nat /\ drop <= lb /\ lc = lb - drop + 1
  <2>1. b \in Seq(B) /\ c \in Seq(B) BY DEF B
  <2> QED BY <2>1
<1> HIDE DEF lb, lc
<1>7. j = base + lb + 1
  <2>1. ~(j <= base + lb) BY <1>1, <1>2, <1>4, <1>5
  <2>2. CASE j > base + lb + 1
    <3>1. base + lb + 1 \in 1..l /\ base + lb + 1 < j BY <1>1, <1>5, <1>6, <2>2, SMTT(30)
    <3>2. p[base + lb + 1] < at BY <1>3, <1>5, <3>1
    <3>3. base + lb + 1 <= base + lb BY <1>4, <3>1, <3>2
    <3> QED BY <1>6, <3>3
  <2> QED BY <1>1, <1>5, <1>6, <2>1, <2>2
<1>8. base + drop + lc = j /\ j <= l BY <1>1, <1>5, <1>6, <1>7
<1>9. ASSUME NEW i \in 1..l
      PROVE  p[i] < at + 1 <=> i <= base + drop + lc
  <2>1. p[i] \in Nat /\ i \in Nat /\ j \in Nat BY <1>1, <1>5, SMTT(30)
  <2>2. i < j <=> p[i] < p[j] BY <1>3, <1>5
  <2>3. j < i <=> p[j] < p[i] BY <1>3, <1>5
  <2>4. p[i] < at + 1 <=> ~(p[j] < p[i]) BY <1>2, <1>5, <2>1, SMTT(30)
  <2> QED BY <1>8, <2>1, <2>3, <2>4
<1>10. ASSUME NEW i \in 1..lc
       PROVE  c[i] = d.bytes[p[base + drop + i]]
  <2>1. CASE i = lc BY <1>5, <1>8, <2>1 DEF lc
  <2>2. CASE i # lc
    <3>1. i \in 1..(lc - 1) /\ drop + i \in 1..lb /\ base + drop + i = base + (drop + i)
      BY <1>6, <2>2
    <3>2. c[i] = b[drop + i] BY <3>1 DEF lc
    <3>3. b[drop + i] = d.bytes[p[base + (drop + i)]] BY <1>4, <3>1
    <3> QED BY <3>1, <3>2, <3>3
  <2> QED BY <2>1, <2>2
<1>11. base + drop + lc <= l BY <1>8
<1> QED BY <1>9, <1>10, <1>11 DEF Holds, p, l, lc

\* The next byte of the disc.
LEMMA FeedByteTracks ==
    ASSUME NEW d \in Discs, NEW u \in SoundUnits, NEW at \in 1..Len(d.bytes), NEW base \in Nat,
           u.fma.stream \in Streams, Tracks(d, u.fma.stream, at, base, u)
    PROVE  LET v == feed_byte(u, d.bytes[at])
           IN  Tracks(d, u.fma.stream, at + 1, base + u.audio.read - v.audio.read, v)
<1> DEFINE n == u.fma.stream
           data == d.bytes[at]
           v == feed_byte(u, data)
           a == u.audio
           p == d.payload[n]
<1>1. /\ u.demux \in Demuxers /\ a \in Audios /\ Sound(a) /\ a.read \in Nat
  BY AudioFields DEF SoundUnits, Fields
<1>2. data \in Byte /\ at \in Nat /\ at - 1 \in 0..Len(d.bytes) /\ at \in 0..Len(d.bytes)
  BY DiscFields
<1>3. Uncut(d, n)[at - 1] = {u.demux} /\ Holds(d, n, at, base, a.buffer) BY DEF Tracks
<1>4. Uncut(d, n)[at] = {feed(u.demux, data, AudioClass, n)}
  <2>1. PICK f : Feeds(f, d, n) /\ \A k \in 0..Len(d.bytes) : Uncut(d, n)[k] = {f[k]}
    BY UncutFeeds
  <2>2. f[at] = feed(f[at - 1], data, AudioClass, n) BY <2>1 DEF Feeds
  <2>3. f[at - 1] = u.demux BY <1>2, <1>3, <2>1
  <2> QED BY <1>2, <2>1, <2>2, <2>3
<1>5. v.demux = feed(u.demux, data, AudioClass, n) BY DEF feed_byte
<1>6. v.audio = IF is_body(u.demux) THEN write(a, data) ELSE a BY DEF feed_byte
<1> HIDE DEF v
<1>7. CASE ~is_body(u.demux)
  <2>1. \A j \in 1..Len(p) : p[j] # at BY <1>3, <1>7, PlacesTaken
  <2>2. Holds(d, n, at + 1, base, a.buffer) BY <1>3, <2>1, HoldsPassed
  <2>3. v.audio = a /\ base + a.read - a.read = base BY <1>1, <1>6, <1>7
  <2>4. at + 1 - 1 = at BY <1>2
  <2> QED BY <1>4, <1>5, <2>2, <2>3, <2>4 DEF Tracks, v
<1>8. CASE is_body(u.demux)
  <2>1. \E j \in 1..Len(p) : p[j] = at BY <1>3, <1>8, PlacesTaken
  <2> DEFINE b == v.audio
  <2>2. b = write(a, data) BY <1>6, <1>8
  <2> HIDE DEF b
  <2>3. /\ Sound(b)
        /\ \E drop \in Nat :
              /\ Fills(a, b, drop) /\ Len(b.buffer) = Len(a.buffer) - drop + 1
              /\ b.buffer[Len(b.buffer)] = data
              /\ \A i \in 1..(Len(b.buffer) - 1) : b.buffer[i] = a.buffer[drop + i]
    <3>1. Sound(a) /\ data \in Byte BY <1>1, <1>2
    <3> HIDE DEF data, a
    <3>2. Sound(write(a, data)) /\ Takes(a, write(a, data), data)
      BY <3>1, Written, Zenon
    <3> QED BY <2>2, <3>2 DEF Takes, data
  <2>4. PICK drop \in Nat :
              /\ Fills(a, b, drop) /\ Len(b.buffer) = Len(a.buffer) - drop + 1
              /\ b.buffer[Len(b.buffer)] = data
              /\ \A i \in 1..(Len(b.buffer) - 1) : b.buffer[i] = a.buffer[drop + i]
    BY <2>3
  <2>5. /\ a.buffer \in Seq(Byte) /\ b.buffer \in Seq(Byte) /\ Len(a.buffer) \in Nat
        /\ b.read \in Nat
    BY <1>1, <2>3, AudioFields DEF Sound
  <2>6. drop \in 0..Len(a.buffer) /\ b.read = a.read - drop
    BY <1>1, <2>4, <2>5 DEF Fills, Sound
  <2>7. Holds(d, n, at + 1, base + drop, b.buffer)
    BY <1>3, <2>1, <2>4, <2>5, <2>6, HoldsTaken
  <2>8. base + a.read - b.read = base + drop
    <3> DEFINE r == a.read
               q == b.read
    <3>1. r \in Nat /\ q = r - drop BY <1>1, <2>6
    <3> HIDE DEF r, q
    <3>2. base + r - q = base + drop BY <3>1
    <3> QED BY <3>2 DEF r, q
  <2>9. at + 1 - 1 = at BY <1>2
  <2>10. Tracks(d, n, at + 1, base + drop, v) BY <1>4, <1>5, <2>7, <2>9 DEF Tracks, b
  <2> QED BY <2>8, <2>10 DEF v, b
<1> QED BY <1>7, <1>8

\* The unit is fed with the bytes of the channel, one after the other.
LEMMA UnitsRun ==
    ASSUME disc \in Discs, NEW c \in Channels, c.at + 2 * c.count <= Len(disc.bytes) + 1,
           NEW unit \in SoundUnits
    PROVE  \E g \in [0..2 * c.count -> SoundUnits] :
              /\ g[0] = unit
              /\ \A k \in 1..2 * c.count : g[k] = feed_byte(g[k - 1], disc.bytes[c.at + k - 1])
              /\ Units(c, unit) = {g[IF c.for_fma THEN 2 * c.count ELSE 0]}
<1> DEFINE N == 2 * c.count
           Next1(k) == IF k < N THEN disc.bytes[c.at + k] ELSE 0
           step == [k \in Nat |-> [u \in SoundUnits |-> feed_byte(u, Next1(k))]]
           Grown(g) == [k \in 0..N |-> IF k = 0 THEN {unit}
                            ELSE {feed_byte(u, disc.bytes[c.at + k - 1]) : u \in g[k - 1]}]
<1>1. N \in Nat /\ c.at \in Nat /\ c.at >= 1
  <2>1. c.count \in Word /\ c.at \in Nat \ {0} BY DEF Channels
  <2>2. MaxWord \in Nat BY DEF MaxWord
  <2>3. c.count \in Nat BY <2>1, <2>2 DEF Word
  <2> QED BY <2>1, <2>3
<1>2. Len(disc.bytes) \in Nat /\ \A k \in 1..Len(disc.bytes) : disc.bytes[k] \in Byte
  <2>1. PICK n : n \in Streams BY DvcAudioConstants
  <2> QED BY <2>1, DiscFields
<1>3. c.at + N <= Len(disc.bytes) + 1 OBVIOUS
<1> HIDE DEF N
<1>4. \A k \in Nat : Next1(k) \in Byte
  <2>1. 0 \in Byte BY DEF Byte
  <2>2. \A k \in Nat : k < N => c.at + k \in 1..Len(disc.bytes) BY <1>1, <1>2, <1>3
  <2> QED BY <1>2, <2>1, <2>2
<1> HIDE DEF Next1
<1>5. step \in [Nat -> [SoundUnits -> SoundUnits]] BY <1>4, FeedByteCarries DEF Carried
<1>6. \E g : Begins(g, N, SoundUnits, unit, step)
  BY <1>1, <1>5, BeginsExists, Zenon
<1>7. PICK f : Begins(f, N, SoundUnits, unit, step) BY <1>6
<1>8. f \in [0..N -> SoundUnits] /\ f[0] = unit BY <1>7 DEF Begins
<1>9. \A k \in 1..N : f[k] = feed_byte(f[k - 1], disc.bytes[c.at + k - 1])
  <2> TAKE k \in 1..N
  <2>1. /\ k \in 0..N /\ k > 0 /\ k - 1 \in 0..N /\ k - 1 \in Nat /\ k - 1 < N
        /\ c.at + (k - 1) = c.at + k - 1
    BY <1>1
  <2>2. f[k] = step[k - 1][f[k - 1]] BY <1>7, <2>1 DEF Begins
  <2>3. f[k - 1] \in SoundUnits BY <1>8, <2>1
  <2>4. Next1(k - 1) = disc.bytes[c.at + k - 1] BY <2>1 DEF Next1
  <2> QED BY <2>1, <2>2, <2>3, <2>4
<1> HIDE DEF step
<1> DEFINE F == [k \in 0..N |-> {f[k]}]
<1>10. F = Grown(F)
  <2>1. ASSUME NEW k \in 0..N
        PROVE  F[k] = Grown(F)[k]
    <3>1. CASE k = 0 BY <1>8, <3>1
    <3>2. CASE k # 0
      <4>1. k \in 1..N /\ k - 1 \in 0..N BY <1>1, <3>2
      <4>2. F[k - 1] = {f[k - 1]} /\ F[k] = {f[k]} BY <4>1
      <4>3. Grown(F)[k] = {feed_byte(u, disc.bytes[c.at + k - 1]) : u \in F[k - 1]} BY <3>2
      <4>4. f[k] = feed_byte(f[k - 1], disc.bytes[c.at + k - 1]) BY <1>9, <4>1
      <4> HIDE DEF F
      <4> QED BY <4>2, <4>3, <4>4
    <3> QED BY <3>1, <3>2
  <2> QED BY <2>1
<1> DEFINE G == CHOOSE g : g = Grown(g)
<1>11. Units(c, unit) = G[IF c.for_fma THEN N ELSE 0] BY Zenon DEF Units, N
<1> HIDE DEF F
<1>12. G = Grown(G) BY <1>10, Zenon
<1> HIDE DEF G
<1>13. /\ G[0] = {unit}
       /\ \A k \in 1..N : G[k] = {feed_byte(u, disc.bytes[c.at + k - 1]) : u \in G[k - 1]}
  <2>1. 0 \in 0..N /\ \A k \in 1..N : k \in 0..N /\ k # 0 BY <1>1
  <2>2. \A k \in 0..N : G[k] = IF k = 0 THEN {unit}
                            ELSE {feed_byte(u, disc.bytes[c.at + k - 1]) : u \in G[k - 1]}
    BY <1>12
  <2> QED BY <2>1, <2>2
<1> DEFINE T == {k \in 0..N : G[k] # {f[k]}}
<1>14. T = {}
  <2> SUFFICES ASSUME T # {} PROVE FALSE OBVIOUS
  <2>1. T \subseteq Nat BY <1>1
  <2> HIDE DEF T
  <2>2. PICK k \in T : \A j \in T : k <= j BY <2>1, Least
  <2>3. k \in 0..N /\ G[k] # {f[k]} BY DEF T
  <2>4. k # 0 BY <1>8, <1>13, <2>3
  <2>5. k \in 1..N /\ k - 1 \in 0..N /\ ~(k <= k - 1) BY <1>1, <2>3, <2>4
  <2>6. G[k - 1] = {f[k - 1]} BY <2>2, <2>5 DEF T
  <2>7. f[k] = feed_byte(f[k - 1], disc.bytes[c.at + k - 1]) BY <1>9, <2>5
  <2>8. G[k] = {feed_byte(u, disc.bytes[c.at + k - 1]) : u \in G[k - 1]} BY <1>13, <2>5
  <2> QED BY <2>3, <2>6, <2>7, <2>8
<1>15. Units(c, unit) = {f[IF c.for_fma THEN N ELSE 0]}
  <2>1. N \in 0..N /\ 0 \in 0..N BY <1>1
  <2> QED BY <1>11, <1>14, <2>1
<1> QED BY <1>8, <1>9, <1>15 DEF N

\* A transfer keeps the unit sound, and on the track of the stream.
Arrives(c, u, v) ==
    /\ Carried(u, v)
    /\ \A base \in Nat :
          /\ u.fma.stream \in Streams /\ c.for_fma
          /\ Tracks(disc, u.fma.stream, c.at, base, u)
          => Tracks(disc, u.fma.stream, c.at + 2 * c.count,
                    base + u.audio.read - v.audio.read, v)

LEMMA UnitsArrive ==
    ASSUME disc \in Discs, NEW c \in Channels, c.at + 2 * c.count <= Len(disc.bytes) + 1,
           NEW unit \in SoundUnits
    PROVE  Arrives(c, unit, CHOOSE v \in Units(c, unit) : TRUE)
<1> DEFINE N == 2 * c.count
           n == unit.fma.stream
           a == unit.audio
<1>1. N \in Nat /\ c.at \in Nat /\ c.at >= 1
  <2>1. c.count \in Word /\ c.at \in Nat \ {0} BY DEF Channels
  <2>2. MaxWord \in Nat BY DEF MaxWord
  <2>3. c.count \in Nat BY <2>1, <2>2 DEF Word
  <2> QED BY <2>1, <2>3
<1>2. Len(disc.bytes) \in Nat /\ \A k \in 1..Len(disc.bytes) : disc.bytes[k] \in Byte
  <2>1. PICK m : m \in Streams BY DvcAudioConstants
  <2> QED BY <2>1, DiscFields
<1>3. PICK g \in [0..N -> SoundUnits] :
              /\ g[0] = unit
              /\ \A k \in 1..N : g[k] = feed_byte(g[k - 1], disc.bytes[c.at + k - 1])
              /\ Units(c, unit) = {g[IF c.for_fma THEN N ELSE 0]}
  BY UnitsRun, ZenonT(40)
<1>4. c.at + N <= Len(disc.bytes) + 1 OBVIOUS
<1> HIDE DEF N
<1>5. \A k \in 1..N : c.at + k - 1 \in 1..Len(disc.bytes) /\ k - 1 \in 0..N /\ k \in 0..N
  BY <1>1, <1>2, <1>4
<1> DEFINE Good(k) ==
      /\ Carried(unit, g[k])
      /\ \A base \in Nat :
            n \in Streams /\ Tracks(disc, n, c.at, base, unit)
            => /\ Tracks(disc, n, c.at + k, base + a.read - g[k].audio.read, g[k])
               /\ base + a.read - g[k].audio.read \in Nat
<1>6. Good(0)
  <2>1. a.read \in Nat BY AudioFields DEF SoundUnits, Fields
  <2>2. \A base \in Nat : base + a.read - a.read = base BY <2>1
  <2>3. c.at + 0 = c.at BY <1>1
  <2> QED BY <1>3, <2>2, <2>3, CarriedSelf
<1>7. ASSUME NEW k \in 1..N, Good(k - 1)
      PROVE  Good(k)
  <2> DEFINE u == g[k - 1]
             v == g[k]
             at == c.at + k - 1
  <2>1. at \in 1..Len(disc.bytes) /\ k - 1 \in 0..N /\ k \in 0..N BY <1>5
  <2>2. u \in SoundUnits /\ v \in SoundUnits /\ v = feed_byte(u, disc.bytes[at]) BY <1>3, <2>1
  <2>3. disc.bytes[at] \in Byte BY <1>2, <2>1
  <2>4. Carried(u, v) BY <2>2, <2>3, FeedByteCarries
  <2>5. Carried(unit, u) BY <1>7
  <2>6. Carried(unit, v)
    <3> HIDE DEF u, v
    <3> QED BY <2>4, <2>5, CarriedOn
  <2>7. u.fma.stream = n BY <2>5 DEF Carried, SameUnit
  <2>8. u.audio.read \in Nat /\ v.audio.read \in Nat /\ a.read \in Nat
    BY <2>2, AudioFields DEF SoundUnits, Fields
  <2>9. ASSUME NEW base \in Nat, n \in Streams, Tracks(disc, n, c.at, base, unit)
        PROVE  /\ Tracks(disc, n, c.at + k, base + a.read - v.audio.read, v)
               /\ base + a.read - v.audio.read \in Nat
    <3> DEFINE b == base + a.read - u.audio.read
    <3>1. Tracks(disc, n, c.at + (k - 1), b, u) /\ b \in Nat BY <1>7, <2>9
    <3>2. c.at + (k - 1) = at /\ at + 1 = c.at + k BY <1>1
    <3> DEFINE x == u.audio.read
               y == v.audio.read
               z == a.read
    <3>3. PICK drop \in Nat : Moved(u.audio, v.audio, drop) BY <2>4 DEF Carried
    <3>4. y = x - drop /\ x \in Nat /\ y \in Nat /\ z \in Nat BY <2>8, <3>3 DEF Moved
    <3>5. b = base + z - x OBVIOUS
    <3> HIDE DEF u, v, at, b
    <3>6. Tracks(disc, n, at + 1, b + u.audio.read - v.audio.read, v)
      BY <2>1, <2>2, <2>7, <2>9, <3>1, <3>2, FeedByteTracks, Zenon
    <3> HIDE DEF x, y, z
    <3>7. b + x - y = base + z - y /\ base + z - y \in Nat BY <3>1, <3>4, <3>5
    <3>8. Tracks(disc, n, c.at + k, base + z - y, v) BY <3>2, <3>6, <3>7 DEF x, y
    <3> QED BY <3>7, <3>8 DEF y, z
  <2> QED BY <2>6, <2>9
<1> HIDE DEF Good
<1> DEFINE T == {k \in 0..N : ~Good(k)}
<1>8. T = {}
  <2> SUFFICES ASSUME T # {} PROVE FALSE OBVIOUS
  <2>1. T \subseteq Nat BY <1>1
  <2> HIDE DEF T
  <2>2. PICK k \in T : \A j \in T : k <= j BY <2>1, Least
  <2>3. k \in 0..N /\ ~Good(k) BY DEF T
  <2>4. k # 0 BY <1>6, <2>3
  <2>5. k \in 1..N /\ k - 1 \in 0..N /\ ~(k <= k - 1) BY <1>1, <2>3, <2>4
  <2>6. Good(k - 1) BY <2>2, <2>5 DEF T
  <2> QED BY <1>7, <2>3, <2>5, <2>6
<1>9. Good(0) /\ Good(N)
  <2>1. N \in 0..N BY <1>1
  <2> QED BY <1>6, <1>8, <2>1
<1> DEFINE w == CHOOSE v \in Units(c, unit) : TRUE
<1>10. w = g[IF c.for_fma THEN N ELSE 0] BY <1>3
<1> HIDE DEF w
<1>11. Carried(unit, w) BY <1>9, <1>10 DEF Good
<1>12. ASSUME NEW base \in Nat, n \in Streams, c.for_fma, Tracks(disc, n, c.at, base, unit)
       PROVE  Tracks(disc, n, c.at + N, base + unit.audio.read - w.audio.read, w)
  BY <1>9, <1>10, <1>12 DEF Good
<1> QED BY <1>11, <1>12 DEF Arrives, N, w

LEMMA FirstIs ==
    ASSUME NEW S, S \subseteq Nat, S # {}
    PROVE  First(S) \in S /\ \A j \in S : First(S) <= j
BY Least DEF First

\* Numbers of which the larger is taken, or the smaller.
LEMMA MinIs ==
    ASSUME NEW a \in Int, NEW b \in Int
    PROVE  /\ min(a, b) \in {a, b} /\ min(a, b) <= a /\ min(a, b) <= b
           /\ a <= b => min(a, b) = a
           /\ b <= a => min(a, b) = b
BY DEF min

\* The fields of a decoder with others for some of them.
IsAudio(b, s, r, i, u) ==
    b \in Audios /\ b.buffer = s /\ b.read = r /\ b.bit = i /\ b.underflow = u
LEMMA Rebuilt ==
    ASSUME NEW a \in Audios, NEW s \in Seq(Byte), NEW r \in Nat, NEW i \in Int,
           NEW u \in BOOLEAN
    PROVE  IsAudio([a EXCEPT !.buffer = s, !.read = r, !.bit = i, !.underflow = u], s, r, i, u)
<1> DEFINE S == Seq(Byte)
<1>1. Audios = [buffer : S, read : Nat, bit : Int, underflow : BOOLEAN] BY DEF Audios
<1>2. s \in S OBVIOUS
<1> HIDE DEF S
<1> QED BY <1>1, <1>2 DEF IsAudio

\* The candidates are positions in the buffer, not before the scan position.
LEMMA CandidatesAre ==
    ASSUME NEW a \in Audios
    PROVE  /\ Candidates(a) \subseteq Nat
           /\ \A i \in Candidates(a) : a.bit >= 0 /\ a.bit <= i /\ i + 2 <= Len(a.buffer)
           /\ Candidates(a) # {} =>
                 /\ First(Candidates(a)) \in Candidates(a)
                 /\ \A j \in Candidates(a) : First(Candidates(a)) <= j
<1> DEFINE lb == Len(a.buffer)
<1>1. lb \in Nat /\ a.bit \in Int BY AudioFields
<1>2. \A i \in Candidates(a) :
         i \in a.bit..(lb - 2) /\ a.bit >= 0
  BY DEF Candidates, Syncs
<1> HIDE DEF lb
<1>3. \A i \in Candidates(a) : i \in Nat /\ a.bit >= 0 /\ a.bit <= i /\ i + 2 <= lb
  BY <1>1, <1>2
<1>4. Candidates(a) \subseteq Nat BY <1>3
<1> QED BY <1>3, <1>4, FirstIs DEF lb

\* decode() of a whole frame.
LEMMA DecodedFrame ==
    ASSUME NEW a, Sound(a), HasFrame(a)
    PROVE  LET i == First(Candidates(a))
               b == decode(a)
               gone == Len(a.buffer) - Len(b.buffer)
           IN  /\ Sound(b) /\ i \in Candidates(a) /\ i \in Nat /\ gone \in Nat
               /\ i + FrameBytes <= Len(a.buffer)
               /\ gone <= Len(a.buffer) /\ b.read + gone = i + FrameBytes /\ b.bit = b.read
               /\ b.underflow = FALSE
               /\ \A k \in 1..Len(b.buffer) : b.buffer[k] = a.buffer[gone + k]
<1> DEFINE i == First(Candidates(a))
           end == i + FrameBytes
           next == [a EXCEPT !.read = end, !.bit = end, !.underflow = FALSE]
           b == decode(a)
           la == Len(a.buffer)
           gone == la - Len(b.buffer)
<1>1. a \in Audios /\ la \in Nat /\ a.buffer \in Seq(Byte) BY AudioFields DEF Sound
<1>2. i \in Candidates(a) /\ i \in Nat /\ end <= la BY <1>1, CandidatesAre DEF HasFrame
<1>3. FrameBytes \in Nat /\ EraseAt \in Nat BY DvcAudioConstants
<1>4. b = IF end >= EraseAt THEN Erased(next, end) ELSE next BY DEF decode, Consumed
<1> HIDE DEF i
<1>5. end \in Nat BY <1>2, <1>3
<1> HIDE DEF end
<1>6. /\ next \in Audios /\ next.read = end /\ next.bit = end /\ next.underflow = FALSE
      /\ next.buffer = a.buffer
  <2>1. next = [a EXCEPT !.buffer = a.buffer, !.read = end, !.bit = end, !.underflow = FALSE]
    BY <1>1 DEF Audios
  <2> HIDE DEF next
  <2>2. end \in Int /\ FALSE \in BOOLEAN BY <1>5
  <2>3. IsAudio(next, a.buffer, end, end, FALSE) BY <1>1, <1>5, <2>1, <2>2, Rebuilt, Zenon
  <2> QED BY <2>3 DEF IsAudio
<1> HIDE DEF next, b
<1>7. CASE end >= EraseAt
  <2>1. /\ b \in Audios /\ b.read = next.read - end /\ b.bit = next.bit - end
        /\ b.underflow = next.underflow /\ Len(b.buffer) = la - end
        /\ \A k \in 1..Len(b.buffer) : b.buffer[k] = a.buffer[end + k]
    <3>1. \A n \in Nat : n <= next.read => LET c == Erased(next, n)
           IN  /\ c \in Audios /\ c.read = next.read - n /\ c.bit = next.bit - n
               /\ c.underflow = next.underflow
               /\ Len(c.buffer) = Len(next.buffer) - n
               /\ \A k \in 1..Len(c.buffer) : c.buffer[k] = next.buffer[n + k]
      BY <1>2, <1>6, ErasedIs
    <3>2. end <= next.read BY <1>5, <1>6
    <3>3. b = Erased(next, end) BY <1>4, <1>7
    <3> QED BY <1>5, <1>6, <3>1, <3>2, <3>3
  <2>2. gone = end /\ b.read = 0 /\ b.bit = 0 /\ Len(b.buffer) \in Nat
    <3>1. Len(b.buffer) = la - end /\ b.read = end - end /\ b.bit = end - end BY <1>6, <2>1
    <3> HIDE DEF la
    <3> QED BY <1>1, <1>2, <1>5, <3>1
  <2>3. Sound(b) BY <2>1, <2>2 DEF Sound
  <2>4. b.read + gone = end BY <1>5, <2>2
  <2>5. gone <= la /\ gone \in Nat /\ b.bit = b.read BY <1>2, <1>5, <2>2
  <2>6. \A k \in 1..Len(b.buffer) : b.buffer[k] = a.buffer[gone + k] BY <2>1, <2>2
  <2>7. b.underflow = FALSE BY <1>6, <2>1
  <2> HIDE DEF gone
  <2> QED BY <1>2, <2>3, <2>4, <2>5, <2>6, <2>7 DEF end, i, b, gone, la
<1>8. CASE ~(end >= EraseAt)
  <2>1. b = next BY <1>4, <1>8
  <2>2. gone = 0 BY <1>1, <1>6, <2>1
  <2>3. Sound(b)
    <3>1. b.read <= la /\ b.read <= b.bit + 1 /\ b.bit <= la BY <1>2, <1>5, <1>6, <2>1
    <3> QED BY <1>6, <2>1, <3>1 DEF Sound
  <2>7. b.underflow = FALSE BY <1>6, <2>1
  <2>8. \A k \in 1..la : a.buffer[0 + k] = a.buffer[k] /\ Len(b.buffer) = la BY <1>1, <1>6, <2>1
  <2>9. b.read = end /\ b.bit = end /\ b.buffer = a.buffer BY <1>6, <2>1
  <2> HIDE DEF gone
  <2>4. b.read + gone = end BY <1>5, <2>2, <2>9
  <2>5. gone <= la /\ gone \in Nat /\ b.bit = b.read
    <3> HIDE DEF la
    <3> QED BY <1>1, <2>2, <2>9
  <2>6. \A k \in 1..Len(b.buffer) : b.buffer[k] = a.buffer[gone + k]
    <3> HIDE DEF la
    <3> QED BY <2>2, <2>8, <2>9
  <2> QED BY <1>2, <2>3, <2>4, <2>5, <2>6, <2>7 DEF end, i, b, gone, la
<1> QED BY <1>7, <1>8

\* decode() without one: only the scan position and the underflow change.
LEMMA DecodedNone ==
    ASSUME NEW a, Sound(a), ~HasFrame(a)
    PROVE  LET b == decode(a)
           IN  /\ Sound(b) /\ b.buffer = a.buffer /\ b.read = a.read /\ b.bit >= 0
               /\ b.bit = IF Candidates(a) = {} THEN LastByte(a) ELSE First(Candidates(a))
               /\ Candidates(a) = {} => b.underflow = TRUE
<1> DEFINE i == First(Candidates(a))
           b == decode(a)
           lb == Len(a.buffer)
<1>1. /\ a \in Audios /\ lb \in Nat /\ a.read \in Nat /\ a.bit \in Int
      /\ a.read <= lb /\ a.read <= a.bit + 1 /\ a.bit <= lb
  BY AudioFields DEF Sound
<1>2. LastByte(a) = IF lb > 1 THEN lb - 1 ELSE 0 BY DEF LastByte
<1>3. CASE Candidates(a) = {}
  <2>1. b = [a EXCEPT !.bit = LastByte(a), !.underflow = TRUE]
    BY <1>3 DEF decode, NotFound, HasFrame
  <2> DEFINE x == LastByte(a)
  <2> HIDE DEF b, lb
  <2>2. x \in Nat /\ x <= lb /\ a.read <= x + 1 BY <1>1, <1>2
  <2> HIDE DEF x
  <2>3. b \in Audios /\ b.buffer = a.buffer /\ b.read = a.read /\ b.bit = x /\ b.underflow = TRUE
    <3>1. b = [a EXCEPT !.buffer = a.buffer, !.read = a.read, !.bit = x, !.underflow = TRUE]
      BY <1>1, <2>1 DEF Audios, x
    <3>2. a.buffer \in Seq(Byte) BY <1>1, AudioFields
    <3>3. x \in Int /\ TRUE \in BOOLEAN BY <2>2
    <3>4. IsAudio(b, a.buffer, a.read, x, TRUE) BY <1>1, <3>1, <3>2, <3>3, Rebuilt, Zenon
    <3> QED BY <3>4 DEF IsAudio
  <2> QED BY <1>1, <1>3, <2>2, <2>3 DEF Sound, x, b, lb
<1>4. CASE Candidates(a) # {}
  <2>1. i \in Nat /\ a.bit <= i /\ i + 2 <= lb BY <1>1, <1>4, CandidatesAre
  <2>2. \E u \in BOOLEAN : b = [a EXCEPT !.bit = i, !.underflow = u]
    <3>1. b = Incomplete(a, i) BY <1>4 DEF decode
    <3>2. a.underflow \in BOOLEAN
          /\ [a EXCEPT !.bit = i] = [a EXCEPT !.bit = i, !.underflow = a.underflow]
      BY <1>1 DEF Audios
    <3> HIDE DEF i, b
    <3> QED BY <3>1, <3>2 DEF Incomplete
  <2> HIDE DEF i, b
  <2>3. PICK u \in BOOLEAN : b = [a EXCEPT !.bit = i, !.underflow = u] BY <2>2
  <2>4. b \in Audios /\ b.buffer = a.buffer /\ b.read = a.read /\ b.bit = i
    <3>1. b = [a EXCEPT !.buffer = a.buffer, !.read = a.read, !.bit = i, !.underflow = u]
      BY <1>1, <2>3 DEF Audios
    <3>2. a.buffer \in Seq(Byte) /\ i \in Int BY <1>1, <2>1, AudioFields
    <3>3. IsAudio(b, a.buffer, a.read, i, u) BY <1>1, <3>1, <3>2, Rebuilt, Zenon
    <3> QED BY <3>3 DEF IsAudio
  <2> HIDE DEF lb
  <2>5. b.read <= lb /\ b.read <= b.bit + 1 /\ b.bit <= lb /\ b.bit >= 0
    BY <1>1, <2>1, <2>4
  <2>6. Sound(b) BY <2>4, <2>5 DEF Sound, lb
  <2> QED BY <1>4, <2>4, <2>5, <2>6 DEF i, b
<1> QED BY <1>3, <1>4

\* A state that is saved and loaded.
LEMMA ReloadedIs ==
    ASSUME NEW a, Sound(a)
    PROVE  LET b == Reloaded(a)
           IN  /\ Sound(b) /\ b.read = 0 /\ b.bit >= 0 /\ b.underflow = a.underflow
               /\ Len(b.buffer) = Len(a.buffer) - a.read
               /\ a.bit >= a.read => b.bit = a.bit - a.read
               /\ \A k \in 1..Len(b.buffer) : b.buffer[k] = a.buffer[a.read + k]
<1> DEFINE s == a.buffer
           la == Len(s)
           kept == SubSeq(s, a.read + 1, la)
           bit == IF a.bit < a.read THEN Len(kept) ELSE min(a.bit - a.read, Len(kept))
           b == Reloaded(a)
<1>1. /\ a \in Audios /\ la \in Nat /\ a.read \in Nat /\ a.bit \in Int /\ s \in Seq(Byte)
      /\ a.read <= la /\ a.read <= a.bit + 1 /\ a.bit <= la
  BY AudioFields DEF Sound
<1>2. b = [a EXCEPT !.buffer = kept, !.read = 0, !.bit = bit] BY DEF Reloaded
<1> HIDE DEF s
<1>3. /\ kept \in Seq(Byte) /\ Len(kept) = la - a.read
      /\ \A i \in 1..(la - a.read) : kept[i] = s[a.read + i]
  <2> DEFINE B == Byte
  <2>1. s \in Seq(B) /\ a.read \in 0..la BY <1>1
  <2> HIDE DEF B
  <2>2. /\ kept \in Seq(B) /\ Len(kept) = la - a.read
        /\ \A i \in 1..(la - a.read) : kept[i] = s[a.read + i]
    BY <2>1, Behind
  <2> QED BY <2>2 DEF B
<1> DEFINE lk == Len(kept)
<1> HIDE DEF la, kept, b
<1>4. lk \in Nat BY <1>1, <1>3
<1> HIDE DEF lk
<1>5. bit \in Nat /\ bit <= lk /\ (a.bit >= a.read => bit = a.bit - a.read)
  <2>1. bit = IF a.bit < a.read THEN lk ELSE min(a.bit - a.read, lk) BY DEF lk
  <2>2. lk = la - a.read BY <1>3 DEF lk
  <2> HIDE DEF bit
  <2>3. CASE a.bit < a.read BY <1>1, <1>4, <2>1, <2>3
  <2>4. CASE ~(a.bit < a.read)
    <3>1. a.bit - a.read \in Nat /\ a.bit - a.read <= lk BY <1>1, <2>2, <2>4
    <3>2. min(a.bit - a.read, lk) = a.bit - a.read BY <1>4, <3>1, MinIs
    <3> QED BY <2>1, <2>4, <3>1, <3>2
  <2> QED BY <2>3, <2>4
<1> HIDE DEF bit
<1>6. /\ b \in Audios /\ b.buffer = kept /\ b.read = 0 /\ b.bit = bit
      /\ b.underflow = a.underflow
  <2>1. b = [a EXCEPT !.buffer = kept, !.read = 0, !.bit = bit, !.underflow = a.underflow]
    BY <1>1, <1>2 DEF Audios
  <2>2. 0 \in Nat /\ bit \in Int /\ a.underflow \in BOOLEAN BY <1>1, <1>5, AudioFields
  <2> DEFINE zero == 0
  <2>4. kept \in Seq(Byte) /\ a \in Audios BY <1>1, <1>3
  <2>5. b = [a EXCEPT !.buffer = kept, !.read = zero, !.bit = bit, !.underflow = a.underflow]
    BY <2>1
  <2>6. zero \in Nat OBVIOUS
  <2> HIDE DEF zero
  <2>7. IsAudio(b, kept, zero, bit, a.underflow) BY <2>2, <2>4, <2>5, <2>6, Rebuilt, Zenon
  <2>3. IsAudio(b, kept, 0, bit, a.underflow) BY <2>7 DEF zero
  <2> QED BY <2>3 DEF IsAudio
<1>7. Sound(b) BY <1>4, <1>5, <1>6 DEF Sound, lk
<1> QED BY <1>3, <1>5, <1>6, <1>7 DEF b, la, s

LEMMA ResetIsSound ==
    /\ audio_reset \in Audios /\ Sound(audio_reset) /\ audio_reset.buffer = <<>>
    /\ audio_reset.read = 0 /\ audio_reset.bit = 0 /\ Len(audio_reset.buffer) = 0
<1>1. audio_reset \in Audios BY DEF audio_reset, Audios
<1> QED BY <1>1 DEF audio_reset, Sound

\* Numbers of less than two rounds of a ring.
Wrap(x, c) == IF x < c THEN x ELSE x - c
LEMMA Wraps ==
    ASSUME NEW c \in Nat \ {0}, NEW x \in Nat, x < 2 * c
    PROVE  x % c = Wrap(x, c)
<1> DEFINE q == x \div c
           m == x % c
<1>1. q \in Int /\ m \in 0..(c - 1) /\ x = c * q + m OBVIOUS
<1> HIDE DEF q, m
<1>2. q < 2
  <2> SUFFICES ASSUME q >= 2 PROVE FALSE BY <1>1
  <2>1. c * q >= c * 2 BY <1>1
  <2> QED BY <1>1, <2>1
<1>3. q > -1
  <2> SUFFICES ASSUME q <= -1 PROVE FALSE BY <1>1
  <2>1. c * q <= c * (-1) BY <1>1
  <2> QED BY <1>1, <2>1
<1>4. q = 0 \/ q = 1 BY <1>1, <1>2, <1>3
<1>5. m = IF x < c THEN x ELSE x - c BY <1>1, <1>4
<1> QED BY <1>5 DEF m, Wrap

\* What a ring of c places holds between its read and its write position.
Between(r, w, c) == IF w >= r THEN w - r ELSE c - r + w

LEMMA RingPlaces ==
    ASSUME NEW c \in Nat \ {0}, NEW r \in 0..(c - 1), NEW w \in 0..(c - 1), NEW k \in 0..(c - 1)
    PROVE  /\ (r + k) % c \in 0..(c - 1)
           /\ (((r + k) % c) + c - w) % c =
                 IF k >= Between(r, w, c) THEN k - Between(r, w, c) ELSE k - Between(r, w, c) + c
<1> DEFINE i == (r + k) % c
<1>0. r + k \in Nat /\ r + k < 2 * c OBVIOUS
<1>1. i = Wrap(r + k, c) BY <1>0, Wraps, Zenon
<1> HIDE DEF i
<1>2. i \in 0..(c - 1) BY <1>1 DEF Wrap
<1>3. (i + c - w) % c = Wrap(i + c - w, c)
  <2>1. i + c - w \in Nat /\ i + c - w < 2 * c BY <1>2
  <2> QED BY <2>1, Wraps, Zenon
<1>4. Wrap(i + c - w, c) =
         IF k >= Between(r, w, c) THEN k - Between(r, w, c) ELSE k - Between(r, w, c) + c
  BY <1>1 DEF Between, Wrap
<1> QED BY <1>2, <1>3, <1>4 DEF i

LEMMA RingWrites ==
    ASSUME NEW c \in Nat \ {0}, NEW r \in 0..(c - 1), NEW w \in 0..(c - 1), NEW n \in Nat,
           n < c - Between(r, w, c)
    PROVE  (w + n) % c \in 0..(c - 1) /\ Between(r, (w + n) % c, c) = Between(r, w, c) + n
<1> DEFINE v == (w + n) % c
<1>1. w + n \in Nat /\ w + n < 2 * c BY DEF Between
<1>2. v = Wrap(w + n, c) BY <1>1, Wraps, Zenon
<1> HIDE DEF v
<1>3. v \in 0..(c - 1) BY <1>1, <1>2 DEF Wrap
<1>4. Between(r, v, c) = Between(r, w, c) + n BY <1>2 DEF Between, Wrap
<1> QED BY <1>3, <1>4 DEF v

LEMMA RingReads ==
    ASSUME NEW c \in Nat \ {0}, NEW r \in 0..(c - 1), NEW w \in 0..(c - 1), NEW n \in Nat,
           n <= Between(r, w, c)
    PROVE  /\ (r + n) % c \in 0..(c - 1) /\ Between((r + n) % c, w, c) = Between(r, w, c) - n
           /\ \A k \in 0..(c - 1) : n + k < c => (((r + n) % c) + k) % c = (r + (n + k)) % c
<1> DEFINE v == (r + n) % c
<1>1. r + n \in Nat /\ r + n < 2 * c BY DEF Between
<1>2. v = Wrap(r + n, c) BY <1>1, Wraps, Zenon
<1> HIDE DEF v
<1>3. v \in 0..(c - 1) BY <1>1, <1>2 DEF Wrap
<1>4. Between(v, w, c) = Between(r, w, c) - n BY <1>2 DEF Between, Wrap
<1>5. ASSUME NEW k \in 0..(c - 1), n + k < c
      PROVE  (v + k) % c = (r + (n + k)) % c
  <2>1. v + k \in Nat /\ v + k < 2 * c BY <1>3
  <2>2. (v + k) % c = Wrap(v + k, c) BY <2>1, Wraps, Zenon
  <2>3. r + (n + k) \in Nat /\ r + (n + k) < 2 * c BY <1>5
  <2>4. (r + (n + k)) % c = Wrap(r + (n + k), c) BY <2>3, Wraps, Zenon
  <2> QED BY <1>2, <1>5, <2>2, <2>4 DEF Wrap
<1> QED BY <1>3, <1>4, <1>5 DEF v

LEMMA Sizes ==
    /\ Capacity \in Nat \ {0} /\ Pairs \in Nat \ {0} /\ Capacity % 2 = 0
    /\ Capacity >= 2 * Pairs + 2 /\ Prime \in Nat /\ PrimeTimeout \in Nat \ {0}
    /\ Update \in Nat \ {0} /\ Div \in Nat \ {0} /\ DryTicks \in Nat \ {0}
    /\ FrameBytes \in Nat /\ FrameBytes >= HeaderBytes /\ EraseAt \in Nat \ {0}
<1>1. Capacity \in Nat /\ Pairs \in Nat \ {0} /\ Capacity % 2 = 0 /\ Capacity > 2 * Pairs
  BY DvcAudioConstants
<1>2. Capacity >= 2 * Pairs + 2 /\ Capacity \in Nat \ {0} BY <1>1
<1> QED BY <1>1, <1>2, DvcAudioConstants

LEMMA OutFields ==
    ASSUME out \in Outputs
    PROVE  /\ out.ring \in [0..(Capacity - 1) -> {"l", "r", "0"}]
           /\ out.write \in 0..(Capacity - 1) /\ out.read \in 0..(Capacity - 1)
           /\ out.primed \in BOOLEAN /\ out.prime_wait \in Nat
           /\ audio_ring_used = Between(out.read, out.write, Capacity)
           /\ audio_ring_used \in 0..(Capacity - 1)
           /\ audio_ring_free = Capacity - 1 - audio_ring_used
<1>1. /\ out.ring \in [0..(Capacity - 1) -> {"l", "r", "0"}]
      /\ out.write \in 0..(Capacity - 1) /\ out.read \in 0..(Capacity - 1)
      /\ out.primed \in BOOLEAN /\ out.prime_wait \in Nat
  BY DEF Outputs
<1>2. audio_ring_used = Between(out.read, out.write, Capacity) BY DEF audio_ring_used, Between
<1>3. Between(out.read, out.write, Capacity) \in 0..(Capacity - 1) BY <1>1, Sizes DEF Between
<1>4. audio_ring_free = Capacity - 1 - audio_ring_used BY <1>2, <1>3, Sizes DEF audio_ring_free
<1> QED BY <1>1, <1>2, <1>3, <1>4

\* The ring after a frame.
LEMMA FramePushed ==
    ASSUME out \in Outputs, RoomForFrame
    PROVE  LET o == Pushed(FrameSamples)
           IN  /\ o \in Outputs
               /\ o.read = out.read /\ o.primed = out.primed /\ o.prime_wait = out.prime_wait
               /\ Between(o.read, o.write, Capacity) = audio_ring_used + 2 * Pairs
               /\ \A k \in 0..(audio_ring_used - 1) :
                     o.ring[(o.read + k) % Capacity] = out.ring[(out.read + k) % Capacity]
               /\ \A k \in 0..(Capacity - 1) :
                     audio_ring_used <= k /\ k < audio_ring_used + 2 * Pairs =>
                        o.ring[(o.read + k) % Capacity] =
                            IF (k - audio_ring_used) % 2 = 0 THEN "l" ELSE "r"
<1> DEFINE o == Pushed(FrameSamples)
           c == Capacity
           r == out.read
           w == out.write
           u == audio_ring_used
           n == 2 * Pairs
           Index(i) == (i + c - w) % c
           ring == [i \in 0..c - 1 |-> IF Index(i) < n THEN FrameSamples[Index(i) + 1]
                            ELSE out.ring[i]]
<1>1. /\ r \in 0..(c - 1) /\ w \in 0..(c - 1) /\ u = Between(r, w, c) /\ u \in 0..(c - 1)
      /\ audio_ring_free = c - 1 - u
  BY OutFields
<1>2. c \in Nat \ {0} /\ n \in Nat /\ Pairs \in Nat BY Sizes
<1>3. n <= c - 1 - u BY <1>1 DEF RoomForFrame
<1>4. Len(FrameSamples) = n
  <2>1. FrameSamples = [k \in 1..n |-> IF k % 2 = 1 THEN "l" ELSE "r"] BY DEF FrameSamples
  <2> HIDE DEF n
  <2> QED BY <1>2, <2>1
<1>5. min(Len(FrameSamples), audio_ring_free) = n
  <2>1. n <= audio_ring_free /\ audio_ring_free \in Int
    <3> HIDE DEF u, n
    <3> QED BY <1>1, <1>2, <1>3
  <2>2. n \in Int BY <1>2
  <2> HIDE DEF n
  <2> QED BY <1>4, <2>1, <2>2, MinIs
<1>6. o = [out EXCEPT !.ring = ring, !.write = (w + n) % c]
  <2>1. o = [out EXCEPT !.ring =
                [i \in 0..c - 1 |-> IF Index(i) < n THEN FrameSamples[Index(i) + 1]
                                 ELSE out.ring[i]],
             !.write = (w + n) % c]
    <3> HIDE DEF n
    <3> QED BY <1>5 DEF Pushed
  <2> QED BY <2>1
<1>7. \A k \in 1..n : FrameSamples[k] = IF k % 2 = 1 THEN "l" ELSE "r" BY DEF FrameSamples
<1> HIDE DEF Index, n, r, w, u, c
<1>8. (w + n) % c \in 0..(c - 1) /\ Between(r, (w + n) % c, c) = u + n
  <2>1. n < c - Between(r, w, c) BY <1>1, <1>2, <1>3
  <2> QED BY <1>1, <1>2, <2>1, RingWrites
<1>9. \A i \in 0..(c - 1) : Index(i) \in Nat BY <1>1, <1>2 DEF Index
<1>10. ring \in [0..(c - 1) -> {"l", "r", "0"}]
  <2>1. out.ring \in [0..(c - 1) -> {"l", "r", "0"}] BY OutFields DEF c
  <2>2. \A i \in 0..(c - 1) : Index(i) < n => Index(i) + 1 \in 1..n BY <1>2, <1>9
  <2> QED BY <1>7, <2>1, <2>2
<1> HIDE DEF o
<1> DEFINE ring1 == ring
           write1 == (w + n) % c
<1> HIDE DEF ring1, write1
<1>11. o = [out EXCEPT !.ring = ring1, !.write = write1] BY <1>6 DEF ring1, write1
<1>12. /\ o \in Outputs /\ o.read = r /\ o.primed = out.primed /\ o.prime_wait = out.prime_wait
       /\ o.ring = ring1 /\ o.write = write1
  <2>1. ring1 \in [0..(Capacity - 1) -> {"l", "r", "0"}] BY <1>10 DEF ring1, c
  <2>2. write1 \in 0..(Capacity - 1) BY <1>8 DEF write1, c
  <2> QED BY <1>11, <2>1, <2>2 DEF Outputs, r
<1>13. Between(o.read, o.write, c) = u + n BY <1>8, <1>12 DEF write1
<1>14. ASSUME NEW k \in 0..(c - 1)
       PROVE  /\ (r + k) % c \in 0..(c - 1)
              /\ Index((r + k) % c) = IF k >= u THEN k - u ELSE k - u + c
  BY <1>1, <1>2, RingPlaces DEF Index
<1>15. ASSUME NEW k \in 0..(u - 1)
       PROVE  o.ring[(o.read + k) % c] = out.ring[(out.read + k) % c]
  <2>1. k \in 0..(c - 1) /\ ~(k >= u) /\ ~(k - u + c < n) BY <1>1, <1>2, <1>3
  <2>2. ~(Index((r + k) % c) < n) /\ (r + k) % c \in 0..(c - 1) BY <1>14, <2>1
  <2>3. ring[(r + k) % c] = out.ring[(r + k) % c] BY <2>2
  <2> QED BY <1>12, <2>3 DEF ring1, r
<1>16. ASSUME NEW k \in 0..(c - 1), u <= k, k < u + n
       PROVE  o.ring[(o.read + k) % c] = IF (k - u) % 2 = 0 THEN "l" ELSE "r"
  <2> DEFINE i == (r + k) % c
  <2>1. i \in 0..(c - 1) /\ Index(i) = k - u BY <1>1, <1>14, <1>16
  <2> HIDE DEF i
  <2>2. k - u < n /\ k - u + 1 \in 1..n /\ k - u \in Nat BY <1>1, <1>2, <1>16
  <2>3. ring[i] = FrameSamples[k - u + 1] BY <2>1, <2>2
  <2>4. FrameSamples[k - u + 1] = IF (k - u + 1) % 2 = 1 THEN "l" ELSE "r" BY <1>7, <2>2
  <2>5. (k - u + 1) % 2 = 1 <=> (k - u) % 2 = 0
    <3> DEFINE x == k - u
    <3>1. x \in Nat BY <2>2
    <3> HIDE DEF x
    <3>2. (x + 1) % 2 = 1 <=> x % 2 = 0 BY <3>1
    <3> QED BY <3>2 DEF x
  <2> QED BY <1>12, <2>3, <2>4, <2>5 DEF ring1, i
<1> QED BY <1>12, <1>13, <1>15, <1>16 DEF o, c, u, n, r

\* What the channel still has to move is on the disc.
Fits(c) == c \in Channels /\ c.at + 2 * c.count <= Len(disc.bytes) + 1

TypeInv == TypeOK /\ Sound(m_audio) /\ Fits(dma)

\* The demultiplexer and the buffer are where the first bytes of the disc lead.
On(d, n, at, base, demux, buffer) ==
    Uncut(d, n)[at - 1] = {demux} /\ Holds(d, n, at, base, buffer)

Moves(c) == c.count # 0 /\ ~c.into

\* What try_dma() may do.
TryMoves(c, f) ==
    /\ m_audio_demux' \in Demuxers /\ Sound(m_audio') /\ fma' \in AudioUnits
    /\ SameUnit(f, fma') /\ dma' = Served(c)
    /\ \E drop \in Nat : Moved(m_audio, m_audio', drop)
    /\ ~Moves(c) => m_audio_demux' = m_audio_demux /\ m_audio' = m_audio /\ fma' = f
TryTracks(c, f) ==
    \A base \in Nat :
        /\ Moves(c) /\ c.for_fma
        /\ On(disc, f.stream, c.at, base, m_audio_demux, m_audio.buffer)
        => On(disc, f.stream, c.at + 2 * c.count, base + m_audio.read - m_audio'.read,
              m_audio_demux', m_audio'.buffer)
TryHist(c, h) ==
    /\ hist' \in Histories
    /\ hist'.overlap = (h.overlap \/ (c.count # 0 /\ c.into))
    /\ hist'.owed = h.owed /\ hist'.mute = h.mute
    /\ hist'.dry = IF buffered_bytes(m_audio') # 0 THEN 0 ELSE h.dry
    /\ hist'.clean =>
          /\ h.clean /\ (Moves(c) => c.for_fma) /\ m_audio'.bit >= 0
          /\ hist'.base = h.base + m_audio.read - m_audio'.read
          /\ hist'.frames = h.frames /\ hist'.last = h.last

LEMMA TryDma ==
    ASSUME TypeInv, NEW c, Fits(c), NEW f \in AudioUnits, NEW h \in Histories, try_dma(c, f, h)
    PROVE  TryMoves(c, f) /\ TryTracks(c, f) /\ TryHist(c, h)
<1> DEFINE u == [demux |-> m_audio_demux, audio |-> m_audio, fma |-> f]
           v == CHOOSE w \in Units(c, u) : TRUE
           unit == IF Moves(c) THEN v ELSE u
<1>1. disc \in Discs /\ m_audio_demux \in Demuxers /\ m_audio \in Audios /\ Sound(m_audio)
  BY DEF TypeInv, TypeOK
<1>2. u \in SoundUnits BY <1>1 DEF SoundUnits, Fields
<1>3. c \in Channels /\ c.at + 2 * c.count <= Len(disc.bytes) + 1 BY DEF Fits
<1>4. Arrives(c, u, v) BY <1>1, <1>2, <1>3, UnitsArrive, Zenon
<1>5. m_audio_demux' = unit.demux /\ m_audio' = unit.audio /\ fma' = unit.fma /\ dma' = Served(c)
  BY DEF try_dma, Fed, Moves
<1>6. u.demux = m_audio_demux /\ u.audio = m_audio /\ u.fma = f OBVIOUS
<1> HIDE DEF u, v
<1>7. Carried(u, unit) BY <1>2, <1>4, CarriedSelf DEF Arrives
<1>8. unit \in SoundUnits BY <1>7 DEF Carried
<1>9. TryMoves(c, f)
  <2>1. /\ unit.demux \in Demuxers /\ Sound(unit.audio) /\ unit.fma \in AudioUnits
    BY <1>8 DEF SoundUnits, Fields
  <2>2. SameUnit(f, fma') /\ \E drop \in Nat : Moved(m_audio, m_audio', drop)
    BY <1>5, <1>6, <1>7 DEF Carried
  <2>3. ~Moves(c) => unit = u OBVIOUS
  <2> HIDE DEF unit
  <2> QED BY <1>5, <1>6, <2>1, <2>2, <2>3 DEF TryMoves
<1>10. TryTracks(c, f)
  <2>1. f.stream \in Streams BY DEF AudioUnits
  <2> SUFFICES ASSUME NEW base \in Nat, Moves(c), c.for_fma,
                      On(disc, f.stream, c.at, base, m_audio_demux, m_audio.buffer)
               PROVE  On(disc, f.stream, c.at + 2 * c.count,
                         base + m_audio.read - m_audio'.read, m_audio_demux', m_audio'.buffer)
    BY DEF TryTracks
  <2>2. Tracks(disc, u.fma.stream, c.at, base, u) BY <1>6 DEF Tracks, On
  <2>3. Tracks(disc, f.stream, c.at + 2 * c.count, base + m_audio.read - v.audio.read, v)
    BY <1>4, <1>6, <2>1, <2>2 DEF Arrives
  <2> QED BY <1>5, <2>3 DEF Tracks, On
<1>11. TryHist(c, h)
  <2> DEFINE a == m_audio
             b == m_audio'
             dry == IF buffered_bytes(b) # 0 THEN 0 ELSE h.dry
             overlap == h.overlap \/ (c.count # 0 /\ c.into)
             base == h.base + a.read - b.read
             seen == [h EXCEPT !.base = base, !.dry = dry, !.overlap = overlap]
  <2>1. hist' = IF h.clean /\ ~(Moves(c) /\ ~c.for_fma) /\ b.bit >= 0 THEN seen ELSE Lost(seen)
    <3>1. hist' = LET s == [h EXCEPT !.base = h.base + m_audio.read - unit.audio.read,
                                 !.dry = IF buffered_bytes(unit.audio) # 0 THEN 0 ELSE h.dry,
                                 !.overlap = h.overlap \/ (c.count # 0 /\ c.into)]
                  IN IF h.clean /\ ~(Moves(c) /\ ~c.for_fma) /\ unit.audio.bit >= 0
                     THEN s ELSE Lost(s)
      BY DEF try_dma, Fed, Moves, u, v
    <3> HIDE DEF unit
    <3> QED BY <1>5, <3>1
  <2>2. PICK drop \in Nat : Moved(a, b, drop) BY <1>9 DEF TryMoves
  <2>3. a.read \in Nat /\ b.read \in Nat
    BY <1>1, <1>9, AudioFields DEF TryMoves, Sound
  <2> HIDE DEF a, b
  <2>4. base = h.base + drop /\ h.base \in Nat
    <3>1. b.read = a.read - drop BY <2>2 DEF Moved
    <3>2. h.base \in Nat BY DEF Histories
    <3> DEFINE x == a.read
               y == b.read
               z == h.base
    <3>3. y = x - drop /\ x \in Nat /\ z \in Nat BY <2>3, <3>1, <3>2
    <3> HIDE DEF x, y, z
    <3>4. z + x - y = z + drop BY <3>3
    <3> QED BY <3>2, <3>4 DEF x, y, z
  <2>5. base \in Nat BY <2>4
  <2>6. dry \in 0..(DryTicks + Div + 1)
    <3>1. h.dry \in 0..(DryTicks + Div + 1) BY DEF Histories
    <3>2. 0 \in 0..(DryTicks + Div + 1) BY Sizes
    <3> QED BY <3>1, <3>2
  <2>7. overlap \in BOOLEAN BY DEF Histories
  <2> DEFINE dry1 == dry
             overlap1 == overlap
             base1 == base
             m == 0..(PrimeTimeout + 1)
             d == 0..(DryTicks + Div + 1)
             o == 0..Capacity
  <2>8. Histories = [clean : BOOLEAN, base : Nat, frames : Nat, last : Nat, owed : o,
                     dry : d, mute : m, overlap : BOOLEAN]
    BY DEF Histories
  <2>9. dry1 \in d /\ overlap1 \in BOOLEAN /\ base1 \in Nat
        /\ seen = [h EXCEPT !.base = base1, !.dry = dry1, !.overlap = overlap1]
    BY <2>5, <2>6, <2>7
  <2> HIDE DEF dry1, overlap1, base1, m, d, o, seen
  <2>10. /\ seen \in Histories /\ seen.base = base1 /\ seen.dry = dry1 /\ seen.overlap = overlap1
         /\ seen.clean = h.clean /\ seen.owed = h.owed /\ seen.mute = h.mute
         /\ seen.frames = h.frames /\ seen.last = h.last
    BY <2>8, <2>9
  <2>11. /\ Lost(seen) \in Histories /\ ~Lost(seen).clean /\ Lost(seen).dry = seen.dry
         /\ Lost(seen).overlap = seen.overlap /\ Lost(seen).owed = seen.owed
         /\ Lost(seen).mute = seen.mute
    BY <2>8, <2>10 DEF Lost
  <2> QED BY <2>1, <2>10, <2>11 DEF TryHist, base1, dry1, overlap1, a, b
<1> QED BY <1>9, <1>10, <1>11

LEMMA ChannelFields ==
    ASSUME NEW c \in Channels
    PROVE  /\ c.pending \in BOOLEAN /\ c.for_fma \in BOOLEAN /\ c.into \in BOOLEAN
           /\ c.fma_bit \in BOOLEAN /\ c.count \in Word /\ c.count \in Nat
           /\ c.at \in Nat /\ c.at >= 1
<1>1. /\ c.pending \in BOOLEAN /\ c.for_fma \in BOOLEAN /\ c.into \in BOOLEAN
      /\ c.fma_bit \in BOOLEAN /\ c.count \in Word /\ c.at \in Nat \ {0}
  BY DEF Channels
<1>2. MaxWord \in Nat BY DEF MaxWord
<1>3. c.count \in Nat BY <1>1, <1>2 DEF Word
<1> QED BY <1>1, <1>3

LEMMA ServedFits ==
    ASSUME NEW c, Fits(c)
    PROVE  Fits(Served(c))
<1>1. c \in Channels /\ c.at + 2 * c.count <= Len(disc.bytes) + 1 BY DEF Fits
<1>2. c.count \in Nat /\ c.at \in Nat /\ c.at >= 1 /\ c.for_fma \in BOOLEAN /\ c.fma_bit \in BOOLEAN
  BY <1>1, ChannelFields
<1>3. CASE c.count = 0 BY <1>3 DEF Served
<1>4. CASE c.count # 0 /\ c.into
  <2>1. Served(c) = [c EXCEPT !.pending = FALSE] BY <1>4 DEF Served
  <2> QED BY <1>1, <2>1 DEF Fits, Channels
<1>5. CASE c.count # 0 /\ ~c.into
  <2> DEFINE at == c.at + 2 * c.count
             bit == c.fma_bit /\ ~c.for_fma
             s == Served(c)
  <2>1. s = [c EXCEPT !.pending = FALSE, !.for_fma = FALSE, !.count = 0,
                      !.at = at, !.fma_bit = bit]
    BY <1>5 DEF Served, Complete
  <2>2. at \in Nat \ {0} /\ bit \in BOOLEAN /\ 0 \in Word BY <1>2 DEF Word, MaxWord
  <2> HIDE DEF at, bit, s
  <2>3. s \in Channels /\ s.at = at /\ s.count = 0 BY <1>1, <2>1, <2>2 DEF Channels
  <2>4. at + 2 * 0 = at BY <2>2
  <2>5. at <= Len(disc.bytes) + 1 BY <1>1 DEF at
  <2> QED BY <2>3, <2>4, <2>5 DEF Fits, s
<1> QED BY <1>3, <1>4, <1>5

\* A transfer, whichever handler makes it.
LEMMA TryType ==
    ASSUME TypeInv, NEW c, Fits(c), NEW f \in AudioUnits, NEW h \in Histories, try_dma(c, f, h),
           disc' = disc
    PROVE  /\ m_audio_demux' \in Demuxers /\ Sound(m_audio') /\ m_audio' \in Audios
           /\ fma' \in AudioUnits /\ hist' \in Histories /\ Fits(dma)' /\ dma' \in Channels
<1>1. TryMoves(c, f) /\ TryHist(c, h) BY TryDma
<1>2. Fits(Served(c)) BY ServedFits
<1>3. Fits(dma)' BY <1>1, <1>2 DEF TryMoves, Fits
<1> QED BY <1>1, <1>3 DEF TryMoves, TryHist, Fits, Sound

LEMMA LostType ==
    ASSUME NEW h \in Histories
    PROVE  /\ Lost(h) \in Histories /\ Afresh(h) \in Histories
           /\ ~Lost(h).clean /\ Lost(h).owed = h.owed /\ Lost(h).dry = h.dry
           /\ Lost(h).mute = h.mute /\ Lost(h).overlap = h.overlap
           /\ Afresh(h).base = 0 /\ Afresh(h).frames = 0 /\ Afresh(h).owed = h.owed
           /\ Afresh(h).dry = h.dry /\ Afresh(h).mute = h.mute /\ Afresh(h).overlap = h.overlap
<1> DEFINE m == 0..(PrimeTimeout + 1)
           d == 0..(DryTicks + Div + 1)
           o == 0..Capacity
<1>1. Histories = [clean : BOOLEAN, base : Nat, frames : Nat, last : Nat, owed : o,
                     dry : d, mute : m, overlap : BOOLEAN]
  BY DEF Histories
<1> HIDE DEF m, d, o
<1>2. /\ Lost(h) \in Histories
      /\ ~Lost(h).clean /\ Lost(h).owed = h.owed /\ Lost(h).dry = h.dry
      /\ Lost(h).mute = h.mute /\ Lost(h).overlap = h.overlap
      /\ Lost(h).base = 0 /\ Lost(h).frames = 0
  BY <1>1 DEF Lost
<1> DEFINE l == Lost(h)
<1> HIDE DEF l
<1>3. Afresh(h) = [l EXCEPT !.clean = TRUE] /\ l \in Histories BY <1>2 DEF Afresh, l
<1>4. /\ Afresh(h) \in Histories
      /\ Afresh(h).owed = l.owed /\ Afresh(h).dry = l.dry
      /\ Afresh(h).mute = l.mute /\ Afresh(h).overlap = l.overlap
      /\ Afresh(h).base = l.base /\ Afresh(h).frames = l.frames
  BY <1>1, <1>3
<1> QED BY <1>2, <1>4 DEF l

\* Parts of a history that change, alone or together.
LEMMA HistType ==
    ASSUME NEW h \in Histories
    PROVE  /\ \A x \in BOOLEAN : [h EXCEPT !.overlap = x] \in Histories
           /\ \A x \in Nat : [h EXCEPT !.base = x] \in Histories
           /\ \A x \in 0..(DryTicks + Div + 1) : [h EXCEPT !.dry = x] \in Histories
           /\ \A x \in 0..(PrimeTimeout + 1) : [h EXCEPT !.mute = x] \in Histories
           /\ \A x \in 0..Capacity : \A y \in 0..(PrimeTimeout + 1) :
                 [h EXCEPT !.owed = x, !.mute = y] \in Histories
           /\ \A x \in 0..Capacity : \A y \in 0..(DryTicks + Div + 1) :
                 [h EXCEPT !.owed = x, !.dry = y] \in Histories
           /\ \A x, y, z \in Nat : [h EXCEPT !.frames = x, !.base = y, !.last = z] \in Histories
<1> DEFINE m == 0..(PrimeTimeout + 1)
           d == 0..(DryTicks + Div + 1)
           o == 0..Capacity
<1>1. Histories = [clean : BOOLEAN, base : Nat, frames : Nat, last : Nat, owed : o,
                     dry : d, mute : m, overlap : BOOLEAN]
  BY DEF Histories
<1> HIDE DEF m, d, o
<1>2. \A x \in BOOLEAN : [h EXCEPT !.overlap = x] \in Histories BY <1>1
<1>3. \A x \in Nat : [h EXCEPT !.base = x] \in Histories BY <1>1
<1>4. \A x \in d : [h EXCEPT !.dry = x] \in Histories BY <1>1
<1>5. \A x \in m : [h EXCEPT !.mute = x] \in Histories BY <1>1
<1>6. \A x \in o : \A y \in m : [h EXCEPT !.owed = x, !.mute = y] \in Histories BY <1>1
<1>7. \A x \in o : \A y \in d : [h EXCEPT !.owed = x, !.dry = y] \in Histories BY <1>1
<1>8. \A x, y, z \in Nat : [h EXCEPT !.frames = x, !.base = y, !.last = z] \in Histories BY <1>1
<1> QED BY <1>2, <1>3, <1>4, <1>5, <1>6, <1>7, <1>8 DEF m, d, o

LEMMA HistFields ==
    ASSUME NEW h \in Histories
    PROVE  /\ h.clean \in BOOLEAN /\ h.base \in Nat /\ h.frames \in Nat /\ h.last \in Nat
           /\ h.owed \in 0..Capacity /\ h.owed \in Nat
           /\ h.dry \in 0..(DryTicks + Div + 1) /\ h.dry \in Nat
           /\ h.mute \in 0..(PrimeTimeout + 1) /\ h.mute \in Nat /\ h.overlap \in BOOLEAN
<1>1. /\ h.clean \in BOOLEAN /\ h.base \in Nat /\ h.frames \in Nat /\ h.last \in Nat
      /\ h.owed \in 0..Capacity /\ h.dry \in 0..(DryTicks + Div + 1)
      /\ h.mute \in 0..(PrimeTimeout + 1) /\ h.overlap \in BOOLEAN
  BY DEF Histories
<1> QED BY <1>1, Sizes

LEMMA UnitFields ==
    ASSUME NEW f \in AudioUnits
    PROVE  /\ f.stream \in Streams /\ f.unf \in BOOLEAN /\ f.decoding \in BOOLEAN
           /\ f.dsp_enable \in BOOLEAN /\ f.start_valid \in BOOLEAN /\ f.start_in \in Int
           /\ f.since \in 0..DryTicks /\ f.since \in Nat
           /\ f.dclk \in 0..(Div - 1) /\ f.dclk \in Nat
<1>1. /\ f.stream \in Streams /\ f.unf \in BOOLEAN /\ f.decoding \in BOOLEAN
      /\ f.dsp_enable \in BOOLEAN /\ f.start_valid \in BOOLEAN /\ f.start_in \in Int
      /\ f.since \in 0..DryTicks /\ f.dclk \in 0..(Div - 1)
  BY DEF AudioUnits
<1> QED BY <1>1, Sizes

\* Registers from the parts of registers.
LEMMA UnitType ==
    ASSUME NEW f \in AudioUnits
    PROVE  /\ \A u, d, p, v \in BOOLEAN : \A s \in Int : \A n \in 0..DryTicks :
                 [f EXCEPT !.dsp_enable = p, !.unf = u, !.decoding = d, !.start_valid = v,
                           !.start_in = s, !.since = n] \in AudioUnits
           /\ \A c \in 0..(Div - 1) : \A p, v \in BOOLEAN : \A s \in Int : \A n \in 0..DryTicks :
                 [f EXCEPT !.dclk = c, !.start_valid = v, !.start_in = s, !.dsp_enable = p,
                           !.since = n] \in AudioUnits
           /\ \A u \in BOOLEAN : [f EXCEPT !.unf = u] \in AudioUnits
           /\ \A u \in BOOLEAN : [f EXCEPT !.decoding = u] \in AudioUnits
           /\ \A n \in Streams : [f EXCEPT !.stream = n] \in AudioUnits
<1> DEFINE t == 0..DryTicks
           k == 0..(Div - 1)
<1>1. AudioUnits = [stream : Streams, unf : BOOLEAN, decoding : BOOLEAN, dsp_enable : BOOLEAN,
           start_valid : BOOLEAN, start_in : Int, since : t, dclk : k]
  BY DEF AudioUnits
<1> HIDE DEF t, k
<1>2. ASSUME NEW u \in BOOLEAN, NEW d \in BOOLEAN, NEW p \in BOOLEAN, NEW v \in BOOLEAN,
             NEW s \in Int, NEW n \in t
      PROVE  [f EXCEPT !.dsp_enable = p, !.unf = u, !.decoding = d, !.start_valid = v,
                       !.start_in = s, !.since = n] \in AudioUnits
  <2> DEFINE g == [f EXCEPT !.dsp_enable = p, !.unf = u, !.decoding = d]
  <2>1. g \in AudioUnits BY <1>1
  <2>2. [f EXCEPT !.dsp_enable = p, !.unf = u, !.decoding = d, !.start_valid = v,
                  !.start_in = s, !.since = n]
           = [g EXCEPT !.start_valid = v, !.start_in = s, !.since = n]
    BY <1>1
  <2> HIDE DEF g
  <2> QED BY <1>1, <2>1, <2>2, ZenonT(40)
<1>3. \A c \in k : \A p, v \in BOOLEAN : \A s \in Int : \A n \in t :
                 [f EXCEPT !.dclk = c, !.start_valid = v, !.start_in = s, !.dsp_enable = p,
                           !.since = n] \in AudioUnits
  BY <1>1
<1>4. \A u \in BOOLEAN : [f EXCEPT !.unf = u] \in AudioUnits BY <1>1
<1>5. \A u \in BOOLEAN : [f EXCEPT !.decoding = u] \in AudioUnits BY <1>1
<1>6. \A n \in Streams : [f EXCEPT !.stream = n] \in AudioUnits BY <1>1
<1> QED BY <1>2, <1>3, <1>4, <1>5, <1>6 DEF t, k

LEMMA ResetTypes ==
    /\ FmaReset \in AudioUnits /\ DmaReset \in Channels /\ OutReset \in Outputs
    /\ HistInit \in Histories
<1>1. FmaReset.stream \in Streams
  <2> DEFINE S == Streams
  <2>1. S \subseteq Nat /\ S # {} BY DvcAudioConstants
  <2> HIDE DEF S
  <2>2. First(S) \in S BY <2>1, FirstIs
  <2> QED BY <2>2 DEF First, S, FmaReset
<1>2. FmaReset \in AudioUnits
  <2>1. 0 \in 0..DryTicks /\ 0 \in 0..(Div - 1) BY Sizes
  <2> DEFINE t == 0..DryTicks
             k == 0..(Div - 1)
             n == FmaReset.stream
  <2>2. FmaReset = [stream |-> n,
             unf |-> FALSE, decoding |-> FALSE, dsp_enable |-> FALSE, start_valid |-> FALSE,
             start_in |-> 0, since |-> 0, dclk |-> 0]
    BY DEF FmaReset
  <2>3. n \in Streams BY <1>1
  <2>4. AudioUnits = [stream : Streams, unf : BOOLEAN, decoding : BOOLEAN, dsp_enable : BOOLEAN,
             start_valid : BOOLEAN, start_in : Int, since : t, dclk : k]
    BY DEF AudioUnits
  <2>5. 0 \in t /\ 0 \in k BY <2>1
  <2> HIDE DEF t, k, n
  <2> QED BY <2>2, <2>3, <2>4, <2>5
<1>3. DmaReset \in Channels
  <2>1. 0 \in Word /\ 1 \in Nat \ {0} BY DEF Word, MaxWord
  <2> QED BY <2>1 DEF DmaReset, Channels
<1>4. OutReset \in Outputs
  <2>1. 0 \in 0..(Capacity - 1) BY Sizes
  <2>2. [i \in 0..Capacity - 1 |-> "0"] \in [0..(Capacity - 1) -> {"l", "r", "0"}] OBVIOUS
  <2> QED BY <2>1, <2>2 DEF OutReset, Outputs
<1>5. HistInit \in Histories
  <2> DEFINE m == 0..(PrimeTimeout + 1)
             d == 0..(DryTicks + Div + 1)
             o == 0..Capacity
  <2>1. Histories = [clean : BOOLEAN, base : Nat, frames : Nat, last : Nat, owed : o,
                     dry : d, mute : m, overlap : BOOLEAN]
    BY DEF Histories
  <2>2. 0 \in m /\ 0 \in d /\ 0 \in o BY Sizes
  <2> HIDE DEF m, d, o
  <2> QED BY <2>1, <2>2 DEF HistInit
<1> QED BY <1>2, <1>3, <1>4, <1>5

\* The registers and the history a tick starts from.
Due == fma.start_valid /\ fma.start_in <= 1
Ticked ==
    [fma EXCEPT !.dclk = (@ + 1) % Div, !.start_valid = @ /\ ~Due,
                !.start_in = IF fma.start_valid /\ ~Due THEN @ - 1 ELSE 0,
                !.dsp_enable = @ \/ Due,
                !.since = IF Due THEN 0 ELSE min(@ + 1, DryTicks)]
TickedHist ==
    [hist EXCEPT !.dry = IF Dried /\ fma.decoding THEN min(@ + 1, DryTicks + Div + 1) ELSE 0]

LEMMA TickIs ==
    ASSUME TypeInv
    PROVE  /\ Ticked \in AudioUnits /\ Ticked.stream = fma.stream /\ Ticked.unf = fma.unf
           /\ Ticked.decoding = fma.decoding /\ Ticked.dclk = (fma.dclk + 1) % Div
           /\ Ticked.start_valid = (fma.start_valid /\ ~Due)
           /\ Ticked.dsp_enable = (fma.dsp_enable \/ Due)
           /\ Ticked.since = IF Due THEN 0 ELSE min(fma.since + 1, DryTicks)
           /\ TickedHist \in Histories /\ TickedHist.clean = hist.clean
           /\ TickedHist.base = hist.base /\ TickedHist.frames = hist.frames
           /\ TickedHist.last = hist.last /\ TickedHist.owed = hist.owed
           /\ TickedHist.mute = hist.mute /\ TickedHist.overlap = hist.overlap
           /\ TickedHist.dry = IF Dried /\ fma.decoding
                               THEN min(hist.dry + 1, DryTicks + Div + 1) ELSE 0
<1> DEFINE dclk1 == (fma.dclk + 1) % Div
           valid == fma.start_valid /\ ~Due
           in == IF fma.start_valid /\ ~Due THEN fma.start_in - 1 ELSE 0
           on == fma.dsp_enable \/ Due
           since1 == IF Due THEN 0 ELSE min(fma.since + 1, DryTicks)
           dry1 == IF Dried /\ fma.decoding THEN min(hist.dry + 1, DryTicks + Div + 1) ELSE 0
<1>1. /\ fma \in AudioUnits /\ hist \in Histories BY DEF TypeInv, TypeOK
<1>2. /\ fma.start_valid \in BOOLEAN /\ fma.start_in \in Int /\ fma.dsp_enable \in BOOLEAN
      /\ fma.since \in Nat /\ fma.dclk \in Nat /\ hist.dry \in Nat
  BY <1>1, UnitFields, HistFields
<1>3. DryTicks \in Nat /\ Div \in Nat \ {0} BY Sizes
<1>4. dclk1 \in 0..(Div - 1) BY <1>2, <1>3
<1>5. valid \in BOOLEAN /\ on \in BOOLEAN /\ in \in Int BY <1>2
<1>6. since1 \in 0..DryTicks
  <2>1. min(fma.since + 1, DryTicks) \in 0..DryTicks BY <1>2, <1>3 DEF min
  <2> QED BY <1>3, <2>1
<1>7. dry1 \in 0..(DryTicks + Div + 1)
  <2>1. min(hist.dry + 1, DryTicks + Div + 1) \in 0..(DryTicks + Div + 1) BY <1>2, <1>3 DEF min
  <2>2. 0 \in 0..(DryTicks + Div + 1) BY <1>3
  <2> QED BY <2>1, <2>2
<1>8. Ticked = [fma EXCEPT !.dclk = dclk1, !.start_valid = valid, !.start_in = in,
                           !.dsp_enable = on, !.since = since1]
  BY DEF Ticked
<1>9. TickedHist = [hist EXCEPT !.dry = dry1] BY DEF TickedHist
<1> DEFINE t == 0..DryTicks
           k == 0..(Div - 1)
<1>10. AudioUnits = [stream : Streams, unf : BOOLEAN, decoding : BOOLEAN, dsp_enable : BOOLEAN,
           start_valid : BOOLEAN, start_in : Int, since : t, dclk : k]
  BY DEF AudioUnits
<1>11. dclk1 \in k /\ since1 \in t BY <1>4, <1>6
<1> HIDE DEF dclk1, valid, in, on, since1, dry1, t, k
<1>12. /\ Ticked \in AudioUnits /\ Ticked.stream = fma.stream /\ Ticked.unf = fma.unf
       /\ Ticked.decoding = fma.decoding /\ Ticked.dclk = dclk1 /\ Ticked.start_valid = valid
       /\ Ticked.dsp_enable = on /\ Ticked.since = since1
  BY <1>1, <1>5, <1>8, <1>10, <1>11
<1>13. TickedHist \in Histories BY <1>1, <1>7, <1>9, HistType
<1>14. /\ TickedHist.clean = hist.clean
       /\ TickedHist.base = hist.base /\ TickedHist.frames = hist.frames
       /\ TickedHist.last = hist.last /\ TickedHist.owed = hist.owed
       /\ TickedHist.mute = hist.mute /\ TickedHist.overlap = hist.overlap
       /\ TickedHist.dry = dry1
  BY <1>1, <1>9 DEF Histories
<1> QED BY <1>12, <1>13, <1>14 DEF dclk1, valid, on, since1, dry1

LEMMA TickSteps ==
    ASSUME dclk_tick
    PROVE  /\ phase = "idle"
           /\ \/ dma.pending /\ try_dma(dma, Ticked, TickedHist)
              \/ /\ ~dma.pending /\ fma' = Ticked /\ hist' = TickedHist
                 /\ UNCHANGED <<m_audio_demux, m_audio, dma>>
           /\ phase' = IF fma'.dclk = 0 /\ fma'.dsp_enable THEN "audio" ELSE "idle"
           /\ UNCHANGED <<out, disc>>
BY DEF dclk_tick, Ticked, TickedHist, Due

\* A command to the audio unit, from the channel and the registers it leaves.
Asked(transfer) == [dma EXCEPT !.fma_bit = transfer, !.pending = TRUE, !.for_fma = TRUE]
Taken0 == [dma EXCEPT !.pending = TRUE, !.for_fma = FALSE]
LEMMA AskedIs ==
    ASSUME TypeInv
    PROVE  /\ Fits(Asked(TRUE)) /\ Asked(TRUE).fma_bit = TRUE /\ Asked(TRUE).pending = TRUE
           /\ Asked(TRUE).for_fma = TRUE /\ Asked(TRUE).count = dma.count
           /\ Asked(TRUE).into = dma.into /\ Asked(TRUE).at = dma.at
           /\ Fits(Taken0) /\ Taken0.fma_bit = dma.fma_bit /\ Taken0.pending = TRUE
           /\ Taken0.for_fma = FALSE /\ Taken0.count = dma.count
           /\ Taken0.into = dma.into /\ Taken0.at = dma.at
           /\ [fma EXCEPT !.unf = FALSE] \in AudioUnits
           /\ [hist EXCEPT !.overlap = FALSE] \in Histories
           /\ [hist EXCEPT !.overlap = TRUE] \in Histories
<1>1. fma \in AudioUnits /\ hist \in Histories /\ dma \in Channels /\ Fits(dma)
  BY DEF TypeInv, TypeOK
<1>2. /\ Asked(TRUE) \in Channels /\ Asked(TRUE).fma_bit = TRUE /\ Asked(TRUE).pending = TRUE
      /\ Asked(TRUE).for_fma = TRUE /\ Asked(TRUE).count = dma.count
      /\ Asked(TRUE).into = dma.into /\ Asked(TRUE).at = dma.at
  BY <1>1 DEF Asked, Channels
<1>3. /\ Taken0 \in Channels /\ Taken0.fma_bit = dma.fma_bit /\ Taken0.pending = TRUE
      /\ Taken0.for_fma = FALSE /\ Taken0.count = dma.count
      /\ Taken0.into = dma.into /\ Taken0.at = dma.at
  BY <1>1 DEF Taken0, Channels
<1>4. Fits(Asked(TRUE)) /\ Fits(Taken0) BY <1>1, <1>2, <1>3 DEF Fits
<1>5. /\ [fma EXCEPT !.unf = FALSE] \in AudioUnits
      /\ [hist EXCEPT !.overlap = FALSE] \in Histories
      /\ [hist EXCEPT !.overlap = TRUE] \in Histories
  BY <1>1, UnitType, HistType
<1> QED BY <1>2, <1>3, <1>4, <1>5

LEMMA CommandSteps ==
    ASSUME NEW transfer \in BOOLEAN, NEW stop \in BOOLEAN, write_fma_cmd(transfer, stop)
    PROVE  /\ phase = "idle" /\ phase' \in {"idle", "stop"} /\ UNCHANGED <<out, disc>>
           /\ \/ transfer /\ try_dma(Asked(TRUE), [fma EXCEPT !.unf = FALSE],
                                     [hist EXCEPT !.overlap = FALSE])
              \/ /\ ~transfer /\ dma' = [dma EXCEPT !.fma_bit = FALSE]
                 /\ UNCHANGED <<m_audio_demux, m_audio, fma, hist>>
<1>1. phase = "idle" /\ phase' \in {"idle", "stop"} /\ UNCHANGED <<out, disc>>
  BY DEF write_fma_cmd
<1>2. CASE transfer
  <2> DEFINE d == [dma EXCEPT !.fma_bit = TRUE]
             e == [d EXCEPT !.pending = TRUE, !.for_fma = TRUE]
  <2>1. try_dma(e, [fma EXCEPT !.unf = FALSE], [hist EXCEPT !.overlap = FALSE])
    BY <1>2 DEF write_fma_cmd, request_dma
  <2>2. e = Asked(TRUE) BY DEF Asked
  <2> HIDE DEF e
  <2> QED BY <1>1, <1>2, <2>1, <2>2
<1>3. CASE ~transfer BY <1>1, <1>3 DEF write_fma_cmd
<1> QED BY <1>1, <1>2, <1>3

LEMMA VideoSteps ==
    ASSUME write_syscmd
    PROVE  /\ phase = "idle" /\ UNCHANGED <<out, phase, disc>>
           /\ try_dma(Taken0, fma, [hist EXCEPT !.overlap = TRUE])
BY DEF write_syscmd, request_dma, Taken0

LEMMA ArmSteps ==
    ASSUME TypeInv, NEW count \in Chunks, NEW into \in Directions, ArmChannel(count, into)
    PROVE  /\ phase = "idle" /\ UNCHANGED <<m_audio_demux, m_audio, fma, out, phase, disc>>
           /\ Fits(dma') /\ dma'.count = count /\ dma'.into = into
           /\ dma'.at = IF Untouched THEN 1 ELSE dma.at
           /\ dma'.pending = dma.pending /\ dma'.for_fma = dma.for_fma
           /\ dma'.fma_bit = dma.fma_bit
           /\ hist' = IF Untouched THEN Afresh(hist) ELSE hist
<1> DEFINE from == IF Untouched THEN 1 ELSE dma.at
<1>1. dma \in Channels /\ disc \in Discs BY DEF TypeInv, TypeOK
<1>2. /\ phase = "idle" /\ UNCHANGED <<m_audio_demux, m_audio, fma, out, phase, disc>>
      /\ from + 2 * count - 1 <= Len(disc.bytes)
      /\ dma' = [dma EXCEPT !.count = count, !.into = into, !.at = from]
      /\ hist' = IF Untouched THEN Afresh(hist) ELSE hist
  BY DEF ArmChannel
<1>3. count \in Word /\ into \in BOOLEAN BY DvcAudioConstants
<1>4. dma.at \in Nat /\ dma.at >= 1 BY <1>1, ChannelFields
<1>5. from \in Nat \ {0} BY <1>4
<1>6. dma'.at = from BY <1>1, <1>2 DEF Channels
<1> HIDE DEF from
<1>7. dma' \in Channels /\ dma'.count = count BY <1>1, <1>2, <1>3, <1>5 DEF Channels
<1>8. dma'.into = into /\ dma'.pending = dma.pending
  BY <1>1, <1>2, <1>3, <1>5 DEF Channels
<1>9. dma'.for_fma = dma.for_fma /\ dma'.fma_bit = dma.fma_bit
  BY <1>1, <1>2, <1>3, <1>5 DEF Channels
<1>10. Fits(dma')
  <2>1. PICK n : n \in Streams BY DvcAudioConstants
  <2> DEFINE L == Len(disc.bytes)
  <2>2. L \in Nat BY <1>1, <2>1, DiscFields
  <2>3. MaxWord \in Nat BY DEF MaxWord
  <2>4. count \in Nat BY <1>3, <2>3 DEF Word
  <2>5. from + 2 * count - 1 <= L BY <1>2
  <2> HIDE DEF L
  <2>6. from + 2 * count <= L + 1 BY <1>5, <2>2, <2>4, <2>5
  <2> QED BY <1>6, <1>7, <2>6 DEF Fits, L
<1> QED BY <1>2, <1>6, <1>7, <1>8, <1>9, <1>10 DEF from

LEMMA StopSteps ==
    ASSUME TypeInv, Stop
    PROVE  /\ phase = "stop" /\ phase' = "idle" /\ UNCHANGED <<dma, out, disc>>
           /\ m_audio_demux' = demux_reset /\ m_audio' = audio_reset
           /\ fma' \in AudioUnits /\ fma'.stream = fma.stream /\ fma'.unf = FALSE
           /\ fma'.decoding = FALSE /\ fma'.dsp_enable = FALSE /\ fma'.start_valid = FALSE
           /\ fma'.dclk = fma.dclk
           /\ hist' = IF dma.at = 1 THEN Afresh(hist) ELSE Lost(hist)
<1>1. fma \in AudioUnits BY DEF TypeInv, TypeOK
<1>2. /\ phase = "stop" /\ phase' = "idle" /\ UNCHANGED <<dma, out, disc>>
      /\ m_audio_demux' = demux_reset /\ m_audio' = audio_reset
      /\ fma' = [fma EXCEPT !.dsp_enable = FALSE, !.unf = FALSE, !.decoding = FALSE,
                            !.start_valid = FALSE, !.start_in = 0, !.since = 0]
      /\ hist' = IF dma.at = 1 THEN Afresh(hist) ELSE Lost(hist)
  BY DEF Stop
<1>3. 0 \in 0..DryTicks /\ 0 \in Int /\ FALSE \in BOOLEAN BY Sizes
<1>4. fma' \in AudioUnits BY <1>1, <1>2, <1>3, UnitType, Zenon
<1>5. /\ fma'.stream = fma.stream /\ fma'.unf = FALSE
      /\ fma'.decoding = FALSE /\ fma'.dsp_enable = FALSE /\ fma'.start_valid = FALSE
      /\ fma'.dclk = fma.dclk
  BY <1>1, <1>2 DEF AudioUnits
<1> QED BY <1>2, <1>4, <1>5

LEMMA SelectSteps ==
    ASSUME TypeInv, NEW number \in Streams, SelectStream(number)
    PROVE  /\ phase = "idle" /\ UNCHANGED <<m_audio_demux, m_audio, dma, out, phase, disc>>
           /\ m_audio_demux = demux_reset /\ m_audio = audio_reset
           /\ fma' \in AudioUnits /\ fma'.unf = fma.unf
           /\ fma'.decoding = fma.decoding /\ fma'.dsp_enable = fma.dsp_enable
           /\ fma'.start_valid = fma.start_valid /\ fma'.since = fma.since
           /\ fma'.dclk = fma.dclk
           /\ hist' = IF dma.at = 1 THEN Afresh(hist) ELSE Lost(hist)
<1>1. fma \in AudioUnits BY DEF TypeInv, TypeOK
<1>2. /\ phase = "idle" /\ UNCHANGED <<m_audio_demux, m_audio, dma, out, phase, disc>>
      /\ m_audio_demux = demux_reset /\ m_audio = audio_reset
      /\ fma' = [fma EXCEPT !.stream = number]
      /\ hist' = IF dma.at = 1 THEN Afresh(hist) ELSE Lost(hist)
  BY DEF SelectStream, Untouched
<1>3. fma' \in AudioUnits BY <1>1, <1>2, UnitType
<1>4. /\ fma'.unf = fma.unf
      /\ fma'.decoding = fma.decoding /\ fma'.dsp_enable = fma.dsp_enable
      /\ fma'.start_valid = fma.start_valid /\ fma'.since = fma.since
      /\ fma'.dclk = fma.dclk
  BY <1>1, <1>2 DEF AudioUnits
<1> QED BY <1>2, <1>3, <1>4

\* The bytes that leave the buffer with a frame, and where the frame is.
Gone == Len(m_audio.buffer) - Len(m_audio'.buffer)
Found == First(Candidates(m_audio))

LEMMA FrameSteps ==
    ASSUME TypeInv, DecodeFrame
    PROVE  /\ phase = "audio" /\ UNCHANGED <<m_audio_demux, dma, phase, disc>>
           /\ RoomForFrame /\ HasFrame(m_audio) /\ m_audio' = decode(m_audio)
           /\ out' = Pushed(FrameSamples)
           /\ fma' \in AudioUnits /\ fma'.stream = fma.stream /\ fma'.unf = fma.unf
           /\ fma'.decoding = TRUE /\ fma'.dsp_enable = fma.dsp_enable
           /\ fma'.start_valid = fma.start_valid /\ fma'.since = fma.since
           /\ fma'.dclk = fma.dclk
           /\ hist' \in Histories /\ hist'.clean = hist.clean
           /\ hist'.owed = min(hist.owed + Pairs, Capacity) /\ hist'.dry = 0
           /\ hist'.mute = hist.mute /\ hist'.overlap = hist.overlap
           /\ hist.clean => /\ hist'.frames = hist.frames + 1 /\ hist'.base = hist.base + Gone
                            /\ hist'.last = hist.base + Found
<1>1. fma \in AudioUnits /\ hist \in Histories /\ Sound(m_audio) BY DEF TypeInv, TypeOK
<1> DEFINE owed == min(hist.owed + Pairs, Capacity)
           h == [hist EXCEPT !.owed = owed, !.dry = 0]
<1>2. /\ phase = "audio" /\ UNCHANGED <<m_audio_demux, dma, phase, disc>>
      /\ RoomForFrame /\ HasFrame(m_audio) /\ m_audio' = decode(m_audio)
      /\ out' = Pushed(FrameSamples) /\ fma' = [fma EXCEPT !.decoding = TRUE]
  BY DEF DecodeFrame
<1>3. hist' = IF h.clean
              THEN [h EXCEPT !.frames = @ + 1, !.base = @ + Gone, !.last = h.base + Found]
              ELSE h
  BY DEF DecodeFrame, Gone, Found
<1>4. fma' \in AudioUnits BY <1>1, <1>2, UnitType
<1>5. /\ fma'.stream = fma.stream /\ fma'.unf = fma.unf
      /\ fma'.decoding = TRUE /\ fma'.dsp_enable = fma.dsp_enable
      /\ fma'.start_valid = fma.start_valid /\ fma'.since = fma.since
      /\ fma'.dclk = fma.dclk
  BY <1>1, <1>2 DEF AudioUnits
<1>6. owed \in 0..Capacity
  <2>1. hist.owed \in Nat BY <1>1, HistFields
  <2>2. Pairs \in Nat /\ Capacity \in Nat BY Sizes
  <2> QED BY <2>1, <2>2 DEF min
<1>7. 0 \in 0..(DryTicks + Div + 1) BY Sizes
<1>8. h \in Histories BY <1>1, <1>6, <1>7, HistType
<1> DEFINE owed1 == owed
<1>9. h = [hist EXCEPT !.owed = owed1, !.dry = 0] OBVIOUS
<1> HIDE DEF owed1, h
<1>10. /\ h.owed = owed1 /\ h.dry = 0 /\ h.clean = hist.clean /\ h.base = hist.base
       /\ h.frames = hist.frames /\ h.last = hist.last
       /\ h.mute = hist.mute /\ h.overlap = hist.overlap
  BY <1>1, <1>9 DEF Histories
<1>11. Gone \in Nat /\ Found \in Nat
  <2> DEFINE a == m_audio
  <2>1. Sound(a) /\ HasFrame(a) BY <1>1, <1>2
  <2> HIDE DEF a
  <2>2. Len(a.buffer) - Len(decode(a).buffer) \in Nat /\ First(Candidates(a)) \in Nat
    BY <2>1, DecodedFrame
  <2> QED BY <1>2, <2>2 DEF Gone, Found, a
<1> DEFINE fr == h.frames + 1
           ba == h.base + Gone
           la == h.base + Found
<1>12. fr \in Nat /\ ba \in Nat /\ la \in Nat BY <1>8, <1>11, HistFields
<1>13. hist' = IF h.clean THEN [h EXCEPT !.frames = fr, !.base = ba, !.last = la] ELSE h
  BY <1>3
<1>14. fr = hist.frames + 1 /\ ba = hist.base + Gone /\ la = hist.base + Found BY <1>10
<1> HIDE DEF fr, ba, la
<1> DEFINE g == [h EXCEPT !.frames = fr, !.base = ba, !.last = la]
<1>15. g \in Histories BY <1>8, <1>12, HistType
<1>16. /\ g.clean = h.clean /\ g.owed = h.owed /\ g.dry = h.dry /\ g.mute = h.mute
       /\ g.overlap = h.overlap /\ g.frames = fr /\ g.base = ba /\ g.last = la
  BY <1>8 DEF Histories
<1> HIDE DEF g
<1>17. hist' = IF h.clean THEN g ELSE h BY <1>13 DEF g
<1>18. /\ hist' \in Histories /\ hist'.clean = hist.clean
       /\ hist'.owed = owed1 /\ hist'.dry = 0
       /\ hist'.mute = hist.mute /\ hist'.overlap = hist.overlap
       /\ hist.clean => hist'.frames = fr /\ hist'.base = ba /\ hist'.last = la
  BY <1>8, <1>10, <1>15, <1>16, <1>17
<1> QED BY <1>2, <1>4, <1>5, <1>14, <1>18 DEF owed1

LEMMA DrainedSteps ==
    ASSUME TypeInv, Drained
    PROVE  /\ phase = "drained" /\ phase' = "idle"
           /\ UNCHANGED <<m_audio_demux, dma, out, disc, hist>>
           /\ Sound(m_audio') /\ m_audio'.buffer = m_audio.buffer /\ m_audio'.read = m_audio.read
           /\ m_audio'.bit = m_audio.bit
           /\ LET since == IF NothingLeft THEN fma.since ELSE 0
                  dry == m_audio.underflow /\ fma.decoding /\ since >= DryTicks
              IN  /\ fma' \in AudioUnits /\ fma'.stream = fma.stream /\ fma'.unf = (fma.unf \/ dry)
                  /\ fma'.decoding = (fma.decoding /\ ~dry)
                  /\ fma'.dsp_enable = (fma.dsp_enable /\ ~dry)
                  /\ fma'.start_valid = (fma.start_valid /\ ~dry) /\ fma'.since = since
                  /\ fma'.dclk = fma.dclk
<1> DEFINE since1 == IF NothingLeft THEN fma.since ELSE 0
           dry1 == m_audio.underflow /\ fma.decoding /\ since1 >= DryTicks
<1>1. fma \in AudioUnits /\ Sound(m_audio) /\ m_audio \in Audios BY DEF TypeInv, TypeOK
<1>2. /\ phase = "drained" /\ phase' = "idle"
      /\ UNCHANGED <<m_audio_demux, dma, out, disc, hist>>
      /\ m_audio' = [m_audio EXCEPT !.underflow = FALSE]
  BY DEF Drained
<1>3. fma' = [fma EXCEPT
                !.since = since1,
                !.unf = @ \/ dry1, !.decoding = @ /\ ~dry1, !.dsp_enable = @ /\ ~dry1,
                !.start_valid = @ /\ ~dry1, !.start_in = IF dry1 THEN 0 ELSE @]
  BY DEF Drained
<1>4. /\ fma.since \in 0..DryTicks /\ fma.unf \in BOOLEAN /\ fma.decoding \in BOOLEAN
      /\ fma.dsp_enable \in BOOLEAN /\ fma.start_valid \in BOOLEAN /\ fma.start_in \in Int
  BY <1>1, UnitFields
<1>5. since1 \in 0..DryTicks BY <1>4, Sizes
<1> HIDE DEF dry1, since1
<1> DEFINE u == fma.unf \/ dry1
           d == fma.decoding /\ ~dry1
           p == fma.dsp_enable /\ ~dry1
           v == fma.start_valid /\ ~dry1
           s == IF dry1 THEN 0 ELSE fma.start_in
<1>6. u \in BOOLEAN /\ d \in BOOLEAN /\ p \in BOOLEAN /\ v \in BOOLEAN /\ s \in Int BY <1>4
<1>7. fma' = [fma EXCEPT !.dsp_enable = p, !.unf = u, !.decoding = d, !.start_valid = v,
                         !.start_in = s, !.since = since1]
  <2> DEFINE t == 0..DryTicks
             k == 0..(Div - 1)
  <2>1. AudioUnits = [stream : Streams, unf : BOOLEAN, decoding : BOOLEAN, dsp_enable : BOOLEAN,
           start_valid : BOOLEAN, start_in : Int, since : t, dclk : k]
    BY DEF AudioUnits
  <2>2. fma' = [fma EXCEPT !.since = since1, !.unf = u, !.decoding = d, !.dsp_enable = p,
                           !.start_valid = v, !.start_in = s]
    BY <1>3
  <2> HIDE DEF t, k, u, d, p, v, s
  <2> QED BY <1>1, <2>1, <2>2
<1> HIDE DEF u, d, p, v, s
<1>8. fma' \in AudioUnits BY <1>1, <1>5, <1>6, <1>7, UnitType, ZenonT(40)
<1>9. /\ fma'.stream = fma.stream /\ fma'.unf = u /\ fma'.decoding = d /\ fma'.dsp_enable = p
      /\ fma'.start_valid = v /\ fma'.since = since1 /\ fma'.dclk = fma.dclk
  BY <1>1, <1>7 DEF AudioUnits
<1>10. /\ Sound(m_audio') /\ m_audio'.buffer = m_audio.buffer /\ m_audio'.read = m_audio.read
       /\ m_audio'.bit = m_audio.bit
  <2> DEFINE a == m_audio
             b == m_audio'
  <2>1. a.buffer \in Seq(Byte) /\ a.read \in Nat /\ a.bit \in Int /\ FALSE \in BOOLEAN
    BY <1>1, AudioFields
  <2>2. b = [a EXCEPT !.buffer = a.buffer, !.read = a.read, !.bit = a.bit, !.underflow = FALSE]
    BY <1>1, <1>2 DEF Audios
  <2>3. a \in Audios BY <1>1
  <2> HIDE DEF b, a
  <2>4. IsAudio(b, a.buffer, a.read, a.bit, FALSE) BY <2>1, <2>2, <2>3, Rebuilt, Zenon
  <2>5. Sound(a) BY <1>1 DEF a
  <2>6. Sound(b) BY <2>4, <2>5 DEF IsAudio, Sound
  <2> QED BY <2>4, <2>6 DEF IsAudio, a, b
<1> QED BY <1>2, <1>8, <1>9, <1>10 DEF u, d, p, v, dry1, since1

LEMMA LoopSteps ==
    ASSUME TypeInv, LoopEnds
    PROVE  /\ phase = "audio" /\ phase' = "drained"
           /\ UNCHANGED <<m_audio_demux, dma, fma, out, disc, hist>>
           /\ Sound(m_audio') /\ m_audio'.buffer = m_audio.buffer /\ m_audio'.read = m_audio.read
           /\ \/ m_audio' = m_audio /\ ~RoomForFrame
              \/ RoomForFrame /\ ~HasFrame(m_audio) /\ m_audio' = decode(m_audio)
<1>1. Sound(m_audio) BY DEF TypeInv
<1>2. /\ phase = "audio" /\ ~(RoomForFrame /\ HasFrame(m_audio))
      /\ m_audio' = (IF RoomForFrame THEN decode(m_audio) ELSE m_audio)
      /\ phase' = "drained"
      /\ UNCHANGED <<m_audio_demux, dma, fma, out, disc, hist>>
  BY DEF LoopEnds
<1>3. CASE ~RoomForFrame BY <1>1, <1>2, <1>3
<1>4. CASE RoomForFrame
  <2> DEFINE a == m_audio
  <2>1. Sound(a) /\ ~HasFrame(a) /\ m_audio' = decode(a) BY <1>1, <1>2, <1>4
  <2> HIDE DEF a
  <2>2. Sound(decode(a)) /\ decode(a).buffer = a.buffer /\ decode(a).read = a.read
    BY <2>1, DecodedNone
  <2> QED BY <1>2, <1>4, <2>1, <2>2 DEF a
<1> QED BY <1>3, <1>4

LEMMA SaveSteps ==
    ASSUME TypeInv, SaveAndLoad
    PROVE  /\ phase = "idle" /\ UNCHANGED <<m_audio_demux, dma, fma, out, phase, disc>>
           /\ SavesBehind \/ m_audio.bit >= m_audio.read
           /\ m_audio' = Reloaded(m_audio) /\ Sound(m_audio')
           /\ hist' \in Histories
           /\ hist' = IF hist.clean THEN [hist EXCEPT !.base = @ + m_audio.read] ELSE hist
<1>1. Sound(m_audio) /\ m_audio \in Audios /\ hist \in Histories BY DEF TypeInv, TypeOK
<1>2. /\ phase = "idle" /\ UNCHANGED <<m_audio_demux, dma, fma, out, phase, disc>>
      /\ SavesBehind \/ m_audio.bit >= m_audio.read
      /\ m_audio' = Reloaded(m_audio)
      /\ hist' = IF hist.clean THEN [hist EXCEPT !.base = @ + m_audio.read] ELSE hist
  BY DEF SaveAndLoad
<1>3. Sound(m_audio')
  <2> DEFINE a == m_audio
  <2>1. Sound(a) BY <1>1
  <2> HIDE DEF a
  <2>2. Sound(Reloaded(a)) BY <2>1, ReloadedIs
  <2> QED BY <1>2, <2>2 DEF a
<1>4. hist.base + m_audio.read \in Nat BY <1>1, HistFields, AudioFields
<1>5. hist' \in Histories BY <1>1, <1>2, <1>4, HistType
<1> QED BY <1>2, <1>3, <1>5

\* What the sound stream takes, and what it leaves.
Stopped == ~fma.dsp_enable /\ audio_ring_used < 2
Primed == out.primed /\ ~Stopped
Wait ==
    IF Primed THEN out.prime_wait
    ELSE (IF Stopped THEN 0 ELSE out.prime_wait) + (IF audio_ring_used >= 2 THEN Update ELSE 0)
Plays == Primed \/ GaveUp(Wait)
LEMMA SoundSteps ==
    ASSUME TypeInv, sound_stream_update
    PROVE  /\ phase = "idle" /\ UNCHANGED <<m_audio_demux, m_audio, dma, fma, phase, disc>>
           /\ out' \in Outputs /\ out'.ring = out.ring /\ out'.write = out.write
           /\ out'.primed = Plays /\ out'.prime_wait = Wait
           /\ out'.read = IF Plays THEN (out.read + Taken) % Capacity ELSE out.read
           /\ Taken \in Nat /\ Taken <= audio_ring_used
           /\ hist' \in Histories
           /\ hist' = IF Plays THEN [hist EXCEPT !.owed = @ - min(Update, @), !.mute = 0]
                      ELSE IF audio_ring_used >= 2
                      THEN [hist EXCEPT !.mute = min(@ + Update, PrimeTimeout + 1)]
                      ELSE hist
<1>1. out \in Outputs /\ hist \in Histories BY DEF TypeInv, TypeOK
<1>2. /\ out.read \in 0..(Capacity - 1) /\ out.write \in 0..(Capacity - 1)
      /\ out.prime_wait \in Nat
      /\ audio_ring_used \in 0..(Capacity - 1)
      /\ audio_ring_used = Between(out.read, out.write, Capacity)
  BY <1>1, OutFields
<1>3. /\ phase = "idle" /\ UNCHANGED <<m_audio_demux, m_audio, dma, fma, phase, disc>>
      /\ out' = [out EXCEPT !.primed = Plays, !.prime_wait = Wait,
                            !.read = IF Plays THEN (@ + Taken) % Capacity ELSE @]
      /\ hist' = IF Plays THEN [hist EXCEPT !.owed = @ - min(Update, @), !.mute = 0]
                      ELSE IF audio_ring_used >= 2
                      THEN [hist EXCEPT !.mute = min(@ + Update, PrimeTimeout + 1)]
                      ELSE hist
  BY DEF sound_stream_update, Plays, Wait, Primed, Stopped
<1>4. Update \in Nat /\ Capacity \in Nat \ {0} /\ PrimeTimeout \in Nat BY Sizes
<1>5. Wait \in Nat
  <2> QED BY <1>2, <1>4 DEF Wait
<1>6. Plays \in BOOLEAN BY DEF Plays, Primed, GaveUp
<1>7. Taken \in Nat /\ Taken <= audio_ring_used
  <2> DEFINE u == audio_ring_used
  <2>1. u \in Nat BY <1>2, <1>4
  <2> HIDE DEF u
  <2>2. min(Update, u \div 2) \in Nat /\ min(Update, u \div 2) <= u \div 2 BY <1>4, <2>1 DEF min
  <2>3. 2 * (u \div 2) <= u BY <2>1
  <2> QED BY <2>1, <2>2, <2>3 DEF Taken, u
<1> DEFINE read1 == IF Plays THEN (out.read + Taken) % Capacity ELSE out.read
<1>8. read1 \in 0..(Capacity - 1) BY <1>2, <1>4, <1>7
<1>9. out' = [out EXCEPT !.primed = Plays, !.prime_wait = Wait, !.read = read1] BY <1>3
<1> DEFINE o == 0..(Capacity - 1)
           r == [0..(Capacity - 1) -> {"l", "r", "0"}]
<1>10. Outputs = [ring : r, write : o, read : o, primed : BOOLEAN, prime_wait : Nat]
  BY DEF Outputs
<1>11. read1 \in o BY <1>8
<1> HIDE DEF read1, o, r
<1>12. /\ out' \in Outputs /\ out'.ring = out.ring /\ out'.write = out.write
       /\ out'.primed = Plays /\ out'.prime_wait = Wait /\ out'.read = read1
  BY <1>1, <1>5, <1>6, <1>9, <1>10, <1>11
<1>13. hist' \in Histories
  <2>1. hist.owed \in 0..Capacity /\ hist.mute \in Nat BY <1>1, HistFields
  <2>2. hist.owed - min(Update, hist.owed) \in 0..Capacity
    <3> DEFINE x == hist.owed
    <3>1. x \in 0..Capacity BY <2>1
    <3> HIDE DEF x
    <3>2. x - min(Update, x) \in 0..Capacity BY <1>4, <3>1 DEF min
    <3> QED BY <3>2 DEF x
  <2>3. 0 \in 0..(PrimeTimeout + 1) BY <1>4
  <2>4. min(hist.mute + Update, PrimeTimeout + 1) \in 0..(PrimeTimeout + 1)
    BY <1>4, <2>1 DEF min
  <2> DEFINE x == hist.owed - min(Update, hist.owed)
             y == min(hist.mute + Update, PrimeTimeout + 1)
  <2>5. hist' = IF Plays THEN [hist EXCEPT !.owed = x, !.mute = 0]
                ELSE IF audio_ring_used >= 2 THEN [hist EXCEPT !.mute = y] ELSE hist
    BY <1>3
  <2>6. x \in 0..Capacity /\ y \in 0..(PrimeTimeout + 1) BY <2>2, <2>4
  <2> HIDE DEF x, y
  <2>7. [hist EXCEPT !.owed = x, !.mute = 0] \in Histories BY <1>1, <2>3, <2>6, HistType
  <2>8. [hist EXCEPT !.mute = y] \in Histories BY <1>1, <2>6, HistType
  <2> QED BY <1>1, <2>5, <2>7, <2>8
<1> QED BY <1>3, <1>7, <1>12, <1>13 DEF read1

LEMMA DeviceSteps ==
    ASSUME device_reset
    PROVE  /\ phase = "idle" /\ UNCHANGED <<phase, disc>>
           /\ m_audio_demux' = demux_reset /\ m_audio' = audio_reset
           /\ dma' = DmaReset /\ fma' = FmaReset /\ out' = OutReset /\ hist' = HistInit
BY DEF device_reset

LEMMA ResetFits == disc \in Discs => Fits(DmaReset)
<1> SUFFICES ASSUME disc \in Discs PROVE Fits(DmaReset) OBVIOUS
<1>1. PICK n : n \in Streams BY DvcAudioConstants
<1>2. Len(disc.bytes) \in Nat BY <1>1, DiscFields
<1>3. DmaReset \in Channels /\ DmaReset.at = 1 /\ DmaReset.count = 0
  BY ResetTypes DEF DmaReset
<1> QED BY <1>2, <1>3 DEF Fits

LEMMA InitType == Init => TypeInv
<1> SUFFICES ASSUME Init PROVE TypeInv OBVIOUS
<1>1. /\ m_audio_demux = demux_reset /\ m_audio = audio_reset
      /\ dma = DmaReset /\ fma = FmaReset /\ out = OutReset
      /\ phase = "idle" /\ disc \in Discs /\ hist = HistInit
  BY DEF Init
<1>2. TypeOK BY <1>1, ResetType, ResetIsSound, ResetTypes DEF TypeOK
<1>3. Fits(dma) BY <1>1, ResetFits
<1> QED BY <1>1, <1>2, <1>3, ResetIsSound DEF TypeInv

LEMMA NextType == TypeInv /\ [Next]_vars => TypeInv'
<1> SUFFICES ASSUME TypeInv, [Next]_vars PROVE TypeInv' OBVIOUS
<1>1. /\ m_audio_demux \in Demuxers /\ m_audio \in Audios
      /\ dma \in Channels /\ fma \in AudioUnits /\ out \in Outputs
      /\ phase \in {"idle", "stop", "audio", "drained"}
      /\ disc \in Discs /\ hist \in Histories /\ Sound(m_audio) /\ Fits(dma)
  BY DEF TypeInv, TypeOK
<1> DEFINE Goal ==
      /\ m_audio_demux' \in Demuxers /\ Sound(m_audio')
      /\ fma' \in AudioUnits /\ out' \in Outputs
      /\ phase' \in {"idle", "stop", "audio", "drained"}
      /\ disc' = disc /\ hist' \in Histories /\ Fits(dma')
<1>2. ASSUME Goal PROVE TypeInv'
  <2>1. m_audio' \in Audios /\ dma' \in Channels BY <1>2 DEF Sound, Fits
  <2>2. Fits(dma)' BY <1>2 DEF Fits
  <2> QED BY <1>1, <1>2, <2>1, <2>2 DEF TypeInv, TypeOK
<1>3. ASSUME NEW c, Fits(c), NEW f \in AudioUnits, NEW h \in Histories, try_dma(c, f, h),
             disc' = disc, out' \in Outputs, phase' \in {"idle", "stop", "audio", "drained"}
      PROVE  Goal
  <2>1. Fits(dma)' BY <1>3, TryType
  <2>2. Fits(dma') BY <1>3, <2>1 DEF Fits
  <2> QED BY <1>3, <2>2, TryType
<1> HIDE DEF Goal
<1>4. CASE Stop
  <2>1. hist' \in Histories BY <1>1, <1>4, StopSteps, LostType
  <2>2. Goal BY <1>1, <1>4, <2>1, StopSteps, ResetType, ResetIsSound DEF Goal
  <2> QED BY <1>2, <2>2
<1>5. CASE DecodeFrame
  <2>1. out' \in Outputs BY <1>1, <1>5, FrameSteps, FramePushed
  <2>2. Sound(m_audio')
    <3> DEFINE a == m_audio
    <3>1. Sound(a) /\ HasFrame(a) /\ m_audio' = decode(a) BY <1>1, <1>5, FrameSteps
    <3> HIDE DEF a
    <3>2. Sound(decode(a)) BY <3>1, DecodedFrame
    <3> QED BY <3>1, <3>2
  <2>3. Goal BY <1>1, <1>5, <2>1, <2>2, FrameSteps DEF Goal
  <2> QED BY <1>2, <2>3
<1>6. CASE LoopEnds
  <2>1. Goal BY <1>1, <1>6, LoopSteps DEF Goal
  <2> QED BY <1>2, <2>1
<1>7. CASE Drained
  <2>1. fma' \in AudioUnits BY <1>7, DrainedSteps
  <2>2. Goal BY <1>1, <1>7, <2>1, DrainedSteps DEF Goal
  <2> QED BY <1>2, <2>2
<1>8. ASSUME NEW count \in Chunks, NEW into \in Directions, ArmChannel(count, into) PROVE TypeInv'
  <2>1. hist' \in Histories BY <1>1, <1>8, ArmSteps, LostType
  <2>2. Goal BY <1>1, <1>8, <2>1, ArmSteps DEF Goal
  <2> QED BY <1>2, <2>2
<1>9. ASSUME NEW transfer \in BOOLEAN, NEW stop \in BOOLEAN, write_fma_cmd(transfer, stop)
      PROVE  TypeInv'
  <2>1. /\ phase' \in {"idle", "stop", "audio", "drained"} /\ UNCHANGED <<out, disc>>
        /\ \/ transfer /\ try_dma(Asked(TRUE), [fma EXCEPT !.unf = FALSE],
                                  [hist EXCEPT !.overlap = FALSE])
           \/ /\ ~transfer /\ dma' = [dma EXCEPT !.fma_bit = FALSE]
              /\ UNCHANGED <<m_audio_demux, m_audio, fma, hist>>
    BY <1>9, CommandSteps
  <2>2. CASE try_dma(Asked(TRUE), [fma EXCEPT !.unf = FALSE], [hist EXCEPT !.overlap = FALSE])
    <3>1. /\ Fits(Asked(TRUE)) /\ [fma EXCEPT !.unf = FALSE] \in AudioUnits
          /\ [hist EXCEPT !.overlap = FALSE] \in Histories
      BY AskedIs
    <3>2. Goal BY <1>1, <1>3, <2>1, <2>2, <3>1
    <3> QED BY <1>2, <3>2
  <2>3. CASE dma' = [dma EXCEPT !.fma_bit = FALSE]
               /\ UNCHANGED <<m_audio_demux, m_audio, fma, hist>>
    <3>1. Fits(dma') BY <1>1, <2>3 DEF Fits, Channels
    <3>2. Goal BY <1>1, <2>1, <2>3, <3>1 DEF Goal
    <3> QED BY <1>2, <3>2
  <2> QED BY <2>1, <2>2, <2>3
<1>10. CASE write_syscmd
  <2>1. /\ UNCHANGED <<out, phase, disc>> /\ try_dma(Taken0, fma, [hist EXCEPT !.overlap = TRUE])
    BY <1>10, VideoSteps
  <2>2. Fits(Taken0) /\ [hist EXCEPT !.overlap = TRUE] \in Histories BY AskedIs
  <2>3. Goal BY <1>1, <1>3, <2>1, <2>2
  <2> QED BY <1>2, <2>3
<1>11. ASSUME NEW number \in Streams, SelectStream(number) PROVE TypeInv'
  <2>1. hist' \in Histories BY <1>1, <1>11, SelectSteps, LostType
  <2>2. Goal BY <1>1, <1>11, <2>1, SelectSteps DEF Goal
  <2> QED BY <1>2, <2>2
<1>12. CASE dclk_tick
  <2>1. /\ \/ dma.pending /\ try_dma(dma, Ticked, TickedHist)
           \/ /\ ~dma.pending /\ fma' = Ticked /\ hist' = TickedHist
              /\ UNCHANGED <<m_audio_demux, m_audio, dma>>
        /\ phase' \in {"idle", "stop", "audio", "drained"} /\ UNCHANGED <<out, disc>>
    BY <1>12, TickSteps
  <2>2. Ticked \in AudioUnits /\ TickedHist \in Histories BY TickIs
  <2>3. CASE try_dma(dma, Ticked, TickedHist)
    <3>1. Goal BY <1>1, <1>3, <2>1, <2>2, <2>3
    <3> QED BY <1>2, <3>1
  <2>4. CASE /\ fma' = Ticked /\ hist' = TickedHist
             /\ UNCHANGED <<m_audio_demux, m_audio, dma>>
    <3>1. Goal BY <1>1, <2>1, <2>2, <2>4 DEF Goal
    <3> QED BY <1>2, <3>1
  <2> QED BY <2>1, <2>3, <2>4
<1>13. CASE sound_stream_update
  <2>1. Goal BY <1>1, <1>13, SoundSteps DEF Goal
  <2> QED BY <1>2, <2>1
<1>14. CASE device_reset
  <2>1. Fits(DmaReset) BY <1>1, ResetFits
  <2>2. Goal BY <1>1, <1>14, <2>1, DeviceSteps, ResetType, ResetIsSound, ResetTypes DEF Goal
  <2> QED BY <1>2, <2>2
<1>15. CASE SaveAndLoad
  <2>1. Goal BY <1>1, <1>15, SaveSteps DEF Goal
  <2> QED BY <1>2, <2>1
<1>16. CASE UNCHANGED vars
  <2>1. Goal BY <1>1, <1>16 DEF Goal, vars
  <2> QED BY <1>2, <2>1
<1> QED BY <1>4, <1>5, <1>6, <1>7, <1>8, <1>9, <1>10, <1>11, <1>12, <1>13, <1>14, <1>15, <1>16
        DEF Next, Call, Driver

\* The silence before the cushion is there is counted with the wait for it.
MuteInv ==
    hist.mute > 0 =>
        /\ audio_ring_used >= 2 /\ ~out.primed
        /\ hist.mute <= out.prime_wait /\ out.prime_wait < PrimeTimeout
RingInv == TypeInv /\ RingIsPaired /\ MuteInv

LEMMA RingKept ==
    ASSUME RingInv, TypeInv', UNCHANGED out, hist'.owed = hist.owed, hist'.mute = hist.mute
    PROVE  RingInv'
<1>1. audio_ring_used' = audio_ring_used BY DEF audio_ring_used
<1>2. RingIsPaired' BY <1>1 DEF RingInv, RingIsPaired
<1>3. MuteInv' BY <1>1 DEF RingInv, MuteInv
<1> QED BY <1>2, <1>3 DEF RingInv

LEMMA RingFramed ==
    ASSUME RingInv, TypeInv', DecodeFrame
    PROVE  RingInv'
<1> DEFINE u == audio_ring_used
           n == 2 * Pairs
           o == Pushed(FrameSamples)
           c == Capacity
<1>1. /\ out \in Outputs /\ hist \in Histories BY DEF RingInv, TypeInv, TypeOK
<1>2. /\ RoomForFrame /\ out' = o /\ hist'.owed = min(hist.owed + Pairs, Capacity)
      /\ hist'.mute = hist.mute
  BY FrameSteps DEF RingInv
<1>3. /\ o.read = out.read /\ o.primed = out.primed /\ o.prime_wait = out.prime_wait
      /\ Between(o.read, o.write, Capacity) = u + n
      /\ \A k \in 0..(u - 1) :
            o.ring[(o.read + k) % Capacity] = out.ring[(out.read + k) % Capacity]
      /\ \A k \in 0..(Capacity - 1) :
            u <= k /\ k < u + n =>
               o.ring[(o.read + k) % Capacity] = IF (k - u) % 2 = 0 THEN "l" ELSE "r"
  BY <1>1, <1>2, FramePushed
<1>4. u = 2 * hist.owed /\ \A k \in 0..(u - 1) :
          out.ring[(out.read + k) % Capacity] = IF k % 2 = 0 THEN "l" ELSE "r"
  BY DEF RingInv, RingIsPaired
<1>5. hist.owed \in Nat /\ Pairs \in Nat /\ c \in Nat BY <1>1, HistFields, Sizes
<1>6. u \in 0..(c - 1) /\ n <= c - 1 - u BY <1>1, <1>2, OutFields DEF RoomForFrame
<1>7. audio_ring_used' = u + n BY <1>2, <1>3 DEF audio_ring_used, Between
<1> DEFINE w == hist.owed
<1> HIDE DEF u, o, c, w
<1>8. hist'.owed = w + Pairs
  <2>1. w + Pairs <= c BY <1>4, <1>5, <1>6 DEF w
  <2>2. w \in Nat BY <1>5 DEF w
  <2>3. min(w + Pairs, c) = w + Pairs BY <1>5, <2>1, <2>2, MinIs
  <2> QED BY <1>2, <2>3 DEF w, c
<1>9. u + n = 2 * (w + Pairs) BY <1>4, <1>5 DEF w
<1>10. ASSUME NEW k \in 0..(u + n - 1)
       PROVE  o.ring[(o.read + k) % Capacity] = IF k % 2 = 0 THEN "l" ELSE "r"
  <2>1. CASE k < u
    <3>1. k \in 0..(u - 1) BY <1>6, <2>1
    <3> QED BY <1>3, <1>4, <3>1
  <2>2. CASE ~(k < u)
    <3>1. k \in 0..(c - 1) /\ u <= k /\ k < u + n BY <1>5, <1>6, <2>2
    <3>2. o.ring[(o.read + k) % Capacity] = IF (k - u) % 2 = 0 THEN "l" ELSE "r"
      BY <1>3, <3>1 DEF c
    <3>3. (k - u) % 2 = 0 <=> k % 2 = 0
      <4>1. k \in Nat /\ w \in Nat /\ u = 2 * w BY <1>4, <1>5, <1>6 DEF w
      <4> QED BY <4>1
    <3> QED BY <3>2, <3>3
  <2> QED BY <2>1, <2>2
<1>11. RingIsPaired'
  <2> HIDE DEF n
  <2>1. audio_ring_used' = 2 * hist'.owed BY <1>7, <1>8, <1>9
  <2>2. \A k \in 0..(audio_ring_used' - 1) :
           out'.ring[(out'.read + k) % Capacity] = IF k % 2 = 0 THEN "l" ELSE "r"
    <3>1. out' = o BY <1>2
    <3> SUFFICES ASSUME NEW k \in 0..(audio_ring_used' - 1)
                 PROVE  o.ring[(o.read + k) % Capacity] = IF k % 2 = 0 THEN "l" ELSE "r"
      BY <3>1, Zenon
    <3>2. k \in 0..(u + n - 1)
      <4>1. u \in Int /\ n \in Int BY <1>5, <1>6 DEF n
      <4> QED BY <1>7, <4>1
    <3> QED BY <1>10, <3>2
  <2> QED BY <2>1, <2>2 DEF RingIsPaired
<1>12. MuteInv'
  <2>1. u <= u + n BY <1>5, <1>6
  <2>2. u \in Nat /\ u + n \in Nat BY <1>5, <1>6
  <2> HIDE DEF n
  <2>3. u >= 2 => u + n >= 2 BY <2>1, <2>2
  <2> QED BY <1>2, <1>3, <1>7, <2>3 DEF RingInv, MuteInv, u
<1> QED BY <1>11, <1>12 DEF RingInv

LEMMA RingPlayed ==
    ASSUME RingInv, TypeInv', sound_stream_update
    PROVE  RingInv'
<1> DEFINE u == audio_ring_used
           c == Capacity
           t == Taken
           w == hist.owed
<1>1. out \in Outputs /\ hist \in Histories /\ TypeInv BY DEF RingInv, TypeInv, TypeOK
<1>2. /\ out'.ring = out.ring /\ out'.write = out.write
      /\ out'.primed = Plays /\ out'.prime_wait = Wait
      /\ out'.read = IF Plays THEN (out.read + Taken) % Capacity ELSE out.read
      /\ t \in Nat /\ t <= u
      /\ hist' = IF Plays THEN [hist EXCEPT !.owed = @ - min(Update, @), !.mute = 0]
                 ELSE IF u >= 2
                 THEN [hist EXCEPT !.mute = min(@ + Update, PrimeTimeout + 1)]
                 ELSE hist
  BY <1>1, SoundSteps
<1>3. u = 2 * w /\ \A k \in 0..(u - 1) :
          out.ring[(out.read + k) % Capacity] = IF k % 2 = 0 THEN "l" ELSE "r"
  BY DEF RingInv, RingIsPaired
<1>4. /\ u \in 0..(c - 1) /\ u = Between(out.read, out.write, c)
      /\ out.read \in 0..(c - 1) /\ out.write \in 0..(c - 1) /\ out.prime_wait \in Nat
  BY <1>1, OutFields
<1>5. c \in Nat \ {0} /\ w \in Nat /\ hist.mute \in Nat /\ Update \in Nat /\ PrimeTimeout \in Nat
  BY <1>1, HistFields, Sizes
<1>6. audio_ring_used' = Between(out'.read, out'.write, c) BY DEF audio_ring_used, Between
<1>7. CASE Plays
  <2>1. /\ (out.read + t) % c \in 0..(c - 1)
        /\ Between((out.read + t) % c, out.write, c) = Between(out.read, out.write, c) - t
        /\ \A k \in 0..(c - 1) : t + k < c =>
              (((out.read + t) % c) + k) % c = (out.read + (t + k)) % c
    <3> DEFINE r == out.read
               v == out.write
    <3>1. r \in 0..(c - 1) /\ v \in 0..(c - 1) /\ t <= Between(r, v, c) /\ t \in Nat
      BY <1>2, <1>4
    <3> HIDE DEF r, v, c, t, u
    <3>2. /\ (r + t) % c \in 0..(c - 1) /\ Between((r + t) % c, v, c) = Between(r, v, c) - t
          /\ \A k \in 0..(c - 1) : t + k < c => (((r + t) % c) + k) % c = (r + (t + k)) % c
      <4>1. c \in Nat \ {0} BY <1>5
      <4> QED BY <3>1, <4>1, RingReads, ZenonT(40)
    <3> QED BY <3>2 DEF r, v
  <2>2. audio_ring_used' = u - t BY <1>2, <1>4, <1>6, <1>7, <2>1
  <2>3. t = 2 * min(Update, w)
    <3>1. u \div 2 = w BY <1>3, <1>5
    <3> QED BY <3>1 DEF Taken
  <2>4. hist'.owed = w - min(Update, w) /\ hist'.mute = 0
    BY <1>1, <1>2, <1>7 DEF Histories
  <2> HIDE DEF u, t, c, w
  <2>5. min(Update, w) \in Nat BY <1>5 DEF min
  <2>6. u - t = 2 * (w - min(Update, w)) BY <1>3, <1>5, <2>3, <2>5
  <2>7. ASSUME NEW k \in 0..(u - t - 1)
        PROVE  out'.ring[(out'.read + k) % Capacity] = IF k % 2 = 0 THEN "l" ELSE "r"
    <3>1. k \in 0..(c - 1) /\ t + k < c /\ t + k \in 0..(u - 1) BY <1>2, <1>4, <1>5
    <3>2. (((out.read + t) % c) + k) % c = (out.read + (t + k)) % c BY <2>1, <3>1
    <3>3. out.ring[(out.read + (t + k)) % c] = IF (t + k) % 2 = 0 THEN "l" ELSE "r"
      BY <1>3, <3>1 DEF c
    <3>4. (t + k) % 2 = 0 <=> k % 2 = 0
      <4> DEFINE m == min(Update, w)
      <4>1. m \in Nat /\ t = 2 * m /\ k \in Nat BY <2>3, <2>5, <3>1
      <4> HIDE DEF m
      <4> QED BY <4>1
    <3>5. out'.read = (out.read + t) % c BY <1>2, <1>7 DEF t, c
    <3> QED BY <1>2, <3>2, <3>3, <3>4, <3>5 DEF c
  <2>8. RingIsPaired' BY <2>2, <2>4, <2>6, <2>7 DEF RingIsPaired
  <2>9. MuteInv' BY <2>4 DEF MuteInv
  <2> QED BY <2>8, <2>9 DEF RingInv
<1>8. CASE ~Plays
  <2>1. audio_ring_used' = u BY <1>2, <1>4, <1>6, <1>8
  <2>2. hist'.owed = w BY <1>1, <1>2, <1>8 DEF Histories
  <2>3. out'.read = out.read BY <1>2, <1>8
  <2>4. RingIsPaired' BY <1>2, <1>3, <2>1, <2>2, <2>3 DEF RingIsPaired
  <2>5. ~Primed /\ Wait < PrimeTimeout
    <3>1. Wait \in Nat
      <4> QED BY <1>4, <1>5 DEF Wait
    <3> QED BY <1>5, <1>8, <3>1 DEF Plays, GaveUp
  <2>6. CASE u >= 2
    <3>1. hist'.mute = min(hist.mute + Update, PrimeTimeout + 1)
      BY <1>1, <1>2, <1>8, <2>6 DEF Histories
    <3>2. ~Stopped /\ ~out.primed BY <2>5, <2>6, <1>4, <1>5 DEF Stopped, Primed
    <3>3. Wait = out.prime_wait + Update BY <2>5, <2>6, <3>2 DEF Wait
    <3>4. hist.mute <= out.prime_wait BY <1>4, <1>5 DEF RingInv, MuteInv
    <3>5. min(hist.mute + Update, PrimeTimeout + 1) <= hist.mute + Update BY <1>5 DEF min
    <3>6. hist'.mute <= Wait
      <4> DEFINE x == hist.mute
                 y == out.prime_wait
                 z == hist'.mute
      <4>1. x \in Nat /\ y \in Nat /\ x <= y /\ z <= x + Update BY <1>4, <1>5, <3>1, <3>4, <3>5
      <4>2. z \in Int BY <1>5, <3>1 DEF min
      <4> HIDE DEF x, y, z
      <4>3. z <= y + Update BY <1>5, <4>1, <4>2
      <4> QED BY <3>3, <4>3 DEF y, z
    <3>7. ~out'.primed /\ out'.prime_wait = Wait BY <1>2, <1>8
    <3> QED BY <2>1, <2>4, <2>5, <2>6, <3>6, <3>7 DEF RingInv, MuteInv
  <2>7. CASE ~(u >= 2)
    <3>1. hist' = hist BY <1>2, <1>8, <2>7
    <3>2. hist.mute = 0 BY <1>5, <2>7 DEF RingInv, MuteInv
    <3> QED BY <2>4, <3>1, <3>2 DEF RingInv, MuteInv
  <2> QED BY <2>6, <2>7
<1> QED BY <1>7, <1>8

LEMMA InitRing == Init => RingInv
<1> SUFFICES ASSUME Init PROVE RingInv OBVIOUS
<1>1. out = OutReset /\ hist = HistInit BY DEF Init
<1>2. out.read = 0 /\ out.write = 0 /\ hist.owed = 0 /\ hist.mute = 0
  BY <1>1 DEF OutReset, HistInit
<1>3. audio_ring_used = 0 BY <1>2 DEF audio_ring_used
<1>4. RingIsPaired BY <1>2, <1>3 DEF RingIsPaired
<1> QED BY <1>2, <1>4, InitType DEF RingInv, MuteInv

LEMMA NextRing == RingInv /\ [Next]_vars => RingInv'
<1> SUFFICES ASSUME RingInv, [Next]_vars PROVE RingInv' OBVIOUS
<1>1. TypeInv /\ TypeInv' BY NextType DEF RingInv
<1>2. hist \in Histories /\ Fits(dma) /\ fma \in AudioUnits BY <1>1 DEF TypeInv, TypeOK
<1>3. ASSUME NEW c, Fits(c), NEW f \in AudioUnits, NEW h \in Histories, try_dma(c, f, h),
             UNCHANGED out, h.owed = hist.owed, h.mute = hist.mute
      PROVE  RingInv'
  <2>1. TryHist(c, h) BY <1>1, <1>3, TryDma
  <2>2. hist'.owed = hist.owed /\ hist'.mute = hist.mute BY <1>3, <2>1 DEF TryHist
  <2> QED BY <1>1, <1>3, <2>2, RingKept
<1>4. CASE Stop
  <2>1. hist'.owed = hist.owed /\ hist'.mute = hist.mute
    BY <1>1, <1>2, <1>4, StopSteps, LostType
  <2> QED BY <1>1, <1>4, <2>1, StopSteps, RingKept
<1>5. CASE DecodeFrame BY <1>1, <1>5, RingFramed
<1>6. CASE LoopEnds BY <1>1, <1>6, LoopSteps, RingKept
<1>7. CASE Drained
  <2>1. UNCHANGED <<out, hist>> BY <1>1, <1>7, DrainedSteps
  <2> QED BY <1>1, <2>1, RingKept
<1>8. ASSUME NEW count \in Chunks, NEW into \in Directions, ArmChannel(count, into) PROVE RingInv'
  <2>1. UNCHANGED out /\ hist' = IF Untouched THEN Afresh(hist) ELSE hist
    BY <1>1, <1>8, ArmSteps
  <2>2. hist'.owed = hist.owed /\ hist'.mute = hist.mute BY <1>2, <2>1, LostType
  <2> QED BY <1>1, <2>1, <2>2, RingKept
<1>9. ASSUME NEW transfer \in BOOLEAN, NEW stop \in BOOLEAN, write_fma_cmd(transfer, stop)
      PROVE  RingInv'
  <2>1. UNCHANGED out BY <1>9, CommandSteps
  <2>2. CASE try_dma(Asked(TRUE), [fma EXCEPT !.unf = FALSE], [hist EXCEPT !.overlap = FALSE])
    <3>1. /\ Fits(Asked(TRUE)) /\ [fma EXCEPT !.unf = FALSE] \in AudioUnits
          /\ [hist EXCEPT !.overlap = FALSE] \in Histories
      BY <1>1, AskedIs
    <3> DEFINE h == [hist EXCEPT !.overlap = FALSE]
    <3>2. h.owed = hist.owed /\ h.mute = hist.mute BY <1>2 DEF Histories
    <3> HIDE DEF h
    <3> QED BY <1>3, <2>1, <2>2, <3>1, <3>2 DEF h
  <2>3. CASE UNCHANGED hist BY <1>1, <2>1, <2>3, RingKept
  <2> QED BY <1>9, <2>2, <2>3, CommandSteps
<1>10. CASE write_syscmd
  <2>1. UNCHANGED out /\ try_dma(Taken0, fma, [hist EXCEPT !.overlap = TRUE])
    BY <1>10, VideoSteps
  <2>2. Fits(Taken0) /\ [hist EXCEPT !.overlap = TRUE] \in Histories BY <1>1, AskedIs
  <2> DEFINE h == [hist EXCEPT !.overlap = TRUE]
  <2>3. h.owed = hist.owed /\ h.mute = hist.mute BY <1>2 DEF Histories
  <2> HIDE DEF h
  <2> QED BY <1>2, <1>3, <2>1, <2>2, <2>3 DEF h
<1>11. ASSUME NEW number \in Streams, SelectStream(number) PROVE RingInv'
  <2>1. UNCHANGED out /\ hist' = IF dma.at = 1 THEN Afresh(hist) ELSE Lost(hist)
    BY <1>1, <1>11, SelectSteps
  <2>2. hist'.owed = hist.owed /\ hist'.mute = hist.mute BY <1>2, <2>1, LostType
  <2> QED BY <1>1, <2>1, <2>2, RingKept
<1>12. CASE dclk_tick
  <2>1. UNCHANGED out BY <1>12, TickSteps
  <2>2. /\ Ticked \in AudioUnits /\ TickedHist \in Histories
        /\ TickedHist.owed = hist.owed /\ TickedHist.mute = hist.mute
    BY <1>1, TickIs
  <2>3. CASE try_dma(dma, Ticked, TickedHist) BY <1>2, <1>3, <2>1, <2>2, <2>3
  <2>4. CASE hist' = TickedHist BY <1>1, <2>1, <2>2, <2>4, RingKept
  <2> QED BY <1>12, <2>3, <2>4, TickSteps
<1>13. CASE sound_stream_update BY <1>1, <1>13, RingPlayed
<1>14. CASE device_reset
  <2>1. out' = OutReset /\ hist' = HistInit BY <1>14, DeviceSteps
  <2>2. out'.read = 0 /\ out'.write = 0 /\ hist'.owed = 0 /\ hist'.mute = 0
    BY <2>1 DEF OutReset, HistInit
  <2>3. audio_ring_used' = 0 BY <2>2 DEF audio_ring_used
  <2>4. RingIsPaired' BY <2>2, <2>3 DEF RingIsPaired
  <2> QED BY <1>1, <2>2, <2>4 DEF RingInv, MuteInv
<1>15. CASE SaveAndLoad
  <2>1. UNCHANGED out /\ hist' = IF hist.clean THEN [hist EXCEPT !.base = @ + m_audio.read]
                         ELSE hist
    BY <1>1, <1>15, SaveSteps
  <2>2. hist'.owed = hist.owed /\ hist'.mute = hist.mute BY <1>2, <2>1 DEF Histories
  <2> QED BY <1>1, <2>1, <2>2, RingKept
<1>16. CASE UNCHANGED vars
  <2>1. UNCHANGED <<out, hist>> BY <1>16 DEF vars
  <2> QED BY <1>1, <2>1, RingKept
<1> QED BY <1>4, <1>5, <1>6, <1>7, <1>8, <1>9, <1>10, <1>11, <1>12, <1>13, <1>14, <1>15, <1>16
        DEF Next, Call, Driver

\* The clock of the decoder: while it decodes it is enabled and not waiting to start; the
\* ticks since the last one with something to play are those the history counts, but for
\* those of one period of advance_audio(); a decoder that ran dry says so.
IdleClock == phase \in {"idle", "stop"}
ClockInv ==
    /\ fma.decoding => fma.dsp_enable
    /\ fma.dsp_enable => ~fma.start_valid
    /\ ~IdleClock => fma.dclk = 0 /\ fma.dsp_enable
    /\ hist.dry > 0 => Dried
    /\ fma.decoding /\ IdleClock /\ audio_ring_used >= 2 => fma.since <= fma.dclk
    /\ fma.decoding /\ Dried => fma.since <= hist.dry + Div
    /\ fma.decoding =>
          \/ hist.dry <= fma.since
          \/ fma.since = DryTicks /\ hist.dry <= DryTicks + (IF IdleClock THEN fma.dclk ELSE Div)
    /\ phase = "drained" /\ Dried => m_audio.underflow
Clocks == TypeInv /\ ClockInv

\* What is buffered.
LEMMA BufferedIs ==
    ASSUME TypeInv
    PROVE  /\ buffered_bytes(m_audio) = Len(m_audio.buffer) - m_audio.read
           /\ buffered_bytes(m_audio) \in Nat
           /\ audio_ring_used \in Nat /\ audio_ring_used < Capacity
           /\ fma \in AudioUnits /\ fma.since \in Nat /\ fma.since <= DryTicks
           /\ fma.dclk \in Nat /\ fma.dclk < Div /\ hist \in Histories /\ hist.dry \in Nat
           /\ fma.decoding \in BOOLEAN /\ fma.dsp_enable \in BOOLEAN
           /\ fma.start_valid \in BOOLEAN /\ fma.unf \in BOOLEAN
<1>1. m_audio \in Audios /\ out \in Outputs /\ fma \in AudioUnits /\ hist \in Histories
      /\ m_audio.read <= Len(m_audio.buffer)
  BY DEF TypeInv, TypeOK, Sound
<1>2. Len(m_audio.buffer) \in Nat /\ m_audio.read \in Nat BY <1>1, AudioFields
<1>3. audio_ring_used \in 0..(Capacity - 1) BY <1>1, OutFields
<1>4. fma.since \in 0..DryTicks /\ fma.dclk \in 0..(Div - 1) /\ hist.dry \in Nat
  BY <1>1, UnitFields, HistFields
<1>5. Capacity \in Nat /\ Div \in Nat /\ DryTicks \in Nat BY Sizes
<1>6. /\ fma.decoding \in BOOLEAN /\ fma.dsp_enable \in BOOLEAN
      /\ fma.start_valid \in BOOLEAN /\ fma.unf \in BOOLEAN
  BY <1>1, UnitFields
<1>7. buffered_bytes(m_audio) = Len(m_audio.buffer) - m_audio.read BY DEF buffered_bytes
<1>8. buffered_bytes(m_audio) \in Nat
  <2> DEFINE l == Len(m_audio.buffer)
             r == m_audio.read
  <2>1. l \in Nat /\ r \in Nat /\ r <= l /\ buffered_bytes(m_audio) = l - r BY <1>1, <1>2, <1>7
  <2> HIDE DEF l, r
  <2> QED BY <2>1
<1> QED BY <1>1, <1>3, <1>4, <1>5, <1>6, <1>7, <1>8

\* A transfer adds to what is buffered.
LEMMA TryBuffers ==
    ASSUME TypeInv, TypeInv', NEW c, NEW f, TryMoves(c, f), UNCHANGED out
    PROVE  /\ buffered_bytes(m_audio') >= buffered_bytes(m_audio)
           /\ Dried' => Dried /\ buffered_bytes(m_audio') = 0
           /\ Dried /\ buffered_bytes(m_audio') = 0 => Dried'
<1> DEFINE a == m_audio
           b == m_audio'
<1>1. PICK drop \in Nat : Moved(a, b, drop) BY DEF TryMoves
<1>2. a \in Audios /\ b \in Audios BY DEF TypeInv, TypeOK
<1>3. audio_ring_used' = audio_ring_used BY DEF audio_ring_used
<1>4. buffered_bytes(a) \in Nat BY BufferedIs
<1>5. Dried = (buffered_bytes(a) = 0 /\ audio_ring_used < 2) BY DEF Dried
<1>6. Dried' = (buffered_bytes(b) = 0 /\ audio_ring_used < 2) BY <1>3 DEF Dried, buffered_bytes
<1> HIDE DEF a, b
<1>7. Len(a.buffer) \in Nat /\ a.read \in Nat /\ Len(b.buffer) \in Nat /\ b.read \in Nat
  BY <1>2, AudioFields
<1>8. b.read = a.read - drop /\ Len(a.buffer) <= Len(b.buffer) + drop BY <1>1 DEF Moved
<1>9. buffered_bytes(b) >= buffered_bytes(a) /\ buffered_bytes(b) \in Int
  <2> DEFINE la == Len(a.buffer)
             lb == Len(b.buffer)
             r == a.read
             s == b.read
  <2>1. la \in Nat /\ lb \in Nat /\ r \in Nat /\ s = r - drop /\ la <= lb + drop BY <1>7, <1>8
  <2>2. buffered_bytes(a) = la - r /\ buffered_bytes(b) = lb - s BY DEF buffered_bytes
  <2> HIDE DEF la, lb, r, s
  <2> QED BY <2>1, <2>2
<1>10. Dried' => Dried /\ buffered_bytes(b) = 0
  <2>1. buffered_bytes(b) = 0 => buffered_bytes(a) = 0 BY <1>4, <1>9
  <2> QED BY <1>5, <1>6, <2>1
<1>11. Dried /\ buffered_bytes(b) = 0 => Dried'
  <2> QED BY <1>5, <1>6
<1> QED BY <1>9, <1>10, <1>11 DEF a, b

\* A transfer between two ticks.
LEMMA ClockTry ==
    ASSUME Clocks, TypeInv', NEW c, Fits(c), NEW f \in AudioUnits, NEW h \in Histories,
           try_dma(c, f, h), UNCHANGED out, phase = "idle", phase' \in {"idle", "stop"},
           h.dry = hist.dry, f.decoding = fma.decoding, f.dsp_enable = fma.dsp_enable,
           f.start_valid = fma.start_valid, f.since = fma.since, f.dclk = fma.dclk
    PROVE  Clocks'
<1>1. TryMoves(c, f) /\ TryHist(c, h) BY TryDma DEF Clocks
<1>2. /\ fma'.decoding = fma.decoding /\ fma'.dsp_enable = fma.dsp_enable
      /\ fma'.since = fma.since /\ fma'.dclk = fma.dclk
      /\ fma.dsp_enable => fma'.start_valid = fma.start_valid
  BY <1>1 DEF TryMoves, SameUnit
<1>3. hist'.dry = IF buffered_bytes(m_audio') # 0 THEN 0 ELSE hist.dry BY <1>1 DEF TryHist
<1>4. /\ Dried' => Dried /\ buffered_bytes(m_audio') = 0
      /\ Dried /\ buffered_bytes(m_audio') = 0 => Dried'
  BY <1>1, TryBuffers DEF Clocks
<1>5. audio_ring_used' = audio_ring_used BY DEF audio_ring_used
<1>6. IdleClock /\ IdleClock' /\ phase' # "drained" BY DEF IdleClock
<1>7. fma.since \in Nat /\ hist.dry \in Nat BY BufferedIs DEF Clocks
<1>8. ClockInv BY DEF Clocks
<1>9. ClockInv' BY <1>2, <1>3, <1>4, <1>5, <1>6, <1>7, <1>8 DEF ClockInv
<1> QED BY <1>9 DEF Clocks

\* A tick.
LEMMA ClockTick ==
    ASSUME Clocks, TypeInv', dclk_tick
    PROVE  Clocks'
<1>0. TypeInv /\ ClockInv BY DEF Clocks
<1>1. /\ phase = "idle"
      /\ \/ dma.pending /\ try_dma(dma, Ticked, TickedHist)
         \/ /\ ~dma.pending /\ fma' = Ticked /\ hist' = TickedHist
            /\ UNCHANGED <<m_audio_demux, m_audio, dma>>
      /\ phase' = IF fma'.dclk = 0 /\ fma'.dsp_enable THEN "audio" ELSE "idle"
      /\ UNCHANGED <<out, disc>>
  BY TickSteps
<1>2. /\ Ticked \in AudioUnits /\ Ticked.decoding = fma.decoding
      /\ Ticked.dclk = (fma.dclk + 1) % Div
      /\ Ticked.start_valid = (fma.start_valid /\ ~Due)
      /\ Ticked.dsp_enable = (fma.dsp_enable \/ Due)
      /\ Ticked.since = IF Due THEN 0 ELSE min(fma.since + 1, DryTicks)
      /\ TickedHist \in Histories
      /\ TickedHist.dry = IF Dried /\ fma.decoding
                          THEN min(hist.dry + 1, DryTicks + Div + 1) ELSE 0
  BY <1>0, TickIs
<1>3. audio_ring_used' = audio_ring_used BY <1>1 DEF audio_ring_used
<1>4. /\ SameUnit(Ticked, fma')
      /\ hist'.dry = IF buffered_bytes(m_audio') # 0 THEN 0 ELSE TickedHist.dry
      /\ Dried' => Dried /\ buffered_bytes(m_audio') = 0
      /\ Dried /\ buffered_bytes(m_audio') = 0 => Dried'
  <2>1. CASE try_dma(dma, Ticked, TickedHist)
    <3>1. Fits(dma) BY <1>0 DEF TypeInv
    <3>2. TryMoves(dma, Ticked) /\ TryHist(dma, TickedHist) BY <1>0, <1>2, <2>1, <3>1, TryDma
    <3>3. /\ Dried' => Dried /\ buffered_bytes(m_audio') = 0
          /\ Dried /\ buffered_bytes(m_audio') = 0 => Dried'
      BY <1>0, <1>1, <3>2, TryBuffers
    <3>4. hist'.dry = IF buffered_bytes(m_audio') # 0 THEN 0 ELSE TickedHist.dry
      BY <3>2 DEF TryHist
    <3> QED BY <3>2, <3>3, <3>4 DEF TryMoves
  <2>2. CASE fma' = Ticked /\ hist' = TickedHist /\ m_audio' = m_audio
    <3>1. Dried' <=> Dried BY <1>3, <2>2 DEF Dried, buffered_bytes
    <3>2. Dried => buffered_bytes(m_audio') = 0 BY <2>2 DEF Dried
    <3>3. SameUnit(Ticked, fma') BY <2>2 DEF SameUnit
    <3>4. buffered_bytes(m_audio') # 0 => TickedHist.dry = 0
      BY <1>2, <2>2 DEF Dried
    <3> QED BY <2>2, <3>1, <3>2, <3>3, <3>4
  <2> QED BY <1>1, <2>1, <2>2
<1>5. /\ fma.since \in Nat /\ fma.since <= DryTicks /\ fma.dclk \in Nat /\ fma.dclk < Div
      /\ hist.dry \in Nat /\ fma.decoding \in BOOLEAN /\ fma.dsp_enable \in BOOLEAN
  BY <1>0, BufferedIs
<1>6. Div \in Nat \ {0} /\ DryTicks \in Nat \ {0} BY Sizes
<1>7. /\ fma.decoding => fma.dsp_enable
      /\ fma.dsp_enable => ~fma.start_valid
      /\ fma.decoding /\ audio_ring_used >= 2 => fma.since <= fma.dclk
      /\ fma.decoding /\ Dried => fma.since <= hist.dry + Div
      /\ fma.decoding =>
          \/ hist.dry <= fma.since
          \/ fma.since = DryTicks /\ hist.dry <= DryTicks + fma.dclk
  BY <1>0, <1>1 DEF ClockInv, IdleClock
<1>8. Due => ~fma.dsp_enable /\ ~fma.decoding BY <1>0 DEF ClockInv, Due
<1>9. /\ fma'.decoding = fma.decoding /\ fma'.dclk = (fma.dclk + 1) % Div
      /\ fma'.dsp_enable = (fma.dsp_enable \/ Due)
      /\ fma'.since = IF Due THEN 0 ELSE min(fma.since + 1, DryTicks)
      /\ fma'.dsp_enable => ~fma'.start_valid
  <2>1. fma.dsp_enable => ~fma.start_valid BY <1>0 DEF ClockInv
  <2> QED BY <1>2, <1>4, <2>1 DEF SameUnit
<1> DEFINE dclk1 == fma'.dclk
           since0 == fma.since
           since1 == fma'.since
           dry0 == hist.dry
           dry1 == hist'.dry
           dclk0 == fma.dclk
<1>10. dclk1 = IF dclk0 + 1 < Div THEN dclk0 + 1 ELSE 0
  <2> HIDE DEF dclk0
  <2>1. dclk0 \in Nat /\ dclk0 < Div BY <1>5 DEF dclk0
  <2>2. CASE dclk0 + 1 < Div
    <3>1. (dclk0 + 1) % Div = dclk0 + 1 BY <1>6, <2>1, <2>2
    <3> QED BY <1>9, <2>2, <3>1 DEF dclk0
  <2>3. CASE ~(dclk0 + 1 < Div)
    <3>1. dclk0 + 1 = Div BY <1>6, <2>1, <2>3
    <3>2. dclk0 + 1 \in Nat /\ dclk0 + 1 < 2 * Div BY <1>6, <2>1
    <3>3. (dclk0 + 1) % Div = Wrap(dclk0 + 1, Div) BY <1>6, <3>2, Wraps, Zenon
    <3>4. Wrap(dclk0 + 1, Div) = 0 BY <1>6, <3>1 DEF Wrap
    <3> QED BY <1>9, <2>3, <3>3, <3>4 DEF dclk0
  <2> QED BY <2>2, <2>3
<1>11. IdleClock' <=> ~(dclk1 = 0 /\ fma'.dsp_enable) BY <1>1 DEF IdleClock
<1>12. fma.decoding => since1 = min(since0 + 1, DryTicks) BY <1>8, <1>9
<1>13. fma.decoding => since1 <= since0 + 1 /\ since1 <= DryTicks
                       /\ (since0 < DryTicks => since1 = since0 + 1)
                       /\ (since0 = DryTicks => since1 = DryTicks) /\ since1 \in Nat
  BY <1>5, <1>6, <1>12 DEF min
<1>14. dry1 \in Nat /\ (dry1 > 0 => Dried' /\ Dried)
  <2>1. dry1 \in Nat
    <3>1. hist' \in Histories BY DEF TypeInv, TypeOK
    <3> QED BY <3>1, HistFields
  <2>2. dry1 > 0 => Dried /\ buffered_bytes(m_audio') = 0
    <3> QED BY <1>2, <1>4
  <2> QED BY <1>4, <2>1, <2>2
<1>15. dry1 <= dry0 + 1
  <2>1. min(dry0 + 1, DryTicks + Div + 1) <= dry0 + 1 BY <1>5, <1>6 DEF min
  <2>2. dry1 = 0 \/ dry1 = min(dry0 + 1, DryTicks + Div + 1) BY <1>2, <1>4
  <2> QED BY <1>5, <2>1, <2>2
<1>16. fma.decoding /\ Dried' => dry1 = min(dry0 + 1, DryTicks + Div + 1) /\ Dried
  <2> QED BY <1>2, <1>4
<1>17. fma.decoding /\ IdleClock' => dclk1 = dclk0 + 1
  <2>1. fma.decoding => fma'.dsp_enable BY <1>7, <1>9
  <2> QED BY <1>10, <1>11, <2>1
<1> HIDE DEF dclk1, since0, since1, dry0, dry1, dclk0
<1>18. since0 \in Nat /\ since0 <= DryTicks /\ dry0 \in Nat /\ dclk0 \in Nat /\ dclk0 < Div
  BY <1>5 DEF since0, dry0, dclk0
<1>19. fma.decoding /\ audio_ring_used >= 2 /\ IdleClock' => since1 <= dclk1
  <2>1. fma.decoding /\ audio_ring_used >= 2 => since0 <= dclk0 BY <1>7 DEF since0, dclk0
  <2> QED BY <1>13, <1>17, <1>18, <2>1
<1>20. fma.decoding /\ Dried' => since1 <= dry1 + Div
  <2> SUFFICES ASSUME fma.decoding, Dried' PROVE since1 <= dry1 + Div OBVIOUS
  <2>1. since0 <= dry0 + Div BY <1>7, <1>16 DEF since0, dry0
  <2>2. dry1 = dry0 + 1 \/ dry1 = DryTicks + Div + 1 BY <1>16 DEF min
  <2>3. CASE dry1 = dry0 + 1 BY <1>6, <1>13, <1>18, <2>1, <2>3
  <2>4. CASE dry1 = DryTicks + Div + 1 BY <1>6, <1>13, <1>18, <2>4
  <2> QED BY <2>2, <2>3, <2>4
<1>21. fma.decoding =>
          \/ dry1 <= since1
          \/ since1 = DryTicks /\ dry1 <= DryTicks + (IF IdleClock' THEN dclk1 ELSE Div)
  <2> SUFFICES ASSUME fma.decoding, ~(dry1 <= since1)
               PROVE  since1 = DryTicks /\ dry1 <= DryTicks + (IF IdleClock' THEN dclk1 ELSE Div)
    OBVIOUS
  <2>1. dry0 <= since0 \/ (since0 = DryTicks /\ dry0 <= DryTicks + dclk0)
    BY <1>7 DEF dry0, since0, dclk0
  <2>2. since0 = DryTicks BY <1>6, <1>13, <1>14, <1>15, <1>18, <2>1
  <2>3. since1 = DryTicks BY <1>13, <2>2
  <2>4. dry0 <= DryTicks + dclk0 BY <1>6, <1>18, <2>1, <2>2
  <2>5. dry1 <= DryTicks + dclk0 + 1 BY <1>6, <1>14, <1>15, <1>18, <2>4
  <2>6. CASE IdleClock' BY <1>6, <1>14, <1>17, <1>18, <2>3, <2>5, <2>6
  <2>7. CASE ~IdleClock' BY <1>6, <1>14, <1>18, <2>3, <2>5, <2>7
  <2> QED BY <2>6, <2>7
<1>22. phase' # "drained" BY <1>1
<1>23. fma'.decoding => fma'.dsp_enable BY <1>7, <1>9
<1>24. ~IdleClock' => fma'.dclk = 0 /\ fma'.dsp_enable BY <1>11 DEF dclk1
<1>25. ClockInv'
  BY <1>3, <1>9, <1>14, <1>19, <1>20, <1>21, <1>22, <1>23, <1>24
     DEF ClockInv, dclk1, since1, dry1
<1> QED BY <1>25 DEF Clocks

\* The clock does not decode any more, or not yet.
LEMMA ClockQuiet ==
    ASSUME Clocks, TypeInv', fma'.decoding = FALSE, fma'.dsp_enable => ~fma'.start_valid,
           IdleClock', hist'.dry > 0 => Dried'
    PROVE  Clocks'
<1>1. phase' # "drained" BY DEF IdleClock
<1> QED BY <1>1 DEF ClockInv, Clocks

\* Nothing of the clock changes.
LEMMA ClockSame ==
    ASSUME Clocks, TypeInv', UNCHANGED out, IdleClock, IdleClock',
           fma'.decoding = fma.decoding, fma'.dsp_enable = fma.dsp_enable,
           fma'.start_valid = fma.start_valid, fma'.since = fma.since, fma'.dclk = fma.dclk,
           hist'.dry = hist.dry, buffered_bytes(m_audio') = buffered_bytes(m_audio)
    PROVE  Clocks'
<1>1. phase' # "drained" BY DEF IdleClock
<1>2. audio_ring_used' = audio_ring_used BY DEF audio_ring_used
<1>3. Dried' <=> Dried BY <1>2 DEF Dried
<1>4. ClockInv BY DEF Clocks
<1> QED BY <1>1, <1>2, <1>3, <1>4 DEF ClockInv, Clocks

LEMMA ClockDecode ==
    ASSUME Clocks, TypeInv', DecodeFrame
    PROVE  Clocks'
<1>1. TypeInv /\ ClockInv BY DEF Clocks
<1>2. /\ phase = "audio" /\ phase' = phase /\ RoomForFrame /\ out' = Pushed(FrameSamples)
      /\ fma'.decoding = TRUE /\ fma'.dsp_enable = fma.dsp_enable
      /\ fma'.start_valid = fma.start_valid /\ fma'.since = fma.since
      /\ fma'.dclk = fma.dclk /\ hist'.dry = 0
  BY <1>1, FrameSteps
<1>3. ~IdleClock /\ ~IdleClock' BY <1>2 DEF IdleClock
<1>4. ~Dried'
  <2> DEFINE o == Pushed(FrameSamples)
  <2>1. out \in Outputs BY <1>1 DEF TypeInv, TypeOK
  <2>2. Between(o.read, o.write, Capacity) = audio_ring_used + 2 * Pairs
    BY <1>2, <2>1, FramePushed
  <2>3. audio_ring_used' = audio_ring_used + 2 * Pairs
    BY <1>2, <2>2 DEF audio_ring_used, Between
  <2>4. audio_ring_used \in Nat BY <1>1, BufferedIs
  <2>5. audio_ring_used' >= 2 BY <2>3, <2>4, Sizes
  <2>6. ~(audio_ring_used' < 2) BY <2>3, <2>4, <2>5, Sizes
  <2> QED BY <2>6 DEF Dried
<1>5. fma.since \in Nat BY <1>1, BufferedIs
<1>6. ClockInv' BY <1>1, <1>2, <1>3, <1>4, <1>5 DEF ClockInv
<1> QED BY <1>6 DEF Clocks

LEMMA ClockLoop ==
    ASSUME Clocks, TypeInv', LoopEnds
    PROVE  Clocks'
<1>1. TypeInv /\ ClockInv /\ m_audio \in Audios /\ Sound(m_audio)
  BY DEF Clocks, TypeInv, TypeOK
<1>2. /\ phase = "audio" /\ phase' = "drained" /\ UNCHANGED <<fma, out, hist>>
      /\ m_audio'.buffer = m_audio.buffer /\ m_audio'.read = m_audio.read
      /\ \/ ~RoomForFrame
         \/ RoomForFrame /\ ~HasFrame(m_audio) /\ m_audio' = decode(m_audio)
  BY <1>1, LoopSteps
<1>3. ~IdleClock /\ ~IdleClock' BY <1>2 DEF IdleClock
<1>4. audio_ring_used' = audio_ring_used BY <1>2 DEF audio_ring_used
<1>5. Dried' <=> Dried BY <1>2, <1>4 DEF Dried, buffered_bytes
<1>6. Dried => m_audio'.underflow
  <2> SUFFICES ASSUME Dried PROVE m_audio'.underflow OBVIOUS
  <2>1. buffered_bytes(m_audio) = 0 /\ audio_ring_used < 2 BY DEF Dried
  <2>2. RoomForFrame
    <3>1. audio_ring_free = Capacity - 1 - audio_ring_used BY <1>1, OutFields DEF TypeInv, TypeOK
    <3>2. audio_ring_used \in Nat BY <1>1, BufferedIs
    <3> QED BY <2>1, <3>1, <3>2, Sizes DEF RoomForFrame
  <2> DEFINE a == m_audio
  <2>3. a \in Audios /\ Sound(a) /\ ~HasFrame(a) /\ m_audio' = decode(a) BY <1>1, <1>2, <2>2
  <2>4. buffered_bytes(a) = 0 BY <2>1
  <2> HIDE DEF a
  <2>5. Candidates(a) = {}
    <3> SUFFICES ASSUME NEW i \in Candidates(a) PROVE FALSE OBVIOUS
    <3> DEFINE l == Len(a.buffer)
               r == a.read
               p == a.bit
    <3>1. i \in Nat /\ p <= i /\ i + 2 <= l BY <2>3, CandidatesAre
    <3>2. l \in Nat /\ r \in Nat /\ p \in Int /\ r <= p + 1 BY <2>3, AudioFields DEF Sound
    <3>3. l - r = 0 BY <2>4 DEF buffered_bytes
    <3> HIDE DEF l, r, p
    <3> QED BY <3>1, <3>2, <3>3
  <2>6. decode(a).underflow = TRUE BY <2>3, <2>5, DecodedNone
  <2> QED BY <2>3, <2>6
<1>7. ClockInv' BY <1>1, <1>2, <1>3, <1>4, <1>5, <1>6 DEF ClockInv
<1> QED BY <1>7 DEF Clocks

LEMMA ClockDrained ==
    ASSUME Clocks, TypeInv', Drained
    PROVE  /\ Clocks'
           /\ fma'.unf /\ ~fma.unf => hist.dry + Div >= DryTicks
<1>1. TypeInv /\ ClockInv BY DEF Clocks
<1> DEFINE since1 == IF NothingLeft THEN fma.since ELSE 0
           dry1 == m_audio.underflow /\ fma.decoding /\ since1 >= DryTicks
<1>2. /\ phase = "drained" /\ phase' = "idle" /\ UNCHANGED <<out, hist>>
      /\ m_audio'.buffer = m_audio.buffer /\ m_audio'.read = m_audio.read
      /\ fma'.unf = (fma.unf \/ dry1) /\ fma'.decoding = (fma.decoding /\ ~dry1)
      /\ fma'.dsp_enable = (fma.dsp_enable /\ ~dry1)
      /\ fma'.start_valid = (fma.start_valid /\ ~dry1) /\ fma'.since = since1
      /\ fma'.dclk = fma.dclk
  BY <1>1, DrainedSteps
<1>3. ~IdleClock /\ IdleClock' BY <1>2 DEF IdleClock
<1>4. audio_ring_used' = audio_ring_used BY <1>2 DEF audio_ring_used
<1>5. Dried' <=> Dried BY <1>2, <1>4 DEF Dried, buffered_bytes
<1>6. since1 = IF Dried THEN fma.since ELSE 0 BY DEF Dried, NothingLeft
<1>7. /\ fma.since \in Nat /\ fma.since <= DryTicks /\ hist.dry \in Nat
      /\ audio_ring_used \in Nat /\ fma.dclk = 0 /\ fma.dsp_enable
      /\ fma.decoding \in BOOLEAN
  BY <1>1, <1>3, BufferedIs DEF ClockInv
<1>8. DryTicks \in Nat \ {0} /\ Div \in Nat \ {0} BY Sizes
<1>9. /\ fma.dsp_enable => ~fma.start_valid
      /\ hist.dry > 0 => Dried
      /\ fma.decoding /\ Dried => fma.since <= hist.dry + Div
      /\ fma.decoding => hist.dry <= fma.since \/ fma.since = DryTicks
      /\ Dried => m_audio.underflow
  BY <1>1, <1>2 DEF ClockInv
<1>10. Dried => audio_ring_used < 2 BY DEF Dried
<1> HIDE DEF dry1, since1
<1>11. CASE dry1
  <2>1. Dried BY <1>6, <1>8, <1>11 DEF dry1
  <2>2. fma.decoding /\ since1 = fma.since /\ since1 >= DryTicks BY <1>6, <1>11, <2>1 DEF dry1
  <2>3. hist.dry + Div >= DryTicks BY <1>7, <1>8, <1>9, <2>1, <2>2
  <2>4. Clocks' BY <1>2, <1>3, <1>5, <1>11, <2>1, ClockQuiet
  <2> QED BY <2>3, <2>4
<1>12. CASE ~dry1
  <2>1. fma'.unf => fma.unf BY <1>2, <1>12
  <2>2. phase' # "drained" BY <1>2
  <2>3. CASE ~Dried
    <3>1. hist.dry = 0 /\ fma'.since = 0 BY <1>2, <1>6, <1>7, <1>9, <2>3
    <3>2. ~Dried' /\ hist'.dry = 0 /\ fma'.since <= fma'.dclk /\ hist'.dry <= fma'.since
      BY <1>2, <1>5, <1>7, <2>3, <3>1
    <3>3. /\ fma'.decoding => fma'.dsp_enable
          /\ fma'.dsp_enable => ~fma'.start_valid
      BY <1>2, <1>7, <1>9, <1>12
    <3>4. ClockInv' BY <1>3, <2>2, <3>2, <3>3 DEF ClockInv
    <3> QED BY <2>1, <3>4 DEF Clocks
  <2>4. CASE Dried
    <3>1. fma'.since = fma.since BY <1>2, <1>6, <2>4
    <3>2. fma.decoding => fma.since < DryTicks
      <4>1. fma.decoding => ~(fma.since >= DryTicks) BY <1>6, <1>9, <1>12, <2>4 DEF dry1
      <4> QED BY <1>7, <1>8, <4>1
    <3>3. fma.decoding => hist.dry <= fma.since BY <1>7, <1>8, <1>9, <3>2
    <3>4. ~(audio_ring_used >= 2) BY <1>7, <1>10, <2>4
    <3>5. ClockInv'
      BY <1>2, <1>3, <1>4, <1>5, <1>7, <1>9, <1>12, <2>2, <2>4, <3>1, <3>3, <3>4 DEF ClockInv
    <3> QED BY <2>1, <3>5 DEF Clocks
  <2> QED BY <2>3, <2>4
<1> QED BY <1>11, <1>12

\* The stream takes from the ring.
LEMMA UsedPlayed ==
    ASSUME TypeInv, sound_stream_update
    PROVE  audio_ring_used' \in Nat /\ audio_ring_used' <= audio_ring_used
<1> DEFINE u == audio_ring_used
           c == Capacity
           t == Taken
           r == out.read
           v == out.write
<1>1. out \in Outputs BY DEF TypeInv, TypeOK
<1>2. /\ out'.write = out.write /\ t \in Nat /\ t <= u
      /\ out'.read = IF Plays THEN (out.read + Taken) % Capacity ELSE out.read
  BY SoundSteps
<1>3. u \in 0..(c - 1) /\ u = Between(r, v, c) /\ r \in 0..(c - 1) /\ v \in 0..(c - 1)
  BY <1>1, OutFields
<1>4. c \in Nat \ {0} BY Sizes
<1>5. audio_ring_used' = Between(out'.read, out'.write, c) BY DEF audio_ring_used, Between
<1>6. out'.read = (IF Plays THEN (r + t) % c ELSE r) /\ out'.write = v BY <1>2
<1> HIDE DEF u, c, t, r, v
<1>7. Between((r + t) % c, v, c) = u - t BY <1>2, <1>3, <1>4, RingReads
<1>8. audio_ring_used' \in {u, u - t} BY <1>3, <1>5, <1>6, <1>7
<1>9. u \in Nat BY <1>3, <1>4
<1>10. u - t \in Nat /\ u - t <= u BY <1>2, <1>9
<1> QED BY <1>8, <1>9, <1>10 DEF u

LEMMA ClockSound ==
    ASSUME Clocks, TypeInv', sound_stream_update
    PROVE  Clocks'
<1>1. TypeInv /\ ClockInv /\ hist \in Histories BY DEF Clocks, TypeInv, TypeOK
<1>2. /\ phase = "idle" /\ UNCHANGED <<m_audio, fma, phase>>
      /\ hist' = IF Plays THEN [hist EXCEPT !.owed = @ - min(Update, @), !.mute = 0]
                      ELSE IF audio_ring_used >= 2
                      THEN [hist EXCEPT !.mute = min(@ + Update, PrimeTimeout + 1)]
                      ELSE hist
  BY <1>1, SoundSteps
<1>3. hist'.dry = hist.dry BY <1>1, <1>2 DEF Histories
<1>4. audio_ring_used' \in Nat /\ audio_ring_used' <= audio_ring_used /\ audio_ring_used \in Nat
  BY <1>1, UsedPlayed, BufferedIs
<1>5. IdleClock /\ IdleClock' /\ phase' # "drained" BY <1>2 DEF IdleClock
<1>6. Dried <=> buffered_bytes(m_audio) = 0 /\ audio_ring_used < 2 BY DEF Dried
<1>7. Dried' <=> buffered_bytes(m_audio) = 0 /\ audio_ring_used' < 2
  BY <1>2 DEF Dried, buffered_bytes
<1>8. /\ fma.since \in Nat /\ fma.dclk \in Nat /\ fma.dclk < Div /\ hist.dry \in Nat
      /\ Div \in Nat
  BY <1>1, BufferedIs, Sizes
<1>9. Dried => Dried' BY <1>4, <1>6, <1>7
<1>10. audio_ring_used' >= 2 => audio_ring_used >= 2 BY <1>4
<1>11. Dried' => Dried \/ audio_ring_used >= 2 BY <1>4, <1>6, <1>7
<1>12. fma.decoding /\ Dried' => fma.since <= hist.dry + Div
  <2>1. CASE Dried BY <1>1, <2>1 DEF ClockInv
  <2>2. CASE fma.decoding /\ audio_ring_used >= 2
    <3>1. fma.since <= fma.dclk BY <1>1, <1>5, <2>2 DEF ClockInv
    <3> QED BY <1>8, <3>1
  <2> QED BY <1>11, <2>1, <2>2
<1>13. ClockInv' BY <1>1, <1>2, <1>3, <1>5, <1>9, <1>10, <1>12 DEF ClockInv
<1> QED BY <1>13 DEF Clocks

LEMMA InitClock == Init => Clocks
<1> SUFFICES ASSUME Init PROVE Clocks OBVIOUS
<1>1. fma = FmaReset /\ hist = HistInit /\ phase = "idle" BY DEF Init
<1>2. fma.decoding = FALSE /\ fma.dsp_enable = FALSE /\ hist.dry = 0
  BY <1>1 DEF FmaReset, HistInit
<1>3. ClockInv BY <1>1, <1>2 DEF ClockInv, IdleClock
<1> QED BY <1>3, InitType DEF Clocks

\* A state that was saved holds what is buffered.
LEMMA SavedBuffers ==
    ASSUME TypeInv, SaveAndLoad
    PROVE  buffered_bytes(m_audio') = buffered_bytes(m_audio)
<1> DEFINE a == m_audio
           b == Reloaded(a)
<1>1. Sound(a) /\ m_audio' = b BY SaveSteps DEF TypeInv
<1>2. a \in Audios BY DEF TypeInv, TypeOK
<1> HIDE DEF a
<1>3. b.read = 0 /\ Len(b.buffer) = Len(a.buffer) - a.read BY <1>1, ReloadedIs
<1>4. Len(a.buffer) \in Nat /\ a.read \in Nat BY <1>2, AudioFields
<1> HIDE DEF b
<1>5. buffered_bytes(b) = Len(b.buffer) - b.read /\ buffered_bytes(a) = Len(a.buffer) - a.read
  BY DEF buffered_bytes
<1>6. buffered_bytes(b) = buffered_bytes(a)
  <2> DEFINE la == Len(a.buffer)
             lb == Len(b.buffer)
             ra == a.read
             rb == b.read
  <2>1. la \in Nat /\ ra \in Nat /\ rb = 0 /\ lb = la - ra BY <1>3, <1>4
  <2>2. buffered_bytes(b) = lb - rb /\ buffered_bytes(a) = la - ra BY <1>5
  <2> HIDE DEF la, lb, ra, rb
  <2> QED BY <2>1, <2>2
<1> QED BY <1>1, <1>6 DEF a

LEMMA NextClock == Clocks /\ [Next]_vars => Clocks'
<1> SUFFICES ASSUME Clocks, [Next]_vars PROVE Clocks' OBVIOUS
<1>1. TypeInv /\ TypeInv' BY NextType DEF Clocks
<1>2. /\ hist \in Histories /\ Fits(dma) /\ fma \in AudioUnits /\ ClockInv
  BY <1>1 DEF TypeInv, TypeOK, Clocks
<1>3. CASE Stop
  <2>1. /\ phase' = "idle" /\ out' = out /\ m_audio' = audio_reset
        /\ fma'.decoding = FALSE /\ fma'.dsp_enable = FALSE
        /\ hist' = IF dma.at = 1 THEN Afresh(hist) ELSE Lost(hist)
    BY <1>1, <1>3, StopSteps
  <2>2. hist'.dry = hist.dry BY <1>2, <2>1, LostType
  <2>3. buffered_bytes(m_audio') = 0 BY <2>1, ResetIsSound DEF buffered_bytes
  <2>4. audio_ring_used' = audio_ring_used BY <2>1 DEF audio_ring_used
  <2>5. Dried => Dried' BY <2>3, <2>4 DEF Dried
  <2>6. hist'.dry > 0 => Dried'
    <3> QED BY <1>2, <2>2, <2>5 DEF ClockInv
  <2>7. IdleClock' BY <2>1 DEF IdleClock
  <2> QED BY <1>1, <2>1, <2>6, <2>7, ClockQuiet
<1>4. CASE DecodeFrame BY <1>1, <1>4, ClockDecode
<1>5. CASE LoopEnds BY <1>1, <1>5, ClockLoop
<1>6. CASE Drained BY <1>1, <1>6, ClockDrained
<1>7. ASSUME NEW count \in Chunks, NEW into \in Directions, ArmChannel(count, into) PROVE Clocks'
  <2>1. /\ phase = "idle" /\ UNCHANGED <<m_audio, fma, out, phase>>
        /\ hist' = IF Untouched THEN Afresh(hist) ELSE hist
    BY <1>1, <1>7, ArmSteps
  <2>2. hist'.dry = hist.dry BY <1>2, <2>1, LostType
  <2>3. IdleClock /\ IdleClock' BY <2>1 DEF IdleClock
  <2> QED BY <1>1, <2>1, <2>2, <2>3, ClockSame
<1>8. ASSUME NEW transfer \in BOOLEAN, NEW stop \in BOOLEAN, write_fma_cmd(transfer, stop)
      PROVE  Clocks'
  <2>1. phase = "idle" /\ phase' \in {"idle", "stop"} /\ UNCHANGED out BY <1>8, CommandSteps
  <2>2. CASE try_dma(Asked(TRUE), [fma EXCEPT !.unf = FALSE], [hist EXCEPT !.overlap = FALSE])
    <3> DEFINE f == [fma EXCEPT !.unf = FALSE]
               h == [hist EXCEPT !.overlap = FALSE]
    <3>1. Fits(Asked(TRUE)) /\ f \in AudioUnits /\ h \in Histories BY <1>1, AskedIs
    <3>2. /\ h.dry = hist.dry /\ f.decoding = fma.decoding /\ f.dsp_enable = fma.dsp_enable
          /\ f.start_valid = fma.start_valid /\ f.since = fma.since /\ f.dclk = fma.dclk
      BY <1>2 DEF Histories, AudioUnits
    <3>3. try_dma(Asked(TRUE), f, h) BY <2>2
    <3> HIDE DEF f, h
    <3> QED BY <1>1, <2>1, <3>1, <3>2, <3>3, ClockTry
  <2>3. CASE UNCHANGED <<m_audio, fma, hist>>
    <3>1. IdleClock /\ IdleClock' BY <2>1 DEF IdleClock
    <3> QED BY <1>1, <2>1, <2>3, <3>1, ClockSame
  <2> QED BY <1>8, <2>2, <2>3, CommandSteps
<1>9. CASE write_syscmd
  <2> DEFINE h == [hist EXCEPT !.overlap = TRUE]
  <2>1. phase = "idle" /\ UNCHANGED <<out, phase>> /\ try_dma(Taken0, fma, h)
    BY <1>9, VideoSteps
  <2>2. Fits(Taken0) /\ h \in Histories BY <1>1, AskedIs
  <2>3. h.dry = hist.dry BY <1>2 DEF Histories
  <2> HIDE DEF h
  <2> QED BY <1>1, <1>2, <2>1, <2>2, <2>3, ClockTry
<1>10. ASSUME NEW number \in Streams, SelectStream(number) PROVE Clocks'
  <2>1. /\ phase = "idle" /\ UNCHANGED <<m_audio, out, phase>>
        /\ fma'.decoding = fma.decoding /\ fma'.dsp_enable = fma.dsp_enable
        /\ fma'.start_valid = fma.start_valid /\ fma'.since = fma.since
        /\ fma'.dclk = fma.dclk
        /\ hist' = IF dma.at = 1 THEN Afresh(hist) ELSE Lost(hist)
    BY <1>1, <1>10, SelectSteps
  <2>2. hist'.dry = hist.dry BY <1>2, <2>1, LostType
  <2>3. IdleClock /\ IdleClock' BY <2>1 DEF IdleClock
  <2> QED BY <1>1, <2>1, <2>2, <2>3, ClockSame
<1>11. CASE dclk_tick BY <1>1, <1>11, ClockTick
<1>12. CASE sound_stream_update BY <1>1, <1>12, ClockSound
<1>13. CASE device_reset
  <2>1. phase = "idle" /\ phase' = phase /\ fma' = FmaReset /\ hist' = HistInit
    BY <1>13, DeviceSteps
  <2>2. fma'.decoding = FALSE /\ fma'.dsp_enable = FALSE /\ hist'.dry = 0
    BY <2>1 DEF FmaReset, HistInit
  <2>3. IdleClock' BY <2>1 DEF IdleClock
  <2>4. (hist'.dry > 0 => Dried') /\ (fma'.dsp_enable => ~fma'.start_valid) BY <2>2
  <2> QED BY <1>1, <2>2, <2>3, <2>4, ClockQuiet
<1>14. CASE SaveAndLoad
  <2>1. /\ phase = "idle" /\ UNCHANGED <<fma, out, phase>>
        /\ hist' = IF hist.clean THEN [hist EXCEPT !.base = @ + m_audio.read] ELSE hist
    BY <1>1, <1>14, SaveSteps
  <2>2. hist'.dry = hist.dry BY <1>2, <2>1 DEF Histories
  <2>3. IdleClock /\ IdleClock' BY <2>1 DEF IdleClock
  <2>4. buffered_bytes(m_audio') = buffered_bytes(m_audio) BY <1>1, <1>14, SavedBuffers
  <2> QED BY <1>1, <2>1, <2>2, <2>3, <2>4, ClockSame
<1>15. CASE UNCHANGED vars
  <2>1. UNCHANGED <<m_audio, fma, out, phase, hist>> BY <1>15 DEF vars
  <2>2. ClockInv' = ClockInv
    BY <2>1 DEF ClockInv, IdleClock, Dried, audio_ring_used, buffered_bytes
  <2> QED BY <1>1, <1>2, <2>2 DEF Clocks
<1> QED BY <1>3, <1>4, <1>5, <1>6, <1>7, <1>8, <1>9, <1>10, <1>11, <1>12, <1>13, <1>14, <1>15
        DEF Next, Call, Driver

\* An underflow is announced by the end of advance_audio() only.
LEMMA UnderflowAnnounced ==
    ASSUME Clocks, [Next]_vars, fma'.unf, ~fma.unf
    PROVE  hist.dry + Div >= DryTicks
<1>1. TypeInv /\ TypeInv' BY NextType DEF Clocks
<1>2. hist \in Histories /\ Fits(dma) /\ fma \in AudioUnits BY <1>1 DEF TypeInv, TypeOK
<1>3. CASE Drained BY <1>1, <1>3, ClockDrained
<1>4. ASSUME NEW c, Fits(c), NEW f \in AudioUnits, NEW h \in Histories, try_dma(c, f, h)
      PROVE  fma'.unf = f.unf
  <2>1. TryMoves(c, f) BY <1>1, <1>4, TryDma
  <2> QED BY <2>1 DEF TryMoves, SameUnit
<1>5. CASE Stop BY <1>1, <1>5, StopSteps
<1>6. CASE DecodeFrame BY <1>1, <1>6, FrameSteps
<1>7. CASE LoopEnds BY <1>1, <1>7, LoopSteps
<1>8. ASSUME NEW count \in Chunks, NEW into \in Directions, ArmChannel(count, into) PROVE FALSE
  BY <1>1, <1>8, ArmSteps
<1>9. ASSUME NEW transfer \in BOOLEAN, NEW stop \in BOOLEAN, write_fma_cmd(transfer, stop)
      PROVE  FALSE
  <2>1. CASE try_dma(Asked(TRUE), [fma EXCEPT !.unf = FALSE], [hist EXCEPT !.overlap = FALSE])
    <3> DEFINE f == [fma EXCEPT !.unf = FALSE]
               h == [hist EXCEPT !.overlap = FALSE]
    <3>1. Fits(Asked(TRUE)) /\ f \in AudioUnits /\ h \in Histories BY <1>1, AskedIs
    <3>2. f.unf = FALSE BY <1>2 DEF AudioUnits
    <3>3. try_dma(Asked(TRUE), f, h) BY <2>1
    <3> HIDE DEF f, h
    <3> QED BY <1>4, <3>1, <3>2, <3>3
  <2> QED BY <1>9, <2>1, CommandSteps
<1>10. CASE write_syscmd
  <2>1. try_dma(Taken0, fma, [hist EXCEPT !.overlap = TRUE]) BY <1>10, VideoSteps
  <2>2. Fits(Taken0) /\ [hist EXCEPT !.overlap = TRUE] \in Histories BY <1>1, AskedIs
  <2> QED BY <1>2, <1>4, <2>1, <2>2
<1>11. ASSUME NEW number \in Streams, SelectStream(number) PROVE FALSE
  BY <1>1, <1>11, SelectSteps
<1>12. CASE dclk_tick
  <2>1. Ticked \in AudioUnits /\ TickedHist \in Histories /\ Ticked.unf = fma.unf
    BY <1>1, TickIs
  <2>2. try_dma(dma, Ticked, TickedHist) \/ fma' = Ticked BY <1>12, TickSteps
  <2> QED BY <1>2, <1>4, <2>1, <2>2
<1>13. CASE sound_stream_update BY <1>1, <1>13, SoundSteps
<1>14. CASE device_reset
  <2>1. fma' = FmaReset BY <1>14, DeviceSteps
  <2> QED BY <2>1 DEF FmaReset
<1>15. CASE SaveAndLoad BY <1>1, <1>15, SaveSteps
<1>16. CASE UNCHANGED vars BY <1>16 DEF vars
<1> QED BY <1>3, <1>5, <1>6, <1>7, <1>8, <1>9, <1>10, <1>11, <1>12, <1>13, <1>14, <1>15, <1>16
        DEF Next, Call, Driver

\* While the decoder claims to decode it has not run dry for long.
LEMMA DryIsShort ==
    ASSUME Clocks
    PROVE  fma.decoding => hist.dry <= DryTicks + Div
<1>1. TypeInv /\ ClockInv BY DEF Clocks
<1>2. /\ fma.since \in Nat /\ fma.since <= DryTicks /\ fma.dclk \in Nat /\ fma.dclk < Div
      /\ hist.dry \in Nat /\ DryTicks \in Nat /\ Div \in Nat
  BY <1>1, BufferedIs, Sizes
<1>3. fma.decoding =>
          \/ hist.dry <= fma.since
          \/ hist.dry <= DryTicks + (IF IdleClock THEN fma.dclk ELSE Div)
  BY <1>1 DEF ClockInv
<1> QED BY <1>2, <1>3

\* A command that was not followed yet holds the request, unless the other unit has it.
ReqInv == dma.fma_bit /\ ~hist.overlap => dma.pending /\ dma.for_fma
Requests == TypeInv /\ ReqInv

\* What a tick leaves.
NoneWaits == ~(dma.fma_bit /\ dma.count # 0 /\ ~dma.into /\ ~hist.overlap)

LEMMA ReqTry ==
    ASSUME TypeInv, NEW c, Fits(c), NEW f \in AudioUnits, NEW h \in Histories,
           try_dma(c, f, h), c.fma_bit /\ ~h.overlap => c.pending /\ c.for_fma
    PROVE  ReqInv' /\ NoneWaits' /\ fma'.dclk = f.dclk
<1>1. TryMoves(c, f) /\ TryHist(c, h) BY TryDma
<1>2. dma' = Served(c) /\ fma'.dclk = f.dclk BY <1>1 DEF TryMoves, SameUnit
<1>3. hist'.overlap = (h.overlap \/ (c.count # 0 /\ c.into)) BY <1>1 DEF TryHist
<1>4. c \in Channels BY DEF Fits
<1>5. CASE c.count = 0
  <2>1. dma' = c BY <1>2, <1>5 DEF Served
  <2> QED BY <1>2, <1>3, <1>5, <2>1 DEF ReqInv, NoneWaits
<1>6. CASE c.count # 0 /\ c.into
  <2>1. hist'.overlap = TRUE BY <1>3, <1>6
  <2> QED BY <1>2, <2>1 DEF ReqInv, NoneWaits
<1>7. CASE c.count # 0 /\ ~c.into
  <2> DEFINE at == c.at + 2 * c.count
  <2>1. dma' = [c EXCEPT !.pending = FALSE, !.for_fma = FALSE, !.count = 0,
                         !.at = at, !.fma_bit = c.fma_bit /\ ~c.for_fma]
    BY <1>2, <1>7 DEF Served, Complete
  <2> HIDE DEF at
  <2>2. dma'.count = 0 /\ dma'.fma_bit = (c.fma_bit /\ ~c.for_fma)
    BY <1>4, <2>1 DEF Channels
  <2>3. hist'.overlap = h.overlap
    <3>1. h.overlap \in BOOLEAN BY HistFields
    <3> QED BY <1>3, <1>7, <3>1
  <2> QED BY <1>2, <2>2, <2>3 DEF ReqInv, NoneWaits
<1> QED BY <1>5, <1>6, <1>7

\* What decides whether a request waits, as it was.
LEMMA ReqKept ==
    ASSUME Requests, TypeInv', dma'.fma_bit = dma.fma_bit, dma'.pending = dma.pending,
           dma'.for_fma = dma.for_fma, hist'.overlap = hist.overlap
    PROVE  Requests'
BY DEF Requests, ReqInv

LEMMA InitRequest == Init => Requests
<1> SUFFICES ASSUME Init PROVE Requests OBVIOUS
<1>1. dma.fma_bit = FALSE BY DEF Init, DmaReset
<1> QED BY <1>1, InitType DEF Requests, ReqInv

LEMMA NextRequest ==
    ASSUME Requests, [Next]_vars
    PROVE  /\ Requests'
           /\ fma'.dclk # fma.dclk => NoneWaits'
<1>1. TypeInv /\ TypeInv' /\ ReqInv BY NextType DEF Requests
<1>2. hist \in Histories /\ dma \in Channels /\ Fits(dma) /\ fma \in AudioUnits
  BY <1>1 DEF TypeInv, TypeOK
<1>3. CASE Stop
  <2>1. /\ dma' = dma /\ fma'.dclk = fma.dclk
        /\ hist' = IF dma.at = 1 THEN Afresh(hist) ELSE Lost(hist)
    BY <1>1, <1>3, StopSteps
  <2>2. hist'.overlap = hist.overlap BY <1>2, <2>1, LostType
  <2> QED BY <1>1, <2>1, <2>2, ReqKept
<1>4. CASE DecodeFrame
  <2>1. dma' = dma /\ fma'.dclk = fma.dclk /\ hist'.overlap = hist.overlap
    BY <1>1, <1>4, FrameSteps
  <2> QED BY <1>1, <2>1, ReqKept
<1>5. CASE LoopEnds
  <2>1. UNCHANGED <<dma, fma, hist>> BY <1>1, <1>5, LoopSteps
  <2> QED BY <1>1, <2>1, ReqKept
<1>6. CASE Drained
  <2>1. UNCHANGED <<dma, hist>> /\ fma'.dclk = fma.dclk BY <1>1, <1>6, DrainedSteps
  <2> QED BY <1>1, <2>1, ReqKept
<1>7. ASSUME NEW count \in Chunks, NEW into \in Directions, ArmChannel(count, into)
      PROVE  Requests' /\ fma'.dclk = fma.dclk
  <2>1. /\ fma' = fma /\ dma'.pending = dma.pending /\ dma'.for_fma = dma.for_fma
        /\ dma'.fma_bit = dma.fma_bit
        /\ hist' = IF Untouched THEN Afresh(hist) ELSE hist
    BY <1>1, <1>7, ArmSteps
  <2>2. hist'.overlap = hist.overlap BY <1>2, <2>1, LostType
  <2> QED BY <1>1, <2>1, <2>2, ReqKept
<1>8. ASSUME NEW transfer \in BOOLEAN, NEW stop \in BOOLEAN, write_fma_cmd(transfer, stop)
      PROVE  Requests' /\ fma'.dclk = fma.dclk
  <2>1. CASE try_dma(Asked(TRUE), [fma EXCEPT !.unf = FALSE], [hist EXCEPT !.overlap = FALSE])
    <3> DEFINE f == [fma EXCEPT !.unf = FALSE]
               h == [hist EXCEPT !.overlap = FALSE]
               c == Asked(TRUE)
    <3>1. /\ Fits(c) /\ f \in AudioUnits /\ h \in Histories
          /\ c.pending = TRUE /\ c.for_fma = TRUE
      BY <1>1, AskedIs
    <3>2. f.dclk = fma.dclk BY <1>2 DEF AudioUnits
    <3>3. try_dma(c, f, h) BY <2>1
    <3> HIDE DEF f, h, c
    <3>4. ReqInv' /\ fma'.dclk = f.dclk BY <1>1, <3>1, <3>3, ReqTry
    <3> QED BY <1>1, <3>2, <3>4 DEF Requests
  <2>2. CASE dma' = [dma EXCEPT !.fma_bit = FALSE] /\ UNCHANGED fma
    <3>1. dma'.fma_bit = FALSE BY <1>2, <2>2 DEF Channels
    <3> QED BY <1>1, <2>2, <3>1 DEF Requests, ReqInv
  <2> QED BY <1>8, <2>1, <2>2, CommandSteps
<1>9. CASE write_syscmd
  <2> DEFINE h == [hist EXCEPT !.overlap = TRUE]
             c == Taken0
  <2>1. try_dma(c, fma, h) BY <1>9, VideoSteps
  <2>2. Fits(c) /\ h \in Histories BY <1>1, AskedIs
  <2>3. h.overlap = TRUE BY <1>2 DEF Histories
  <2> HIDE DEF h, c
  <2>4. ReqInv' /\ fma'.dclk = fma.dclk BY <1>1, <1>2, <2>1, <2>2, <2>3, ReqTry
  <2> QED BY <1>1, <2>4 DEF Requests
<1>10. ASSUME NEW number \in Streams, SelectStream(number)
       PROVE  Requests' /\ fma'.dclk = fma.dclk
  <2>1. /\ dma' = dma /\ fma'.dclk = fma.dclk
        /\ hist' = IF dma.at = 1 THEN Afresh(hist) ELSE Lost(hist)
    BY <1>1, <1>10, SelectSteps
  <2>2. hist'.overlap = hist.overlap BY <1>2, <2>1, LostType
  <2> QED BY <1>1, <2>1, <2>2, ReqKept
<1>11. CASE dclk_tick
  <2>1. /\ Ticked \in AudioUnits /\ TickedHist \in Histories
        /\ TickedHist.overlap = hist.overlap
    BY <1>1, TickIs
  <2>2. CASE dma.pending /\ try_dma(dma, Ticked, TickedHist)
    <3>1. ReqInv' /\ NoneWaits' BY <1>1, <1>2, <2>1, <2>2, ReqTry DEF ReqInv
    <3> QED BY <1>1, <3>1 DEF Requests
  <2>3. CASE ~dma.pending /\ hist' = TickedHist /\ dma' = dma
    <3>1. Requests' BY <1>1, <2>1, <2>3, ReqKept
    <3>2. NoneWaits' BY <1>1, <2>1, <2>3 DEF ReqInv, NoneWaits
    <3> QED BY <3>1, <3>2
  <2> QED BY <1>11, <2>2, <2>3, TickSteps
<1>12. CASE sound_stream_update
  <2>1. /\ UNCHANGED <<dma, fma>>
        /\ hist' = IF Plays THEN [hist EXCEPT !.owed = @ - min(Update, @), !.mute = 0]
                   ELSE IF audio_ring_used >= 2
                   THEN [hist EXCEPT !.mute = min(@ + Update, PrimeTimeout + 1)]
                   ELSE hist
    BY <1>1, <1>12, SoundSteps
  <2>2. hist'.overlap = hist.overlap BY <1>2, <2>1 DEF Histories
  <2> QED BY <1>1, <2>1, <2>2, ReqKept
<1>13. CASE device_reset
  <2>1. dma'.fma_bit = FALSE BY <1>13, DeviceSteps DEF DmaReset
  <2> QED BY <1>1, <2>1 DEF Requests, ReqInv, NoneWaits
<1>14. CASE SaveAndLoad
  <2>1. /\ UNCHANGED <<dma, fma>>
        /\ hist' = IF hist.clean THEN [hist EXCEPT !.base = @ + m_audio.read] ELSE hist
    BY <1>1, <1>14, SaveSteps
  <2>2. hist'.overlap = hist.overlap BY <1>2, <2>1 DEF Histories
  <2> QED BY <1>1, <2>1, <2>2, ReqKept
<1>15. CASE UNCHANGED vars
  <2>1. UNCHANGED <<dma, fma, hist>> BY <1>15 DEF vars
  <2> QED BY <1>1, <2>1, ReqKept
<1> QED BY <1>3, <1>4, <1>5, <1>6, <1>7, <1>8, <1>9, <1>10, <1>11, <1>12, <1>13, <1>14, <1>15
        DEF Next, Call, Driver

\* As long as the history is clean, the elementary stream is where the disc leads.
Demuxed ==
    hist.clean => On(disc, fma.stream, dma.at, hist.base, m_audio_demux, m_audio.buffer)
Payloads == TypeInv /\ Demuxed

LEMMA OnFresh ==
    ASSUME NEW d \in Discs, NEW n \in Streams
    PROVE  On(d, n, 1, 0, demux_reset, audio_reset.buffer)
<1> DEFINE p == d.payload[n]
           l == Len(p)
<1>1. PICK f : Feeds(f, d, n) /\ \A k \in 0..Len(d.bytes) : Uncut(d, n)[k] = {f[k]}
  BY UncutFeeds
<1>2. Len(d.bytes) \in Nat /\ l \in Nat /\ \A i \in 1..l : p[i] \in 1..Len(d.bytes)
  BY DiscFields
<1>3. 0 \in 0..Len(d.bytes) BY <1>2
<1>4. Uncut(d, n)[1 - 1] = {demux_reset} BY <1>1, <1>3 DEF Feeds
<1> HIDE DEF p, l
<1>5. \A i \in 1..l : p[i] < 1 <=> i <= 0 BY <1>2
<1>6. Holds(d, n, 1, 0, audio_reset.buffer)
  <2>1. Len(audio_reset.buffer) = 0 /\ 0 + 0 = 0 BY ResetIsSound
  <2> DEFINE e == audio_reset.buffer
  <2>2. 0 + Len(e) = 0 /\ Len(e) = 0 BY <2>1
  <2> HIDE DEF e
  <2>3. \A i \in 1..Len(e) : e[i] = d.bytes[p[0 + i]] BY <2>2
  <2>4. 0 + Len(e) <= l /\ \A i \in 1..l : p[i] < 1 <=> i <= 0 + Len(e) BY <1>2, <1>5, <2>2
  <2> QED BY <2>3, <2>4 DEF Holds, p, l, e
<1> QED BY <1>4, <1>6 DEF On

\* Bytes that leave the buffer at its start.
LEMMA HoldsShifted ==
    ASSUME NEW d \in Discs, NEW n \in Streams, NEW at \in Nat, NEW base \in Nat,
           NEW s, NEW t, Len(s) \in Nat, NEW gone \in 0..Len(s),
           Holds(d, n, at, base, s), Len(t) = Len(s) - gone,
           \A k \in 1..Len(t) : t[k] = s[gone + k]
    PROVE  Holds(d, n, at, base + gone, t)
<1> DEFINE p == d.payload[n]
           l == Len(p)
           ls == Len(s)
           lt == Len(t)
<1>1. /\ base + ls <= l
      /\ \A i \in 1..l : p[i] < at <=> i <= base + ls
      /\ \A i \in 1..ls : s[i] = d.bytes[p[base + i]]
  BY DEF Holds
<1>2. ls \in Nat /\ l \in Nat /\ gone \in 0..ls /\ lt = ls - gone BY DiscFields
<1>3. \A k \in 1..lt : t[k] = s[gone + k] OBVIOUS
<1> HIDE DEF p, l, ls, lt
<1>4. base + gone + lt = base + ls /\ gone \in Nat /\ lt \in Nat BY <1>2
<1>5. ASSUME NEW k \in 1..lt PROVE t[k] = d.bytes[p[base + gone + k]]
  <2>1. gone + k \in 1..ls /\ base + (gone + k) = base + gone + k BY <1>2
  <2>2. s[gone + k] = d.bytes[p[base + (gone + k)]] BY <1>1, <2>1
  <2> QED BY <1>3, <2>1, <2>2
<1>6. base + gone + lt <= l /\ \A i \in 1..l : p[i] < at <=> i <= base + gone + lt
  BY <1>1, <1>4
<1> QED BY <1>5, <1>6 DEF Holds, p, l, lt

\* A transfer, whichever handler makes it.
LEMMA PayloadTry ==
    ASSUME Payloads, TypeInv', NEW c, Fits(c), NEW f \in AudioUnits, NEW h \in Histories,
           try_dma(c, f, h), disc' = disc, c.at = dma.at, f.stream = fma.stream,
           h.clean = hist.clean, h.base = hist.base
    PROVE  Payloads'
<1>1. TypeInv BY DEF Payloads
<1>2. TryMoves(c, f) /\ TryTracks(c, f) /\ TryHist(c, h) BY <1>1, TryDma
<1> SUFFICES ASSUME hist'.clean
             PROVE  On(disc, fma'.stream, dma'.at, hist'.base, m_audio_demux', m_audio'.buffer)
  BY DEF Payloads, Demuxed
<1>3. /\ hist.clean /\ (Moves(c) => c.for_fma)
      /\ hist'.base = hist.base + m_audio.read - m_audio'.read
  BY <1>2 DEF TryHist
<1>4. fma'.stream = fma.stream /\ dma' = Served(c)
  BY <1>2 DEF TryMoves, SameUnit
<1>5. On(disc, f.stream, c.at, hist.base, m_audio_demux, m_audio.buffer)
  BY <1>3 DEF Payloads, Demuxed
<1>6. hist.base \in Nat /\ c \in Channels /\ m_audio.read \in Nat
  BY <1>1, HistFields, AudioFields DEF TypeInv, TypeOK, Fits
<1>7. CASE Moves(c)
  <2>1. On(disc, f.stream, c.at + 2 * c.count,
           hist.base + m_audio.read - m_audio'.read, m_audio_demux', m_audio'.buffer)
    BY <1>2, <1>3, <1>5, <1>6, <1>7 DEF TryTracks
  <2>2. dma'.at = c.at + 2 * c.count
    <3> DEFINE at == c.at + 2 * c.count
    <3>1. dma' = [c EXCEPT !.pending = FALSE, !.for_fma = FALSE, !.count = 0,
                           !.at = at, !.fma_bit = c.fma_bit /\ ~c.for_fma]
      BY <1>4, <1>7 DEF Served, Complete, Moves
    <3> HIDE DEF at
    <3>2. dma'.at = at BY <1>6, <3>1 DEF Channels
    <3> QED BY <3>2 DEF at
  <2> QED BY <1>3, <1>4, <2>1, <2>2
<1>8. CASE ~Moves(c)
  <2>1. m_audio_demux' = m_audio_demux /\ m_audio' = m_audio BY <1>2, <1>8 DEF TryMoves
  <2>2. dma'.at = c.at
    <3>1. CASE c.count = 0 BY <1>4, <3>1 DEF Served
    <3>2. CASE c.count # 0 /\ c.into
      <4>1. dma' = [c EXCEPT !.pending = FALSE] BY <1>4, <3>2 DEF Served
      <4> QED BY <1>6, <4>1 DEF Channels
    <3> QED BY <1>8, <3>1, <3>2 DEF Moves
  <2>3. hist'.base = hist.base
    <3> DEFINE x == hist.base
               y == m_audio.read
    <3>1. x \in Nat /\ y \in Nat /\ hist'.base = x + y - y BY <1>3, <1>6, <2>1
    <3> HIDE DEF x, y
    <3>2. hist'.base = x BY <3>1
    <3> QED BY <3>2 DEF x
  <2> QED BY <1>4, <1>5, <2>1, <2>2, <2>3
<1> QED BY <1>7, <1>8

\* Nothing that decides where the stream is changes.
LEMMA PayloadSame ==
    ASSUME Payloads, TypeInv', disc' = disc, fma'.stream = fma.stream, dma'.at = dma.at,
           m_audio_demux' = m_audio_demux, m_audio'.buffer = m_audio.buffer,
           hist'.clean => hist.clean /\ hist'.base = hist.base
    PROVE  Payloads'
BY DEF Payloads, Demuxed

\* The disc is read from its start.
LEMMA PayloadFresh ==
    ASSUME TypeInv', m_audio_demux' = demux_reset, m_audio' = audio_reset,
           hist'.clean => dma'.at = 1 /\ hist'.base = 0
    PROVE  Payloads'
<1>1. disc' \in Discs /\ fma'.stream \in Streams BY UnitFields DEF TypeInv, TypeOK
<1>2. On(disc', fma'.stream, 1, 0, demux_reset, audio_reset.buffer) BY <1>1, OnFresh
<1> QED BY <1>2 DEF Payloads, Demuxed

LEMMA PayloadFrame ==
    ASSUME Payloads, TypeInv', DecodeFrame
    PROVE  Payloads'
<1>1. /\ TypeInv /\ hist \in Histories /\ fma \in AudioUnits /\ dma \in Channels
      /\ disc \in Discs /\ Sound(m_audio) /\ m_audio \in Audios
  BY DEF Payloads, TypeInv, TypeOK
<1>2. /\ UNCHANGED <<m_audio_demux, dma, disc>> /\ HasFrame(m_audio)
      /\ m_audio' = decode(m_audio) /\ fma'.stream = fma.stream
      /\ hist'.clean = hist.clean /\ (hist.clean => hist'.base = hist.base + Gone)
  BY <1>1, FrameSteps
<1> SUFFICES ASSUME hist.clean
             PROVE  On(disc, fma.stream, dma.at, hist.base + Gone, m_audio_demux, m_audio'.buffer)
  BY <1>2 DEF Payloads, Demuxed
<1>3. On(disc, fma.stream, dma.at, hist.base, m_audio_demux, m_audio.buffer)
  BY DEF Payloads, Demuxed
<1>4. hist.base \in Nat /\ fma.stream \in Streams /\ dma.at \in Nat
  BY <1>1, HistFields, UnitFields, ChannelFields
<1> DEFINE a == m_audio
           b == decode(a)
           s == a.buffer
           t == b.buffer
           gone == Len(s) - Len(t)
<1>5. /\ gone \in Nat /\ gone <= Len(s) /\ \A k \in 1..Len(t) : t[k] = s[gone + k]
      /\ b \in Audios
  <2>1. Sound(a) /\ HasFrame(a) BY <1>1, <1>2
  <2> HIDE DEF a
  <2> QED BY <2>1, DecodedFrame DEF Sound
<1>6. Len(s) \in Nat /\ Len(t) \in Nat BY <1>1, <1>5, AudioFields
<1>7. gone = Gone BY <1>2 DEF Gone
<1>8. Holds(disc, fma.stream, dma.at, hist.base, s) BY <1>3 DEF On
<1> HIDE DEF s, t, a, b
<1>9. gone \in 0..Len(s) /\ Len(t) = Len(s) - gone BY <1>5, <1>6
<1> HIDE DEF gone
<1>10. Holds(disc, fma.stream, dma.at, hist.base + gone, t)
  BY <1>1, <1>4, <1>5, <1>6, <1>8, <1>9, HoldsShifted
<1> QED BY <1>2, <1>3, <1>7, <1>10 DEF On, t, b, a

LEMMA PayloadSaved ==
    ASSUME Payloads, TypeInv', SaveAndLoad
    PROVE  Payloads'
<1>1. /\ TypeInv /\ hist \in Histories /\ fma \in AudioUnits /\ dma \in Channels
      /\ disc \in Discs /\ Sound(m_audio) /\ m_audio \in Audios
  BY DEF Payloads, TypeInv, TypeOK
<1>2. /\ UNCHANGED <<m_audio_demux, dma, fma, disc>> /\ m_audio' = Reloaded(m_audio)
      /\ hist' = IF hist.clean THEN [hist EXCEPT !.base = @ + m_audio.read] ELSE hist
  BY <1>1, SaveSteps
<1>3. hist'.clean = hist.clean /\ (hist.clean => hist'.base = hist.base + m_audio.read)
  BY <1>1, <1>2 DEF Histories
<1> SUFFICES ASSUME hist.clean
             PROVE  On(disc, fma.stream, dma.at, hist.base + m_audio.read, m_audio_demux,
                       m_audio'.buffer)
  BY <1>2, <1>3 DEF Payloads, Demuxed
<1>4. On(disc, fma.stream, dma.at, hist.base, m_audio_demux, m_audio.buffer)
  BY DEF Payloads, Demuxed
<1>5. hist.base \in Nat /\ fma.stream \in Streams /\ dma.at \in Nat
  BY <1>1, HistFields, UnitFields, ChannelFields
<1> DEFINE a == m_audio
           b == Reloaded(a)
           s == a.buffer
           t == b.buffer
           gone == a.read
<1>6. /\ Len(t) = Len(s) - gone /\ \A k \in 1..Len(t) : t[k] = s[gone + k]
      /\ gone <= Len(s)
  <2>1. Sound(a) BY <1>1
  <2> HIDE DEF a
  <2> QED BY <2>1, ReloadedIs DEF Sound
<1>7. Len(s) \in Nat /\ gone \in Nat BY <1>1, AudioFields
<1>8. Holds(disc, fma.stream, dma.at, hist.base, s) BY <1>4 DEF On
<1> HIDE DEF s, t, a, b, gone
<1>9. gone \in 0..Len(s) BY <1>6, <1>7
<1>10. Holds(disc, fma.stream, dma.at, hist.base + gone, t)
  BY <1>1, <1>5, <1>6, <1>7, <1>8, <1>9, HoldsShifted
<1> QED BY <1>2, <1>4, <1>10 DEF On, t, b, a, gone

LEMMA InitPayload == Init => Payloads
<1> SUFFICES ASSUME Init PROVE Payloads OBVIOUS
<1>1. /\ m_audio_demux = demux_reset /\ m_audio = audio_reset
      /\ dma.at = 1 /\ hist.base = 0 /\ TypeInv
  BY InitType DEF Init, DmaReset, HistInit
<1>2. disc \in Discs /\ fma.stream \in Streams BY <1>1, UnitFields DEF TypeInv, TypeOK
<1>3. On(disc, fma.stream, 1, 0, demux_reset, audio_reset.buffer) BY <1>2, OnFresh
<1> QED BY <1>1, <1>3 DEF Payloads, Demuxed

LEMMA NextPayload == Payloads /\ [Next]_vars => Payloads'
<1> SUFFICES ASSUME Payloads, [Next]_vars PROVE Payloads' OBVIOUS
<1>1. TypeInv /\ TypeInv' BY NextType DEF Payloads
<1>2. hist \in Histories /\ dma \in Channels /\ Fits(dma) /\ fma \in AudioUnits
  BY <1>1 DEF TypeInv, TypeOK
<1>3. CASE Stop
  <2>1. /\ dma' = dma /\ m_audio_demux' = demux_reset /\ m_audio' = audio_reset
        /\ hist' = IF dma.at = 1 THEN Afresh(hist) ELSE Lost(hist)
    BY <1>1, <1>3, StopSteps
  <2>2. hist'.clean => dma.at = 1 /\ hist'.base = 0 BY <1>2, <2>1, LostType
  <2> QED BY <1>1, <2>1, <2>2, PayloadFresh
<1>4. CASE DecodeFrame BY <1>1, <1>4, PayloadFrame
<1>5. CASE LoopEnds
  <2>1. /\ UNCHANGED <<m_audio_demux, dma, fma, disc, hist>>
        /\ m_audio'.buffer = m_audio.buffer
    BY <1>1, <1>5, LoopSteps
  <2> QED BY <1>1, <2>1, PayloadSame
<1>6. CASE Drained
  <2>1. /\ UNCHANGED <<m_audio_demux, dma, disc, hist>> /\ fma'.stream = fma.stream
        /\ m_audio'.buffer = m_audio.buffer
    BY <1>1, <1>6, DrainedSteps
  <2> QED BY <1>1, <2>1, PayloadSame
<1>7. ASSUME NEW count \in Chunks, NEW into \in Directions, ArmChannel(count, into)
      PROVE  Payloads'
  <2>1. /\ UNCHANGED <<m_audio_demux, m_audio, fma, disc>>
        /\ dma'.at = IF Untouched THEN 1 ELSE dma.at
        /\ hist' = IF Untouched THEN Afresh(hist) ELSE hist
    BY <1>1, <1>7, ArmSteps
  <2>2. CASE Untouched
    <3>1. m_audio_demux' = demux_reset /\ m_audio' = audio_reset BY <2>1, <2>2 DEF Untouched
    <3>2. dma'.at = 1 /\ hist'.base = 0 BY <1>2, <2>1, <2>2, LostType
    <3> QED BY <1>1, <3>1, <3>2, PayloadFresh
  <2>3. CASE ~Untouched BY <1>1, <2>1, <2>3, PayloadSame
  <2> QED BY <2>2, <2>3
<1>8. ASSUME NEW transfer \in BOOLEAN, NEW stop \in BOOLEAN, write_fma_cmd(transfer, stop)
      PROVE  Payloads'
  <2>1. disc' = disc BY <1>8, CommandSteps
  <2>2. CASE try_dma(Asked(TRUE), [fma EXCEPT !.unf = FALSE], [hist EXCEPT !.overlap = FALSE])
    <3> DEFINE f == [fma EXCEPT !.unf = FALSE]
               h == [hist EXCEPT !.overlap = FALSE]
               c == Asked(TRUE)
    <3>1. Fits(c) /\ c.at = dma.at /\ f \in AudioUnits /\ h \in Histories BY <1>1, AskedIs
    <3>2. f.stream = fma.stream /\ h.clean = hist.clean /\ h.base = hist.base
      BY <1>2 DEF AudioUnits, Histories
    <3>3. try_dma(c, f, h) BY <2>2
    <3> HIDE DEF f, h, c
    <3> QED BY <1>1, <2>1, <3>1, <3>2, <3>3, PayloadTry
  <2>3. CASE /\ dma' = [dma EXCEPT !.fma_bit = FALSE]
             /\ UNCHANGED <<m_audio_demux, m_audio, fma, hist>>
    <3>1. dma'.at = dma.at BY <1>2, <2>3 DEF Channels
    <3> QED BY <1>1, <2>1, <2>3, <3>1, PayloadSame
  <2> QED BY <1>8, <2>2, <2>3, CommandSteps
<1>9. CASE write_syscmd
  <2> DEFINE h == [hist EXCEPT !.overlap = TRUE]
             c == Taken0
  <2>1. disc' = disc /\ try_dma(c, fma, h) BY <1>9, VideoSteps
  <2>2. Fits(c) /\ c.at = dma.at /\ h \in Histories BY <1>1, AskedIs
  <2>3. h.clean = hist.clean /\ h.base = hist.base BY <1>2 DEF Histories
  <2> HIDE DEF h, c
  <2> QED BY <1>1, <1>2, <2>1, <2>2, <2>3, PayloadTry
<1>10. ASSUME NEW number \in Streams, SelectStream(number) PROVE Payloads'
  <2>1. /\ UNCHANGED <<m_audio_demux, m_audio, dma>>
        /\ m_audio_demux = demux_reset /\ m_audio = audio_reset
        /\ hist' = IF dma.at = 1 THEN Afresh(hist) ELSE Lost(hist)
    BY <1>1, <1>10, SelectSteps
  <2>2. hist'.clean => dma.at = 1 /\ hist'.base = 0 BY <1>2, <2>1, LostType
  <2> QED BY <1>1, <2>1, <2>2, PayloadFresh
<1>11. CASE dclk_tick
  <2>1. /\ Ticked \in AudioUnits /\ TickedHist \in Histories
        /\ Ticked.stream = fma.stream /\ TickedHist.clean = hist.clean
        /\ TickedHist.base = hist.base
    BY <1>1, TickIs
  <2>2. disc' = disc BY <1>11, TickSteps
  <2>3. CASE try_dma(dma, Ticked, TickedHist) BY <1>1, <1>2, <2>1, <2>2, <2>3, PayloadTry
  <2>4. CASE /\ fma' = Ticked /\ hist' = TickedHist
             /\ UNCHANGED <<m_audio_demux, m_audio, dma>>
    BY <1>1, <2>1, <2>2, <2>4, PayloadSame
  <2> QED BY <1>11, <2>3, <2>4, TickSteps
<1>12. CASE sound_stream_update
  <2>1. /\ UNCHANGED <<m_audio_demux, m_audio, dma, fma, disc>>
        /\ hist' = IF Plays THEN [hist EXCEPT !.owed = @ - min(Update, @), !.mute = 0]
                   ELSE IF audio_ring_used >= 2
                   THEN [hist EXCEPT !.mute = min(@ + Update, PrimeTimeout + 1)]
                   ELSE hist
    BY <1>1, <1>12, SoundSteps
  <2>2. hist'.clean = hist.clean /\ hist'.base = hist.base BY <1>2, <2>1 DEF Histories
  <2> QED BY <1>1, <2>1, <2>2, PayloadSame
<1>13. CASE device_reset
  <2>1. m_audio_demux' = demux_reset /\ m_audio' = audio_reset /\ dma'.at = 1 /\ hist'.base = 0
    BY <1>13, DeviceSteps DEF DmaReset, HistInit
  <2> QED BY <1>1, <2>1, PayloadFresh
<1>14. CASE SaveAndLoad BY <1>1, <1>14, PayloadSaved
<1>15. CASE UNCHANGED vars
  <2>1. UNCHANGED <<m_audio_demux, m_audio, dma, fma, disc, hist>> BY <1>15 DEF vars
  <2> QED BY <1>1, <2>1, PayloadSame
<1> QED BY <1>3, <1>4, <1>5, <1>6, <1>7, <1>8, <1>9, <1>10, <1>11, <1>12, <1>13, <1>14, <1>15
        DEF Next, Call, Driver

\* What Demuxed says of the places.
LEMMA PayloadCounted ==
    ASSUME Payloads
    PROVE  PayloadIsWhole
<1> DEFINE n == fma.stream
           p == disc.payload[n]
           l == Len(p)
           base == hist.base
           s == m_audio.buffer
           ls == Len(s)
           at == dma.at
           R == {k \in DOMAIN p : p[k] < at}
<1>1. /\ disc \in Discs /\ n \in Streams /\ base \in Nat /\ ls \in Nat
      /\ DOMAIN s = 1..ls
  BY HistFields, UnitFields, AudioFields DEF Payloads, TypeInv, TypeOK
<1>2. l \in Nat /\ DOMAIN p = 1..l BY <1>1, DiscFields
<1> SUFFICES ASSUME hist.clean
             PROVE  /\ base + ls = Cardinality(R)
                    /\ \A i \in DOMAIN s : s[i] = disc.bytes[p[base + i]]
  BY DEF PayloadIsWhole
<1>3. Holds(disc, n, at, base, s) BY DEF Payloads, Demuxed, On
<1>4. /\ base + ls <= l
      /\ \A i \in 1..l : p[i] < at <=> i <= base + ls
      /\ \A i \in 1..ls : s[i] = disc.bytes[p[base + i]]
  BY <1>3 DEF Holds
<1> HIDE DEF n, p, l, base, s, ls, at
<1>5. R = 1..(base + ls) BY <1>1, <1>2, <1>4
<1>6. Cardinality(1..(base + ls)) = base + ls
  <2>1. base + ls \in Nat BY <1>1
  <2>2. Cardinality(1..(base + ls)) = IF 1 > base + ls THEN 0 ELSE (base + ls) - 1 + 1
    BY <2>1, FS_Interval
  <2> QED BY <2>1, <2>2
<1> QED BY <1>1, <1>4, <1>5, <1>6

\* The elementary stream of a disc, as a decoder that was given all of it holds it.
Whole(d, n) == [buffer |-> [k \in DOMAIN d.payload[n] |-> d.bytes[d.payload[n][k]]]]

LEMMA HeadersAre ==
    ASSUME NEW d, NEW n
    PROVE  Headers(d, n) =
              {o \in 0..(Len(d.payload[n]) - HeaderBytes) :
                  IsSync(Whole(d, n), o) /\ ValidHeader(Whole(d, n), o)}
BY DEF Headers, Whole

\* A byte of the buffer is one of the stream.
LEMMA SameByte ==
    ASSUME NEW d \in Discs, NEW n \in Streams, NEW at \in Nat, NEW base \in Nat,
           NEW a \in Audios, Holds(d, n, at, base, a.buffer),
           NEW i \in Nat, i < Len(a.buffer)
    PROVE  At(a, i) = At(Whole(d, n), base + i)
<1> DEFINE p == d.payload[n]
           l == Len(p)
           s == a.buffer
           ls == Len(s)
           w == [k \in DOMAIN p |-> d.bytes[p[k]]]
<1>1. base + ls <= l /\ \A k \in 1..ls : s[k] = d.bytes[p[base + k]] BY DEF Holds
<1>2. ls \in Nat /\ l \in Nat /\ DOMAIN p = 1..l BY AudioFields, DiscFields
<1>3. At(a, i) = s[i + 1] /\ At(Whole(d, n), base + i) = w[(base + i) + 1] BY DEF At, Whole
<1>4. i < ls OBVIOUS
<1> HIDE DEF p, l, s, ls
<1>5. i + 1 \in 1..ls /\ (base + i) + 1 = base + (i + 1) /\ base + (i + 1) \in 1..l
  BY <1>1, <1>2, <1>4
<1>6. w[base + (i + 1)] = d.bytes[p[base + (i + 1)]] BY <1>2, <1>5
<1> QED BY <1>1, <1>3, <1>5, <1>6

\* A header of the stream that begins in the buffer, not with its last byte, is a candidate.
LEMMA HeaderIsCandidate ==
    ASSUME NEW d \in Discs, NEW n \in Streams, NEW at \in Nat, NEW base \in Nat,
           NEW a \in Audios, Holds(d, n, at, base, a.buffer),
           NEW i \in Nat, i + 2 <= Len(a.buffer), 0 <= a.bit, a.bit <= i,
           base + i \in Headers(d, n)
    PROVE  i \in Candidates(a)
<1> DEFINE w == Whole(d, n)
           ls == Len(a.buffer)
           b == a.bit
<1>1. ls \in Nat /\ b \in Int BY AudioFields
<1>2. i + 2 <= ls /\ 0 <= b /\ b <= i OBVIOUS
<1>3. IsSync(w, base + i) /\ ValidHeader(w, base + i) BY HeadersAre
<1>4. /\ base + (i + 1) = (base + i) + 1 /\ base + (i + 2) = (base + i) + 2
      /\ i + 1 \in Nat /\ i + 2 \in Nat
  OBVIOUS
<1>5. \A k \in Nat : k < ls => At(a, k) = At(w, base + k) BY SameByte
<1> HIDE DEF w, ls, b
<1>6. i < ls /\ i + 1 < ls BY <1>1, <1>2
<1>7. IsSync(a, i) BY <1>3, <1>4, <1>5, <1>6 DEF IsSync
<1>8. i \in b..(ls - 2) /\ b >= 0 BY <1>1, <1>2
<1>9. i \in Syncs(a) BY <1>7, <1>8 DEF Syncs, b, ls
<1>10. CASE i + HeaderBytes > ls BY <1>9, <1>10 DEF Candidates, ls
<1>11. CASE ~(i + HeaderBytes > ls)
  <2>1. i + 2 < ls BY <1>1, <1>11 DEF HeaderBytes
  <2>2. ValidHeader(a, i) BY <1>3, <1>4, <1>5, <1>6, <2>1 DEF ValidHeader
  <2> QED BY <1>9, <2>2 DEF Candidates
<1> QED BY <1>10, <1>11

\* A candidate that is whole is a header of the stream.
LEMMA CandidateIsHeader ==
    ASSUME NEW d \in Discs, NEW n \in Streams, NEW at \in Nat, NEW base \in Nat,
           NEW a \in Audios, Holds(d, n, at, base, a.buffer),
           NEW i \in Candidates(a), i + HeaderBytes <= Len(a.buffer)
    PROVE  base + i \in Headers(d, n)
<1> DEFINE w == Whole(d, n)
           ls == Len(a.buffer)
           l == Len(d.payload[n])
<1>1. ls \in Nat /\ l \in Nat /\ i \in Nat /\ base + ls <= l
  BY AudioFields, DiscFields, CandidatesAre DEF Holds
<1>2. i + HeaderBytes <= ls OBVIOUS
<1>3. IsSync(a, i) /\ ValidHeader(a, i)
  <2>1. i \in Syncs(a) /\ (i + HeaderBytes > ls \/ ValidHeader(a, i)) BY DEF Candidates
  <2>2. ~(i + HeaderBytes > ls)
    <3> HIDE DEF ls
    <3> QED BY <1>1, <1>2 DEF HeaderBytes
  <2> QED BY <2>1, <2>2 DEF Syncs
<1>4. /\ base + (i + 1) = (base + i) + 1 /\ base + (i + 2) = (base + i) + 2
      /\ i + 1 \in Nat /\ i + 2 \in Nat
  BY <1>1
<1>5. \A k \in Nat : k < ls => At(a, k) = At(w, base + k) BY SameByte
<1>6. base + i \in 0..(l - HeaderBytes)
  <2> HIDE DEF ls, l
  <2> QED BY <1>1, <1>2 DEF HeaderBytes
<1> HIDE DEF w, ls
<1>7. i < ls /\ i + 1 < ls /\ i + 2 < ls BY <1>1, <1>2 DEF HeaderBytes
<1>8. IsSync(w, base + i) BY <1>1, <1>3, <1>4, <1>5, <1>7 DEF IsSync
<1>9. ValidHeader(w, base + i) BY <1>1, <1>3, <1>4, <1>5, <1>7 DEF ValidHeader
<1> QED BY <1>6, <1>8, <1>9, HeadersAre DEF w

\* Where the frames of a stream are.
LEMMA FramesAre ==
    ASSUME NEW d \in Discs, NEW n \in Streams
    PROVE  LET frames == d.frames[n]
           IN  /\ Len(frames) \in Nat /\ DOMAIN frames = 1..Len(frames)
               /\ Headers(d, n) \subseteq Nat
               /\ \A j \in 1..Len(frames) : frames[j] \in Headers(d, n)
               /\ \A i, j \in 1..Len(frames) : i < j => frames[i] + FrameBytes <= frames[j]
               /\ \A o \in Headers(d, n) :
                     \/ o + FrameBytes > Len(d.payload[n])
                     \/ \E j \in 1..Len(frames) :
                           frames[j] <= o /\ o < frames[j] + FrameBytes - 1
<1> DEFINE frames == d.frames[n]
<1>1. frames \in Seq(Nat) BY DiscFields
<1>2. /\ \A j \in DOMAIN frames : frames[j] \in Headers(d, n)
      /\ \A i, j \in DOMAIN frames : i < j => frames[i] + FrameBytes <= frames[j]
      /\ \A o \in Headers(d, n) :
            \/ o + FrameBytes > Len(d.payload[n])
            \/ \E j \in DOMAIN frames : frames[j] <= o /\ o < frames[j] + FrameBytes - 1
  BY FrameAssumption
<1>3. Headers(d, n) \subseteq Nat
  <2>1. Len(d.payload[n]) \in Nat BY DiscFields
  <2> QED BY <2>1, HeadersAre DEF HeaderBytes
<1> HIDE DEF frames
<1>4. Len(frames) \in Nat /\ DOMAIN frames = 1..Len(frames) BY <1>1
<1> QED BY <1>2, <1>3, <1>4 DEF frames

\* Where the next frame may begin: behind the last.
Expected == IF hist.frames = 0 THEN 0 ELSE hist.last + FrameBytes

\* As long as the history is clean, the decoder has consumed the frames up to there, and the
\* position of the scan has not passed a header behind them.
Scanned ==
    hist.clean =>
        /\ hist.base + m_audio.read = Expected /\ m_audio.bit >= 0
        /\ hist.frames <= Len(disc.frames[fma.stream])
        /\ hist.frames > 0 => hist.last = disc.frames[fma.stream][hist.frames]
        /\ \A o \in Headers(disc, fma.stream) : o >= Expected => o >= hist.base + m_audio.bit
Scans == Payloads /\ Scanned

\* The positions, counted from the first byte of the stream, stay.
LEMMA ScanKept ==
    ASSUME Scans, Payloads', disc' = disc, fma'.stream = fma.stream,
           hist'.clean =>
              /\ hist.clean /\ hist'.frames = hist.frames /\ hist'.last = hist.last
              /\ hist'.base + m_audio'.read = hist.base + m_audio.read
              /\ hist'.base + m_audio'.bit = hist.base + m_audio.bit
              /\ m_audio.bit >= 0 => m_audio'.bit >= 0
    PROVE  Scans'
<1> SUFFICES ASSUME hist'.clean
             PROVE  /\ hist'.base + m_audio'.read = Expected' /\ m_audio'.bit >= 0
                    /\ hist'.frames <= Len(disc'.frames[fma'.stream])
                    /\ hist'.frames > 0 => hist'.last = disc'.frames[fma'.stream][hist'.frames]
                    /\ \A o \in Headers(disc', fma'.stream) :
                          o >= Expected' => o >= hist'.base + m_audio'.bit
  BY DEF Scans, Scanned
<1>1. Expected' = Expected BY DEF Expected
<1>2. /\ hist.base + m_audio.read = Expected /\ m_audio.bit >= 0
      /\ hist.frames <= Len(disc.frames[fma.stream])
      /\ hist.frames > 0 => hist.last = disc.frames[fma.stream][hist.frames]
      /\ \A o \in Headers(disc, fma.stream) : o >= Expected => o >= hist.base + m_audio.bit
  BY DEF Scans, Scanned
<1> QED BY <1>1, <1>2

\* The disc is read from its start.
LEMMA ScanFresh ==
    ASSUME Payloads', m_audio' = audio_reset,
           hist'.clean => hist'.base = 0 /\ hist'.frames = 0
    PROVE  Scans'
<1> SUFFICES ASSUME hist'.clean
             PROVE  /\ hist'.base + m_audio'.read = Expected' /\ m_audio'.bit >= 0
                    /\ hist'.frames <= Len(disc'.frames[fma'.stream])
                    /\ hist'.frames > 0 => hist'.last = disc'.frames[fma'.stream][hist'.frames]
                    /\ \A o \in Headers(disc', fma'.stream) :
                          o >= Expected' => o >= hist'.base + m_audio'.bit
  BY DEF Scans, Scanned
<1>1. disc' \in Discs /\ fma'.stream \in Streams BY UnitFields DEF Payloads, TypeInv, TypeOK
<1>2. Len(disc'.frames[fma'.stream]) \in Nat BY <1>1, FramesAre
<1>3. Expected' = 0 BY DEF Expected
<1>4. m_audio'.read = 0 /\ m_audio'.bit = 0 BY ResetIsSound
<1> QED BY <1>2, <1>3, <1>4

\* The numbers behind the history and the buffer.
LEMMA ScanNumbers ==
    ASSUME Payloads
    PROVE  /\ disc \in Discs /\ fma.stream \in Streams /\ m_audio \in Audios /\ Sound(m_audio)
           /\ hist \in Histories /\ hist.base \in Nat /\ hist.frames \in Nat /\ hist.last \in Nat
           /\ dma.at \in Nat /\ m_audio.read \in Nat /\ m_audio.bit \in Int
           /\ Len(m_audio.buffer) \in Nat
           /\ m_audio.read <= Len(m_audio.buffer) /\ m_audio.read <= m_audio.bit + 1
           /\ m_audio.bit <= Len(m_audio.buffer)
           /\ Expected \in Nat
<1>1. /\ disc \in Discs /\ m_audio \in Audios /\ Sound(m_audio) /\ hist \in Histories
      /\ dma \in Channels /\ fma \in AudioUnits
  BY DEF Payloads, TypeInv, TypeOK
<1>2. /\ hist.base \in Nat /\ hist.frames \in Nat /\ hist.last \in Nat
      /\ dma.at \in Nat /\ m_audio.read \in Nat /\ m_audio.bit \in Int
      /\ Len(m_audio.buffer) \in Nat /\ fma.stream \in Streams
  BY <1>1, HistFields, ChannelFields, AudioFields, UnitFields
<1>3. /\ m_audio.read <= Len(m_audio.buffer) /\ m_audio.read <= m_audio.bit + 1
      /\ m_audio.bit <= Len(m_audio.buffer)
  BY <1>1 DEF Sound
<1>4. Expected \in Nat BY <1>2, Sizes DEF Expected
<1> QED BY <1>1, <1>2, <1>3, <1>4

\* A transfer, whichever handler makes it.
LEMMA ScanTry ==
    ASSUME Scans, Payloads', NEW c, Fits(c), NEW f \in AudioUnits, NEW h \in Histories,
           try_dma(c, f, h), disc' = disc, f.stream = fma.stream,
           h.clean = hist.clean, h.base = hist.base, h.frames = hist.frames, h.last = hist.last
    PROVE  Scans'
<1>1. Payloads /\ TypeInv BY DEF Scans, Payloads
<1>2. TryMoves(c, f) /\ TryHist(c, h) BY <1>1, TryDma
<1>3. fma'.stream = fma.stream BY <1>2 DEF TryMoves, SameUnit
<1>4. PICK drop \in Nat : Moved(m_audio, m_audio', drop) BY <1>2 DEF TryMoves
<1>5. m_audio'.read = m_audio.read - drop /\ m_audio'.bit = m_audio.bit - drop
  BY <1>4 DEF Moved
<1>6. hist'.clean =>
          /\ hist.clean /\ m_audio'.bit >= 0
          /\ hist'.base = hist.base + m_audio.read - m_audio'.read
          /\ hist'.frames = hist.frames /\ hist'.last = hist.last
  BY <1>2 DEF TryHist
<1>7. hist'.clean =>
          /\ hist'.base + m_audio'.read = hist.base + m_audio.read
          /\ hist'.base + m_audio'.bit = hist.base + m_audio.bit
  <2> DEFINE x == hist.base
             r == m_audio.read
             i == m_audio.bit
             r1 == m_audio'.read
             i1 == m_audio'.bit
             x1 == hist'.base
  <2>1. x \in Nat /\ r \in Nat /\ i \in Int BY <1>1, ScanNumbers
  <2>2. r1 = r - drop /\ i1 = i - drop /\ (hist'.clean => x1 = x + r - r1) BY <1>5, <1>6
  <2> HIDE DEF x, r, i, r1, i1, x1
  <2>3. hist'.clean => x1 + r1 = x + r /\ x1 + i1 = x + i BY <2>1, <2>2
  <2> QED BY <2>3 DEF x, r, i, r1, i1, x1
<1> QED BY <1>3, <1>6, <1>7, ScanKept

\* The header of a frame that lies ahead is not passed by a decoder that finds no frame.
LEMMA ScanLoop ==
    ASSUME Scans, Payloads', LoopEnds
    PROVE  Scans'
<1>1. Payloads /\ TypeInv BY DEF Scans, Payloads
<1>2. /\ UNCHANGED <<fma, disc, hist>>
      /\ m_audio'.buffer = m_audio.buffer /\ m_audio'.read = m_audio.read
      /\ \/ m_audio' = m_audio /\ ~RoomForFrame
         \/ RoomForFrame /\ ~HasFrame(m_audio) /\ m_audio' = decode(m_audio)
  BY <1>1, LoopSteps
<1>3. CASE m_audio' = m_audio BY <1>2, <1>3, ScanKept
<1>4. CASE ~HasFrame(m_audio) /\ m_audio' = decode(m_audio) /\ hist.clean
  <2> DEFINE a == m_audio
             b == decode(a)
             n == fma.stream
             base == hist.base
             at == dma.at
             ls == Len(a.buffer)
  <2>1. /\ base + a.read = Expected /\ a.bit >= 0
        /\ hist.frames <= Len(disc.frames[n])
        /\ hist.frames > 0 => hist.last = disc.frames[n][hist.frames]
        /\ \A o \in Headers(disc, n) : o >= Expected => o >= base + a.bit
    BY <1>4 DEF Scans, Scanned
  <2>2. Holds(disc, n, at, base, a.buffer) BY <1>1, <1>4 DEF Payloads, Demuxed, On
  <2>3. /\ disc \in Discs /\ n \in Streams /\ a \in Audios /\ Sound(a) /\ base \in Nat
        /\ at \in Nat /\ a.bit \in Int /\ ls \in Nat
    BY <1>1, ScanNumbers
  <2>4. ~HasFrame(a) /\ m_audio' = b BY <1>4
  <2> HIDE DEF a, b, n, base, at
  <2>5. /\ b.bit >= 0
        /\ b.bit = IF Candidates(a) = {} THEN LastByte(a) ELSE First(Candidates(a))
    BY <2>3, <2>4, DecodedNone DEF b
  <2>6. ASSUME NEW o \in Headers(disc, n), o >= Expected PROVE o >= base + b.bit
    <3>1. o \in Nat /\ o >= base + a.bit BY <2>1, <2>3, <2>6, FramesAre
    <3> DEFINE i == o - base
    <3>2. i \in Nat /\ a.bit <= i /\ base + i = o BY <2>1, <2>3, <3>1
    <3> HIDE DEF i
    <3>3. CASE i + 2 <= ls
      <4>1. i \in Candidates(a)
        BY <2>1, <2>2, <2>3, <2>6, <3>2, <3>3, HeaderIsCandidate DEF ls
      <4>2. b.bit = First(Candidates(a)) /\ First(Candidates(a)) <= i
        BY <2>3, <2>5, <4>1, CandidatesAre
      <4>3. First(Candidates(a)) \in Nat BY <2>3, <4>1, CandidatesAre
      <4> QED BY <2>3, <3>2, <4>2, <4>3
    <3>4. CASE ~(i + 2 <= ls)
      <4>1. CASE Candidates(a) = {}
        <5>1. b.bit = IF ls > 1 THEN ls - 1 ELSE 0 BY <2>5, <4>1 DEF LastByte, ls
        <5> HIDE DEF ls
        <5> QED BY <2>3, <3>2, <3>4, <5>1
      <4>2. CASE Candidates(a) # {}
        <5> DEFINE j == First(Candidates(a))
        <5>1. j \in Nat /\ j + 2 <= ls /\ b.bit = j BY <2>3, <2>5, <4>2, CandidatesAre
        <5> HIDE DEF ls, j
        <5> QED BY <2>3, <3>2, <3>4, <5>1
      <4> QED BY <4>1, <4>2
    <3> QED BY <3>3, <3>4
  <2>7. Expected' = Expected BY <1>2 DEF Expected
  <2>8. Scanned'
    BY <1>2, <2>1, <2>4, <2>5, <2>6, <2>7 DEF Scanned, a, n, base
  <2> QED BY <2>8 DEF Scans
<1>5. CASE ~hist.clean BY <1>2, <1>5 DEF Scans, Scanned
<1> QED BY <1>2, <1>3, <1>4, <1>5

\* A frame that is whole and begins at the first candidate is the next of the stream.
LEMMA NextFrame ==
    ASSUME Scans, hist.clean, HasFrame(m_audio)
    PROVE  /\ hist.frames + 1 <= Len(disc.frames[fma.stream])
           /\ hist.base + Found = disc.frames[fma.stream][hist.frames + 1]
<1> DEFINE a == m_audio
           n == fma.stream
           base == hist.base
           at == dma.at
           ls == Len(a.buffer)
           m == hist.frames
           frames == disc.frames[n]
           l == Len(frames)
           H == Headers(disc, n)
           i == First(Candidates(a))
           read == a.read
           bit == a.bit
           FB == FrameBytes
           whole == Len(disc.payload[n])
<1>1. Payloads BY DEF Scans
<1>2. /\ base + read = Expected /\ bit >= 0 /\ m <= l
      /\ m > 0 => hist.last = frames[m]
      /\ \A o \in H : o >= Expected => o >= base + bit
  BY DEF Scans, Scanned
<1>3. Holds(disc, n, at, base, a.buffer) BY <1>1 DEF Payloads, Demuxed, On
<1>4. /\ disc \in Discs /\ n \in Streams /\ a \in Audios /\ base \in Nat
      /\ at \in Nat /\ bit \in Int /\ read \in Nat /\ ls \in Nat /\ m \in Nat
      /\ read <= bit + 1 /\ hist.last \in Nat /\ Expected \in Nat
  BY <1>1, ScanNumbers
<1>5. Expected = IF m = 0 THEN 0 ELSE hist.last + FB BY DEF Expected
<1>6. Candidates(a) # {} /\ i + FB <= ls BY DEF HasFrame
<1>7. FB \in Nat /\ FB >= HeaderBytes BY Sizes
<1>8. base + ls <= whole /\ whole \in Nat BY <1>3, <1>4, DiscFields DEF Holds
<1>9. /\ l \in Nat /\ H \subseteq Nat
      /\ \A j \in 1..l : frames[j] \in H
      /\ \A j, k \in 1..l : j < k => frames[j] + FB <= frames[k]
      /\ \A o \in H : \/ o + FB > whole
                      \/ \E j \in 1..l : frames[j] <= o /\ o < frames[j] + FB - 1
  BY <1>4, FramesAre
<1> HIDE DEF a, n, base, at, ls, m, frames, l, H, read, bit, FB, whole
<1>10. /\ i \in Candidates(a) /\ i \in Nat /\ bit <= i
       /\ \A j \in Candidates(a) : i <= j
  BY <1>4, <1>6, CandidatesAre DEF bit
<1> HIDE DEF i
<1>11. base + i \in H
  <2>1. i + HeaderBytes <= ls BY <1>4, <1>6, <1>7, <1>10 DEF HeaderBytes
  <2> QED BY <1>3, <1>4, <1>10, <2>1, CandidateIsHeader DEF H, ls
<1>12. ~(base + i + FB > whole) BY <1>4, <1>6, <1>7, <1>8, <1>10
<1>13. PICK j \in 1..l : frames[j] <= base + i /\ base + i < frames[j] + FB - 1
  BY <1>9, <1>11, <1>12
<1>14. \A k \in 1..l : frames[k] \in Nat BY <1>9
<1>15. j > m
  <2> SUFFICES ASSUME j <= m PROVE FALSE BY <1>4
  <2>1. m > 0 /\ m \in 1..l /\ hist.last = frames[m] /\ Expected = frames[m] + FB
    BY <1>2, <1>4, <1>5, <1>9
  <2>2. frames[j] + FB <= Expected
    <3>1. CASE j = m BY <2>1, <3>1, <1>4
    <3>2. CASE j < m
      <4>1. frames[j] + FB <= frames[m] BY <1>9, <2>1, <3>2
      <4> QED BY <1>7, <1>14, <2>1, <4>1
    <3> QED BY <1>4, <3>1, <3>2
  <2>3. base + i >= Expected - 1 BY <1>2, <1>4, <1>10
  <2>4. frames[j] \in Nat BY <1>14
  <2> QED BY <1>4, <1>7, <1>10, <1>13, <2>2, <2>3, <2>4
<1> DEFINE k == m + 1
           g == frames[k]
<1>16. k \in 1..l /\ k <= j /\ g \in H /\ g \in Nat BY <1>4, <1>9, <1>15, <1>14
<1>17. g >= Expected
  <2>1. CASE m = 0 BY <1>5, <1>16, <2>1
  <2>2. CASE m # 0
    <3>1. m \in 1..l /\ m < k /\ Expected = frames[m] + FB BY <1>2, <1>4, <1>5, <1>9, <2>2
    <3>2. frames[m] + FB <= frames[k] BY <1>9, <1>16, <3>1
    <3> QED BY <1>4, <1>16, <3>1, <3>2
  <2> QED BY <2>1, <2>2
<1>18. g >= base + bit BY <1>2, <1>16, <1>17
<1>19. g <= base + i
  <2>1. CASE k = j BY <1>13, <2>1
  <2>2. CASE k < j
    <3>1. frames[k] + FB <= frames[j] BY <1>9, <1>16, <2>2
    <3>2. frames[j] \in Nat /\ frames[k] \in Nat BY <1>14, <1>16
    <3> HIDE DEF k
    <3> QED BY <1>4, <1>7, <1>10, <1>13, <3>1, <3>2
  <2> QED BY <1>16, <2>1, <2>2
<1> DEFINE ig == g - base
<1> HIDE DEF g, k
<1>20. ig \in Nat /\ bit <= ig /\ base + ig = g /\ ig <= i
  BY <1>2, <1>4, <1>10, <1>16, <1>18, <1>19
<1>21. ig + 2 <= ls BY <1>4, <1>6, <1>7, <1>10, <1>20 DEF HeaderBytes
<1> HIDE DEF ig
<1>22. ig \in Candidates(a)
  <2>1. 0 <= a.bit /\ a.bit <= ig /\ ig + 2 <= Len(a.buffer)
    BY <1>2, <1>4, <1>20, <1>21 DEF bit, ls
  <2> QED BY <1>3, <1>4, <1>16, <1>20, <2>1, HeaderIsCandidate DEF H
<1>23. i <= ig BY <1>10, <1>22
<1>24. base + i = g BY <1>4, <1>10, <1>20, <1>23
<1>25. k <= l BY <1>9, <1>16
<1> QED BY <1>24, <1>25 DEF k, g, m, l, frames, base, i, n, a, Found

LEMMA ScanFrame ==
    ASSUME Scans, Payloads', DecodeFrame
    PROVE  Scans'
<1>1. Payloads /\ TypeInv BY DEF Scans, Payloads
<1>2. /\ UNCHANGED disc /\ HasFrame(m_audio) /\ m_audio' = decode(m_audio)
      /\ fma'.stream = fma.stream /\ hist'.clean = hist.clean
      /\ hist.clean => /\ hist'.frames = hist.frames + 1 /\ hist'.base = hist.base + Gone
                       /\ hist'.last = hist.base + Found
  BY <1>1, FrameSteps
<1> SUFFICES ASSUME hist.clean PROVE Scanned' BY <1>2 DEF Scans, Scanned
<1>3. /\ hist.frames + 1 <= Len(disc.frames[fma.stream])
      /\ hist.base + Found = disc.frames[fma.stream][hist.frames + 1]
  BY <1>2, NextFrame
<1> DEFINE a == m_audio
           b == decode(a)
           gone == Len(a.buffer) - Len(b.buffer)
           i == First(Candidates(a))
           base == hist.base
           read1 == b.read
           bit1 == b.bit
           base1 == hist'.base
           last1 == hist'.last
           FB == FrameBytes
           frames1 == hist'.frames
<1>4. /\ i \in Nat /\ gone \in Nat /\ read1 + gone = i + FB /\ bit1 = read1 /\ Sound(b)
  <2>1. Sound(a) /\ HasFrame(a) BY <1>1, <1>2 DEF TypeInv
  <2> HIDE DEF a
  <2> QED BY <2>1, DecodedFrame
<1>5. read1 \in Nat BY <1>4, AudioFields DEF Sound
<1>6. base \in Nat /\ hist.frames \in Nat BY <1>1, ScanNumbers
<1>7. base1 = base + gone /\ last1 = base + i /\ frames1 = hist.frames + 1
  BY <1>2 DEF Gone, Found
<1>8. FB \in Nat BY Sizes
<1>9. Expected' = IF frames1 = 0 THEN 0 ELSE last1 + FB BY DEF Expected
<1>10. m_audio'.read = read1 /\ m_audio'.bit = bit1 BY <1>2
<1> HIDE DEF a, b, gone, i, base, read1, bit1, base1, last1, FB, frames1
<1>11. Expected' = last1 + FB BY <1>6, <1>7, <1>9
<1>12. base1 + read1 = last1 + FB /\ base1 + bit1 = last1 + FB /\ bit1 >= 0
  BY <1>4, <1>5, <1>6, <1>7, <1>8
<1>13. /\ hist'.base + m_audio'.read = Expected' /\ m_audio'.bit >= 0
       /\ hist'.base + m_audio'.bit = Expected'
  BY <1>10, <1>11, <1>12 DEF base1
<1>14. /\ hist'.frames <= Len(disc'.frames[fma'.stream])
       /\ hist'.last = disc'.frames[fma'.stream][hist'.frames]
  BY <1>2, <1>3
<1> QED BY <1>13, <1>14 DEF Scanned

LEMMA ScanSaved ==
    ASSUME Scans, Payloads', SaveAndLoad, ~SavesBehind
    PROVE  Scans'
<1>1. Payloads /\ TypeInv BY DEF Scans, Payloads
<1>2. /\ UNCHANGED <<fma, disc>> /\ m_audio' = Reloaded(m_audio)
      /\ m_audio.bit >= m_audio.read
      /\ hist' = IF hist.clean THEN [hist EXCEPT !.base = @ + m_audio.read] ELSE hist
  BY <1>1, SaveSteps
<1>3. hist \in Histories /\ Sound(m_audio) BY <1>1, ScanNumbers
<1>4. /\ hist'.clean = hist.clean /\ hist'.frames = hist.frames /\ hist'.last = hist.last
      /\ hist.clean => hist'.base = hist.base + m_audio.read
  BY <1>2, <1>3 DEF Histories
<1> DEFINE a == m_audio
           b == Reloaded(a)
<1>5. b.read = 0 /\ b.bit = a.bit - a.read
  <2>1. Sound(a) /\ a.bit >= a.read BY <1>2, <1>3
  <2> HIDE DEF a
  <2> QED BY <2>1, ReloadedIs
<1> DEFINE x == hist.base
           r == m_audio.read
           i == m_audio.bit
           r1 == m_audio'.read
           i1 == m_audio'.bit
           x1 == hist'.base
<1>6. x \in Nat /\ r \in Nat /\ i \in Int /\ i >= r BY <1>1, <1>2, ScanNumbers
<1>7. r1 = 0 /\ i1 = i - r /\ (hist.clean => x1 = x + r) BY <1>2, <1>4, <1>5
<1> HIDE DEF x, r, i, r1, i1, x1
<1>8. hist.clean => x1 + r1 = x + r /\ x1 + i1 = x + i BY <1>6, <1>7
<1>9. i1 >= 0 BY <1>6, <1>7
<1> QED BY <1>2, <1>4, <1>8, <1>9, ScanKept DEF x, r, i, r1, i1, x1

LEMMA InitScan == Init => Scans
<1> SUFFICES ASSUME Init PROVE Scans OBVIOUS
<1>1. Payloads /\ m_audio = audio_reset /\ hist.base = 0 /\ hist.frames = 0
  BY InitPayload DEF Init, HistInit
<1>2. Len(disc.frames[fma.stream]) \in Nat BY <1>1, ScanNumbers, FramesAre
<1>3. Expected = 0 /\ m_audio.read = 0 /\ m_audio.bit = 0 BY <1>1, ResetIsSound DEF Expected
<1> QED BY <1>1, <1>2, <1>3 DEF Scans, Scanned

LEMMA NextScan == ~SavesBehind /\ Scans /\ [Next]_vars => Scans'
<1> SUFFICES ASSUME ~SavesBehind, Scans, [Next]_vars PROVE Scans' OBVIOUS
<1>1. TypeInv /\ Payloads /\ Payloads' BY NextPayload DEF Scans, Payloads
<1>2. hist \in Histories /\ Fits(dma) /\ fma \in AudioUnits BY <1>1 DEF TypeInv, TypeOK
<1>3. ASSUME disc' = disc, fma'.stream = fma.stream, m_audio'.read = m_audio.read,
             m_audio'.bit = m_audio.bit,
             hist'.clean => /\ hist.clean /\ hist'.frames = hist.frames
                            /\ hist'.last = hist.last /\ hist'.base = hist.base
      PROVE  Scans'
  BY <1>3, <1>1, ScanKept
<1>4. CASE Stop
  <2>1. /\ m_audio' = audio_reset
        /\ hist' = IF dma.at = 1 THEN Afresh(hist) ELSE Lost(hist)
    BY <1>1, <1>4, StopSteps
  <2>2. hist'.clean => hist'.base = 0 /\ hist'.frames = 0 BY <1>2, <2>1, LostType
  <2> QED BY <1>1, <2>1, <2>2, ScanFresh
<1>5. CASE DecodeFrame BY <1>1, <1>5, ScanFrame
<1>6. CASE LoopEnds BY <1>1, <1>6, ScanLoop
<1>7. CASE Drained
  <2>1. /\ UNCHANGED <<disc, hist>> /\ fma'.stream = fma.stream
        /\ m_audio'.read = m_audio.read /\ m_audio'.bit = m_audio.bit
    BY <1>1, <1>7, DrainedSteps
  <2> QED BY <1>3, <2>1
<1>8. ASSUME NEW count \in Chunks, NEW into \in Directions, ArmChannel(count, into) PROVE Scans'
  <2>1. /\ UNCHANGED <<m_audio, fma, disc>>
        /\ hist' = IF Untouched THEN Afresh(hist) ELSE hist
    BY <1>1, <1>8, ArmSteps
  <2>2. CASE Untouched
    <3>1. m_audio' = audio_reset BY <2>1, <2>2 DEF Untouched
    <3>2. hist'.base = 0 /\ hist'.frames = 0 BY <1>2, <2>1, <2>2, LostType
    <3> QED BY <1>1, <3>1, <3>2, ScanFresh
  <2>3. CASE ~Untouched BY <1>3, <2>1, <2>3
  <2> QED BY <2>2, <2>3
<1>9. ASSUME NEW transfer \in BOOLEAN, NEW stop \in BOOLEAN, write_fma_cmd(transfer, stop)
      PROVE  Scans'
  <2>1. disc' = disc BY <1>9, CommandSteps
  <2>2. CASE try_dma(Asked(TRUE), [fma EXCEPT !.unf = FALSE], [hist EXCEPT !.overlap = FALSE])
    <3> DEFINE f == [fma EXCEPT !.unf = FALSE]
               h == [hist EXCEPT !.overlap = FALSE]
               c == Asked(TRUE)
    <3>1. Fits(c) /\ f \in AudioUnits /\ h \in Histories BY <1>1, AskedIs
    <3>2. /\ f.stream = fma.stream /\ h.clean = hist.clean /\ h.base = hist.base
          /\ h.frames = hist.frames /\ h.last = hist.last
      BY <1>2 DEF AudioUnits, Histories
    <3>3. try_dma(c, f, h) BY <2>2
    <3> HIDE DEF f, h, c
    <3> QED BY <1>1, <2>1, <3>1, <3>2, <3>3, ScanTry
  <2>3. CASE UNCHANGED <<m_audio, fma, hist>> BY <1>3, <2>1, <2>3
  <2> QED BY <1>9, <2>2, <2>3, CommandSteps
<1>10. CASE write_syscmd
  <2> DEFINE h == [hist EXCEPT !.overlap = TRUE]
             c == Taken0
  <2>1. disc' = disc /\ try_dma(c, fma, h) BY <1>10, VideoSteps
  <2>2. Fits(c) /\ h \in Histories BY <1>1, AskedIs
  <2>3. /\ h.clean = hist.clean /\ h.base = hist.base
        /\ h.frames = hist.frames /\ h.last = hist.last
    BY <1>2 DEF Histories
  <2> HIDE DEF h, c
  <2> QED BY <1>1, <1>2, <2>1, <2>2, <2>3, ScanTry
<1>11. ASSUME NEW number \in Streams, SelectStream(number) PROVE Scans'
  <2>1. /\ m_audio' = m_audio /\ m_audio = audio_reset
        /\ hist' = IF dma.at = 1 THEN Afresh(hist) ELSE Lost(hist)
    BY <1>1, <1>11, SelectSteps
  <2>2. hist'.clean => hist'.base = 0 /\ hist'.frames = 0 BY <1>2, <2>1, LostType
  <2> QED BY <1>1, <2>1, <2>2, ScanFresh
<1>12. CASE dclk_tick
  <2>1. /\ Ticked \in AudioUnits /\ TickedHist \in Histories
        /\ Ticked.stream = fma.stream /\ TickedHist.clean = hist.clean
        /\ TickedHist.base = hist.base /\ TickedHist.frames = hist.frames
        /\ TickedHist.last = hist.last
    BY <1>1, TickIs
  <2>2. disc' = disc BY <1>12, TickSteps
  <2>3. CASE try_dma(dma, Ticked, TickedHist) BY <1>1, <1>2, <2>1, <2>2, <2>3, ScanTry
  <2>4. CASE fma' = Ticked /\ hist' = TickedHist /\ UNCHANGED m_audio
    BY <1>3, <2>1, <2>2, <2>4
  <2> QED BY <1>12, <2>3, <2>4, TickSteps
<1>13. CASE sound_stream_update
  <2>1. /\ UNCHANGED <<m_audio, fma, disc>>
        /\ hist' = IF Plays THEN [hist EXCEPT !.owed = @ - min(Update, @), !.mute = 0]
                   ELSE IF audio_ring_used >= 2
                   THEN [hist EXCEPT !.mute = min(@ + Update, PrimeTimeout + 1)]
                   ELSE hist
    BY <1>1, <1>13, SoundSteps
  <2>2. /\ hist'.clean = hist.clean /\ hist'.base = hist.base
        /\ hist'.frames = hist.frames /\ hist'.last = hist.last
    BY <1>2, <2>1 DEF Histories
  <2> QED BY <1>3, <2>1, <2>2
<1>14. CASE device_reset
  <2>1. m_audio' = audio_reset /\ hist'.base = 0 /\ hist'.frames = 0
    BY <1>14, DeviceSteps DEF HistInit
  <2> QED BY <1>1, <2>1, ScanFresh
<1>15. CASE SaveAndLoad BY <1>1, <1>15, ScanSaved
<1>16. CASE UNCHANGED vars
  <2>1. UNCHANGED <<m_audio, fma, disc, hist>> BY <1>16 DEF vars
  <2> QED BY <1>3, <2>1
<1> QED BY <1>4, <1>5, <1>6, <1>7, <1>8, <1>9, <1>10, <1>11, <1>12, <1>13, <1>14, <1>15, <1>16
        DEF Next, Call, Driver

\* The silence that MuteInv bounds.
LEMMA MuteIsShort ==
    ASSUME RingInv
    PROVE  AudioIsPlayed
<1>1. hist.mute \in Nat /\ out.prime_wait \in Nat /\ PrimeTimeout \in Nat
  BY HistFields, OutFields, Sizes DEF RingInv, TypeInv, TypeOK
<1>2. hist.mute > 0 => hist.mute <= out.prime_wait /\ out.prime_wait < PrimeTimeout
  BY DEF RingInv, MuteInv
<1> QED BY <1>1, <1>2 DEF AudioIsPlayed

-----------------------------------------------------------------------------
(* The theorems. *)

\* Every variable keeps its type: the demultiplexer a state of its machine and a length of 16
\* bits, the decoder's buffer bytes, the ring and its two positions their range, the registers
\* theirs, whatever bytes the disc holds and however the driver cuts them.
THEOREM TypeCorrect == Spec => []TypeOK
<1>1. Init => TypeInv BY InitType
<1>2. TypeInv /\ [Next]_vars => TypeInv' BY NextType
<1>3. TypeInv => TypeOK BY DEF TypeInv
<1> QED BY <1>1, <1>2, <1>3, PTL DEF Spec

\* The ring of decoded samples holds the pairs that are owed to the listener, the left one
\* first: advance_audio() decodes a frame only when all of it fits, and sound_stream_update()
\* takes whole pairs, so no sample is dropped and none changes its channel.
THEOREM RingStaysPaired == Spec => []RingIsPaired
<1>1. Init => RingInv BY InitRing
<1>2. RingInv /\ [Next]_vars => RingInv' BY NextRing
<1>3. RingInv => RingIsPaired BY DEF RingInv
<1> QED BY <1>1, <1>2, <1>3, PTL DEF Spec

\* While there are samples to play, the wait for the cushion ends: sound_stream_update() gives
\* up on it after PrimeTimeout samples of silence.
THEOREM SilenceIsBounded == Spec => []AudioIsPlayed
<1>1. Init => RingInv BY InitRing
<1>2. RingInv /\ [Next]_vars => RingInv' BY NextRing
<1>3. RingInv => AudioIsPlayed BY MuteIsShort
<1> QED BY <1>1, <1>2, <1>3, PTL DEF Spec

\* The underflow bit is set only when nothing has been left to play for DryTicks ticks, less
\* one period of advance_audio(), and a decoder does not go on decoding for longer than
\* DryTicks, and one period, after it ran dry.
THEOREM UnderflowStaysExact == Spec => UnderflowIsExact
<1>1. Init => Clocks BY InitClock
<1>2. Clocks /\ [Next]_vars => Clocks' BY NextClock
<1>3. Clocks /\ [Next]_vars => [fma'.unf /\ ~fma.unf => hist.dry + Div >= DryTicks]_vars
  BY UnderflowAnnounced
<1>4. Clocks => (fma.decoding => hist.dry <= DryTicks + Div) BY DryIsShort
<1> QED BY <1>1, <1>2, <1>3, <1>4, PTL DEF Spec, UnderflowIsExact

\* A tick leaves no request of the audio unit waiting whose channel is armed and points the
\* right way: dclk_tick() retries what try_dma() found with an empty channel.
THEOREM RequestStaysServed == Spec => RequestIsServed
<1>1. Init => Requests BY InitRequest
<1>2. Requests /\ [Next]_vars => Requests' BY NextRequest
<1>3. Requests /\ [Next]_vars =>
         [fma'.dclk # fma.dclk =>
            ~(dma'.fma_bit /\ dma'.count # 0 /\ ~dma'.into /\ ~hist'.overlap)]_vars
  BY NextRequest DEF NoneWaits
<1> QED BY <1>1, <1>2, <1>3, PTL DEF Spec, RequestIsServed

\* What the demultiplexer hands to the decoder is the elementary stream of the selected
\* number, whole and nothing else, for every program stream and wherever the transfers cut it:
\* the demultiplexer is in the state it would be in had it been given the stream in one go, and
\* the buffer loses only what was consumed.
THEOREM PayloadStaysWhole == Spec => []PayloadIsWhole
<1>1. Init => Payloads BY InitPayload
<1>2. Payloads /\ [Next]_vars => Payloads' BY NextPayload
<1>3. Payloads => PayloadIsWhole BY PayloadCounted
<1> QED BY <1>1, <1>2, <1>3, PTL DEF Spec

\* The decoder takes the frames of the stream, each once and in order, when no state is saved
\* while the position of the scan is behind what was consumed: the scan never passes the header
\* of a frame that lies ahead, and a header it finds first is that of the next frame.
THEOREM FramesStayInOrder == ASSUME ~SavesBehind PROVE Spec => []FramesInOrder
<1>1. Init => Scans BY InitScan
<1>2. Scans /\ [Next]_vars => Scans' BY NextScan
<1>3. Scans => FramesInOrder BY DEF Scans, Scanned, FramesInOrder
<1> QED BY <1>1, <1>2, <1>3, PTL DEF Spec
=============================================================================
