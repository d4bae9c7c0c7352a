----------------------------- MODULE Mpeg1Demux -----------------------------
(***************************************************************************)
(* The MPEG-1 program stream demultiplexer of the cartridge                *)
(* (src/src/mame/machine/mpeg1demux.cpp): operators on the state of one    *)
(* mpeg1_demuxer, a byte at a time.  Bytes are numbers, time stamps are    *)
(* assembled from their bits, the packet length has its 16 bits.           *)
(***************************************************************************)
EXTENDS Integers

Byte == 0..255
MaxWord == 65535
Word == 0..MaxWord
\* The 33 bits arrive as five numbers of 3, 8, 7, 8 and 7 bits.
bits(stamp, hi, lo, value) ==
    LET width == 2^(hi - lo + 1)
    IN  stamp - (((stamp \div 2^lo) % width) * 2^lo) + ((value % width) * 2^lo)

\* The states that gather a part of a stamp: which stamp, which bits, whether
\* the byte carries them above its marker bit, whether that bit is required,
\* and the state after.
Part(stamp, hi, lo, above, required, next) ==
    [stamp |-> stamp, hi |-> hi, lo |-> lo, above |-> above, required |-> required, next |-> next]

Parts ==
    [PACK0 |-> Part("scr", 32, 30, TRUE, FALSE, "PACK1"),
     PACK1 |-> Part("scr", 29, 22, FALSE, FALSE, "PACK2"),
     PACK2 |-> Part("scr", 21, 15, TRUE, FALSE, "PACK3"),
     PACK3 |-> Part("scr", 14, 7, FALSE, FALSE, "PACK4"),
     PACK4 |-> Part("scr", 6, 0, TRUE, FALSE, "PACK5"),
     PES4 |-> Part("pts", 29, 22, FALSE, FALSE, "PES5"),
     PES5 |-> Part("pts", 21, 15, TRUE, TRUE, "PES6"),
     PES6 |-> Part("pts", 14, 7, FALSE, FALSE, "PES7"),
     PES7 |-> Part("pts", 6, 0, TRUE, TRUE, "PES8"),
     PES_DTS1 |-> Part("dts", 29, 22, FALSE, FALSE, "PES_DTS2"),
     PES_DTS2 |-> Part("dts", 21, 15, TRUE, TRUE, "PES_DTS3"),
     PES_DTS3 |-> Part("dts", 14, 7, FALSE, FALSE, "PES_DTS4"),
     PES_DTS4 |-> Part("dts", 6, 0, TRUE, TRUE, "PES8")]

DemuxStates ==
    {"IDLE", "MAGIC0", "MAGIC2", "MAGIC_MATCH", "PACK5", "PES0", "PES1", "PES2",
     "PES3", "PES8", "PES_DTS0"} \cup DOMAIN Parts

Demuxers ==
    [m_state : DemuxStates, m_packet_body : BOOLEAN, m_length_decreasing : BOOLEAN,
     m_packet_length : Word, m_dts_present : BOOLEAN,
     temp : [{"scr", "pts", "dts"} -> Int], m_scr : Int, m_pts : Int, m_dts : Int,
     m_pts_updated : BOOLEAN, m_dts_updated : BOOLEAN, m_program_end : BOOLEAN]

\* mpeg1_demuxer::reset().  m_scr_updated has no reader and is left out.
demux_reset ==
    [m_state |-> "IDLE", m_packet_body |-> FALSE, m_length_decreasing |-> FALSE,
     m_packet_length |-> 0, m_dts_present |-> FALSE,
     temp |-> [s \in {"scr", "pts", "dts"} |-> 0], m_scr |-> 0, m_pts |-> 0, m_dts |-> 0,
     m_pts_updated |-> FALSE, m_dts_updated |-> FALSE, m_program_end |-> FALSE]

Go(d, state) == [d EXCEPT !.m_state = state]
PutStamp(d, part, data) ==
    [d EXCEPT !.temp[part.stamp] =
        bits(@, part.hi, part.lo, IF part.above THEN data \div 2 ELSE data)]

\* A part of a stamp; the last one of a packet header starts the body.
GatherPart(d, data) ==
    LET part == Parts[d.m_state]
        put == PutStamp(d, part, data)
    IN  CASE part.required /\ data % 2 = 0 -> Go(d, "IDLE")
          [] ~(part.required /\ data % 2 = 0) /\ d.m_state = "PES7" /\ d.m_dts_present ->
                Go(put, "PES_DTS0")
          [] OTHER -> [Go(put, part.next) EXCEPT
                           !.m_packet_body = @ \/ part.next = "PES8"]

\* The first byte of a stamp, after its two or four tag bits.
FirstPart(d, stamp, data, next) ==
    Go(PutStamp(d, Part(stamp, 32, 30, TRUE, FALSE, next), data), next)

Tag(data) == <<data \div 16, data % 2>>          \* data & 0xf1

\* The optional fields of a packet header.
PacketField(d, data) ==
    CASE Tag(data) = <<2, 1>> ->
            FirstPart([d EXCEPT !.m_dts_present = FALSE], "pts", data, "PES4")
      [] Tag(data) = <<3, 1>> ->
            FirstPart([d EXCEPT !.m_dts_present = TRUE], "pts", data, "PES4")
      [] data = 15 -> [Go(d, "IDLE") EXCEPT !.m_packet_body = TRUE]
      [] data \div 64 = 1 -> Go(d, "PES3")
      [] data = 255 -> Go(d, "PES2")
      [] OTHER -> Go(d, "IDLE")

\* After the prefix 00 00 01.  A stream of the class but another number leaves
\* the machine where it is.
Matched(d, data, class, filter) ==
    CASE data = 186 -> Go(d, "PACK0")
      [] data = 185 -> [Go(d, "IDLE") EXCEPT !.m_program_end = TRUE]
      [] data \div 16 = class -> IF data % 16 = filter THEN Go(d, "PES0") ELSE d
      [] OTHER -> Go(d, "IDLE")

\* A byte ends the body when the length it counts down runs out.
Counted(d) ==
    LET ends == d.m_length_decreasing /\ d.m_packet_length = 1
    IN  [d EXCEPT !.m_length_decreasing = @ /\ ~ends,
                  !.m_packet_body = @ /\ ~ends,
                  !.m_packet_length = IF d.m_length_decreasing THEN ((@ + 65535) % 65536) ELSE @,
                  !.m_pts_updated = FALSE, !.m_dts_updated = FALSE, !.m_program_end = FALSE]

Stepped(d, data, class, filter) ==
    CASE d.m_state = "PACK5" -> [Go(d, "IDLE") EXCEPT !.m_scr = d.temp["scr"]]
      [] d.m_state = "PES8" ->
            [Go(d, "IDLE") EXCEPT
                 !.m_pts = d.temp["pts"], !.m_pts_updated = TRUE,
                 !.m_dts = IF d.m_dts_present THEN d.temp["dts"] ELSE d.temp["pts"],
                 !.m_dts_updated = TRUE]
      [] d.m_state = "PES_DTS0" ->
            IF Tag(data) = <<1, 1>> THEN FirstPart(d, "dts", data, "PES_DTS1") ELSE Go(d, "IDLE")
      [] d.m_state = "PES2" -> PacketField(d, data)
      [] d.m_state = "PES3" -> Go(d, "PES2")
      [] d.m_state = "PES1" ->
            [Go(d, "PES2") EXCEPT !.m_packet_length = ((@ \div 256) * 256) + data,
                                  !.m_length_decreasing = TRUE]
      [] d.m_state = "PES0" -> [Go(d, "PES1") EXCEPT !.m_packet_length = (@ % 256) + data * 256]
      [] d.m_state = "MAGIC_MATCH" -> Matched(d, data, class, filter)
      [] d.m_state = "MAGIC2" ->
            Go(d, CASE data = 1 -> "MAGIC_MATCH" [] data = 0 -> "MAGIC2" [] OTHER -> "IDLE")
      [] d.m_state = "MAGIC0" -> Go(d, IF data = 0 THEN "MAGIC2" ELSE "IDLE")
      [] d.m_state = "IDLE" -> Go(d, IF data = 0 /\ ~d.m_packet_body THEN "MAGIC0" ELSE "IDLE")
      [] OTHER -> GatherPart(d, data)

\* mpeg1_demuxer::feed(): the state after a byte.  The byte is elementary stream
\* data when the packet body was open before it.
feed(d, data, class, filter) == Stepped(Counted(d), data, class, filter)
is_body(d) == d.m_packet_body
=============================================================================
