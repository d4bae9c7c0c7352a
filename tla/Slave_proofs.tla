---------------------------- MODULE Slave_proofs ----------------------------
(***************************************************************************)
(* Proofs about the SLAVE.  Slave: what its channels owe the 68070, for any *)
(* driver that stays inside the command buffer and any order of disc       *)
(* changes, pointer packets, requests, timer expiries and resets.          *)
(* InputState: the agreement of ports and SLAVE about the button, and the  *)
(* motion of the pointer in both axes, for every range of the ports, every *)
(* screen and every speed of the host's mouse below half the range.        *)
(***************************************************************************)
EXTENDS Slave, InputState, TLAPS

\* What a packet in a channel is, and what the channels and the timer owe.
Whole(p) == p.count > 0 => p.index + p.count = IF p.cmd \in Answers THEN 2 ELSE 4
Delays == {"never", "later", "now"}
ChannelTypes ==
    /\ m_channel \in [Channels -> Packets]
    /\ timer \in Delays /\ silenced \in BOOLEAN /\ int_line \in BOOLEAN
ParserTypes ==
    /\ in_first \in {"other", "c0", "b0", "b1", "f7"} \cup Answers
    /\ in_index \in 0..BufSize /\ in_count \in {0, 3, 4, 5, 17}
    /\ polling \in BOOLEAN /\ atten \in BOOLEAN
GuestTypes ==
    /\ disc \in BOOLEAN
    /\ view \in {"unknown", "present", "absent"}
    /\ unseen \in BOOLEAN
ChannelInv == ChannelTypes /\ PacketIsWhole /\ PendingIsSignalled

IInv == TypeOK /\ PacketIsWhole /\ PendingIsSignalled /\ RemovalIsKept

LEMMA TypesSplit == TypeOK <=> ChannelTypes /\ ParserTypes /\ GuestTypes
  BY DEF TypeOK, ChannelTypes, ParserTypes, GuestTypes, Delays

-----------------------------------------------------------------------------
(* Packets. *)

LEMMA EmptyIsWhole == Empty \in Packets /\ Whole(Empty) /\ ~IsUnread(Empty)
  BY DEF Empty, Packets, Whole, IsUnread

\* The packets the code prepares.
LEMMA StatusPacket ==
    ASSUME NEW present \in BOOLEAN
    PROVE  /\ Packet("b0", 4, present) \in Packets
           /\ Whole(Packet("b0", 4, present))
  BY DEF Packet, Packets, Unread, Answers, Whole

LEMMA PointerPacket ==
    Packet("f7", 4, FALSE) \in Packets /\ Whole(Packet("f7", 4, FALSE))
  BY DEF Packet, Packets, Unread, Answers, Whole

LEMMA AnswerPacket ==
    ASSUME NEW byte \in Answers
    PROVE  /\ Packet(byte, 2, FALSE) \in Packets
           /\ Whole(Packet(byte, 2, FALSE))
           /\ byte = "f6" => ~IsUnread(Packet(byte, 2, FALSE))
  BY DEF Packet, Packets, Unread, Answers, Whole, IsUnread

\* Taking a byte keeps a packet whole.
LEMMA ConsumedIsWhole ==
    ASSUME NEW p \in Packets, Whole(p), p.count > 0
    PROVE  /\ Consumed(p) \in Packets
           /\ Whole(Consumed(p))
           /\ ~IsUnread(Consumed(p))
           /\ p.count # 1 => /\ Consumed(p).count > 0
                             /\ Consumed(p).cmd = p.cmd
                             /\ Consumed(p).present = p.present
  <1>1. CASE p.count = 1
    BY <1>1, EmptyIsWhole DEF Consumed
  <1>2. CASE p.count # 1
    <2>1. p.index \in 0..3 /\ p.count \in 2..4 /\ p.index + p.count <= 4
      BY <1>2 DEF Packets, Whole
    <2>2. p.index + 1 \in 0..3 /\ p.count - 1 \in 0..4
      BY <2>1
    <2>3. Consumed(p) = [p EXCEPT !.index = p.index + 1, !.count = p.count - 1]
      BY <1>2 DEF Consumed
    <2>4. Consumed(p) \in Packets
      BY <2>2, <2>3 DEF Packets
    <2>5. /\ Consumed(p).index = p.index + 1 /\ Consumed(p).count = p.count - 1
          /\ Consumed(p).cmd = p.cmd /\ Consumed(p).present = p.present
      BY <2>3 DEF Packets
    <2>6. QED
      BY <1>2, <2>1, <2>4, <2>5 DEF Whole, IsUnread
  <1>3. QED
    BY <1>1, <1>2

\* An answer put into a channel leaves nothing unannounced, except that an
\* answer that does not interrupt silences the others.
LEMMA Prepared ==
    ASSUME ChannelInv, NEW delay \in Delays, NEW c \in Channels,
           NEW p \in Packets, Whole(p), delay = "never" => ~IsUnread(p),
           prepare_readback(delay, c, p), int_line' = int_line
    PROVE  ChannelInv'
  <1>1. m_channel' = [m_channel EXCEPT ![c] = p] /\ timer' = delay
        /\ silenced' = (delay = "never" /\ (timer # "never" \/ silenced))
    BY DEF prepare_readback
  <1>2. m_channel' \in [Channels -> Packets] /\ silenced' \in BOOLEAN
    BY <1>1 DEF ChannelInv, ChannelTypes
  <1>3. ChannelTypes'
    BY <1>1, <1>2 DEF ChannelInv, ChannelTypes
  <1>4. ASSUME NEW k \in Channels
        PROVE  m_channel'[k] = IF k = c THEN p ELSE m_channel[k]
    BY <1>1, <1>4 DEF ChannelInv, ChannelTypes
  <1>5. PacketIsWhole'
    BY <1>4 DEF ChannelInv, PacketIsWhole, Whole
  <1>6. PendingIsSignalled'
    <2>1. CASE delay # "never"
      BY <1>1, <2>1 DEF PendingIsSignalled
    <2>2. CASE delay = "never"
      <3>1. ASSUME NEW k \in Channels, IsUnread(m_channel'[k])
            PROVE  int_line' \/ silenced'
        <4>1. k # c /\ IsUnread(m_channel[k])
          BY <1>4, <2>2, <3>1
        <4>2. int_line \/ timer # "never" \/ silenced
          BY <4>1 DEF ChannelInv, PendingIsSignalled
        <4>3. QED
          BY <1>1, <2>2, <4>2
      <3>2. QED
        BY <3>1 DEF PendingIsSignalled
    <2>3. QED
      BY <2>1, <2>2
  <1>7. QED
    BY <1>3, <1>5, <1>6 DEF ChannelInv

LEMMA ChannelsKept ==
    ASSUME ChannelInv, UNCHANGED <<m_channel, timer, silenced, int_line>>
    PROVE  ChannelInv'
  BY DEF ChannelInv, ChannelTypes, PacketIsWhole, PendingIsSignalled

LEMMA DiscStatus ==
    ASSUME ChannelInv, disc \in BOOLEAN, disc_status, int_line' = int_line
    PROVE  ChannelInv'
  <1>1. CASE UNCHANGED <<m_channel, timer, silenced>>
    BY <1>1, ChannelsKept
  <1>2. CASE prepare_readback("later", 3, Packet("b0", 4, disc))
    <2>1. "later" \in Delays /\ 3 \in Channels
      BY DEF Delays, Channels
    <2>2. QED
      BY <1>2, <2>1, StatusPacket, Prepared
  <1>3. QED
    BY <1>1, <1>2 DEF disc_status

LEMMA MediaChanged ==
    ASSUME ChannelInv, NEW present \in BOOLEAN, media_changed(present),
           int_line' = int_line
    PROVE  ChannelInv'
  <1>1. CASE UNCHANGED <<m_channel, timer, silenced>>
    BY <1>1, ChannelsKept
  <1>2. CASE prepare_readback("now", 3, Packet("b0", 4, present))
    <2>1. "now" \in Delays /\ 3 \in Channels
      BY DEF Delays, Channels
    <2>2. QED
      BY <1>2, <2>1, StatusPacket, Prepared
  <1>3. QED
    BY <1>1, <1>2 DEF media_changed

-----------------------------------------------------------------------------
(* A read. *)

LEMMA ReadChannel ==
    ASSUME ChannelInv, NEW c \in Channels, slave_r(c)
    PROVE  ChannelInv'
  <1> DEFINE p == m_channel[c]
             read == [m_channel EXCEPT ![c] = Consumed(p)]
  <1>1. p \in Packets /\ Whole(p) /\ p.count > 0
    BY DEF ChannelInv, ChannelTypes, PacketIsWhole, Whole, slave_r
  <1>2. Consumed(p) \in Packets /\ Whole(Consumed(p)) /\ ~IsUnread(Consumed(p))
    BY <1>1, ConsumedIsWhole
  <1>3. read \in [Channels -> Packets] /\ \A k \in Channels : Whole(read[k])
    <2>1. read \in [Channels -> Packets]
      BY <1>2 DEF ChannelInv, ChannelTypes
    <2>2. ASSUME NEW k \in Channels
          PROVE  read[k] = IF k = c THEN Consumed(p) ELSE m_channel[k]
      BY <2>2 DEF ChannelInv, ChannelTypes
    <2>3. QED
      BY <1>2, <2>1, <2>2 DEF ChannelInv, PacketIsWhole, Whole
  <1>4. int_line' \in BOOLEAN /\ silenced' \in BOOLEAN
    BY DEF slave_r, ChannelInv, ChannelTypes
  <1>5. CASE m_channel' = read /\ timer' = AfterRead(read)
    <2>1. PendingIsSignalled'
      BY <1>5 DEF PendingIsSignalled, AfterRead
    <2>2. timer' \in Delays
      BY <1>5 DEF AfterRead, ChannelInv, ChannelTypes, Delays
    <2>3. QED
      BY <1>3, <1>4, <1>5, <2>1, <2>2
         DEF ChannelInv, ChannelTypes, PacketIsWhole, Whole
  <1>6. CASE m_channel' = [read EXCEPT ![3] = Packet("b0", 4, TRUE)]
             /\ timer' = "later"
    <2>1. 3 \in Channels /\ "later" \in Delays
      BY DEF Channels, Delays
    <2>2. Packet("b0", 4, TRUE) \in Packets /\ Whole(Packet("b0", 4, TRUE))
      BY StatusPacket
    <2>3. m_channel' \in [Channels -> Packets]
          /\ \A k \in Channels : Whole(m_channel'[k])
      BY <1>3, <1>6, <2>1, <2>2
    <2>4. QED
      BY <1>4, <1>6, <2>1, <2>3
         DEF ChannelInv, ChannelTypes, PacketIsWhole, PendingIsSignalled, Whole
  <1>7. QED
    BY <1>5, <1>6 DEF slave_r

-----------------------------------------------------------------------------
(* Every step. *)

LEMMA NextChannels ==
    ASSUME IInv, [Next]_vars
    PROVE  ChannelInv'
  <1>0. ChannelInv /\ disc \in BOOLEAN
    BY TypesSplit DEF IInv, ChannelInv, GuestTypes
  <1>1. CASE trigger_readback_int
    BY <1>0, <1>1 DEF trigger_readback_int, ChannelInv, ChannelTypes,
       PacketIsWhole, PendingIsSignalled, Delays
  <1>2. CASE mouse_update
    <2>1. "now" \in Delays /\ 0 \in Channels
      BY DEF Delays, Channels
    <2>2. QED
      BY <1>0, <1>2, <2>1, PointerPacket, Prepared DEF mouse_update
  <1>3. CASE Read
    BY <1>0, <1>3, ReadChannel DEF Read
  <1>4. CASE slave_w
    <2>1. CASE UNCHANGED <<m_channel, timer, silenced, int_line>>
      BY <1>0, <2>1, ChannelsKept
    <2>2. CASE disc_status /\ int_line' = int_line
      BY <1>0, <2>2, DiscStatus
    <2>3. ASSUME NEW byte \in Answers,
                 prepare_readback(IF byte = "f6" THEN "never" ELSE "later", 2,
                                  Packet(byte, 2, FALSE)),
                 int_line' = int_line
          PROVE  ChannelInv'
      <3> DEFINE delay == IF byte = "f6" THEN "never" ELSE "later"
      <3>1. delay \in Delays /\ 2 \in Channels
            /\ (delay = "never" => byte = "f6")
        BY DEF Delays, Channels
      <3>2. prepare_readback(delay, 2, Packet(byte, 2, FALSE))
        BY <2>3
      <3> HIDE DEF delay
      <3>3. QED
        BY <1>0, <2>3, <3>1, <3>2, AnswerPacket, Prepared
    <2>4. CASE slave_w_0 \/ slave_w_1 \/ \E byte \in Commands2 : slave_w_2(byte)
      BY <2>1, <2>4 DEF slave_w_0, slave_w_1, slave_w_2, quiet
    <2>5. CASE \E byte \in Queries : slave_w_3(byte)
      BY <2>1, <2>2, <2>3, <2>5 DEF slave_w_3
    <2>6. QED
      BY <1>4, <2>4, <2>5 DEF slave_w
  <1>5. CASE Eject
    BY <1>0, <1>5, MediaChanged DEF Eject
  <1>6. CASE Insert
    BY <1>0, <1>6, MediaChanged DEF Insert
  <1>7. CASE Renew
    <2>1. "now" \in Delays /\ 3 \in Channels
      BY DEF Delays, Channels
    <2>2. QED
      BY <1>0, <1>7, <2>1, StatusPacket, Prepared DEF Renew
  <1>8. CASE device_reset
    <2>1. \A c \in Channels : m_channel'[c] = Empty
      BY <1>8 DEF device_reset
    <2>2. m_channel' \in [Channels -> Packets]
      BY <1>8, EmptyIsWhole DEF device_reset
    <2>3. PacketIsWhole' /\ PendingIsSignalled'
      BY <2>1, EmptyIsWhole DEF PacketIsWhole, PendingIsSignalled, Whole
    <2>4. QED
      BY <1>0, <1>8, <2>2, <2>3 DEF ChannelInv, ChannelTypes, device_reset
  <1>9. CASE UNCHANGED vars
    BY <1>0, <1>9, ChannelsKept DEF vars
  <1>10. QED
    BY <1>1, <1>2, <1>3, <1>4, <1>5, <1>6, <1>7, <1>8, <1>9 DEF Next

LEMMA NextParser ==
    ASSUME TypeOK, [Next]_vars
    PROVE  ParserTypes'
  <1>0. ParserTypes /\ BufSize \in Nat \ {0}
    BY SlaveConstants, TypesSplit
  <1>1. CASE UNCHANGED parser
    BY <1>0, <1>1 DEF parser, ParserTypes
  <1>2. CASE in_reset /\ polling' \in BOOLEAN /\ atten' \in BOOLEAN
    BY <1>0, <1>2 DEF in_reset, ParserTypes
  <1>3. CASE in_index' = in_index + 1 /\ in_index # 0 /\ in_index < BufSize
             /\ UNCHANGED <<in_first, in_count, polling, atten>>
    BY <1>0, <1>3 DEF ParserTypes
  <1>4. CASE slave_w_0
    <2>1. CASE in_byte(in_first \in Positions \cup Answers)
      BY <1>0, <1>2, <1>3, <1>4, <2>1 DEF in_byte, slave_w_0, ParserTypes
    <2>2. CASE in_index' \in {in_index, 1} /\ in_count' \in {in_count, 3}
               /\ in_first' \in Positions \cup {"other"}
               /\ UNCHANGED <<polling, atten>>
      BY <1>0, <2>2 DEF ParserTypes, Positions, Answers
    <2>3. QED
      BY <1>4, <2>1, <2>2 DEF slave_w_0
  <1>5. CASE slave_w_1
    BY <1>0, <1>2, <1>3, <1>5 DEF slave_w_1, in_byte, ParserTypes
  <1>6. ASSUME NEW byte, slave_w_2(byte)
        PROVE  ParserTypes'
    <2>1. CASE in_index' \in {in_index, 0} /\ in_count' \in {in_count, 0, 5, 17}
               /\ in_first' \in {in_first, "other"} /\ polling' = polling
               /\ atten' \in BOOLEAN
      BY <1>0, <2>1 DEF ParserTypes
    <2>2. QED
      BY <1>0, <1>6, <2>1 DEF slave_w_2, in_reset, ParserTypes
  <1>7. ASSUME NEW byte, slave_w_3(byte)
        PROVE  ParserTypes'
    <2>1. atten' = atten
      BY <1>7 DEF slave_w_3
    <2>2. CASE in_byte(TRUE) /\ polling' = polling
      BY <1>0, <1>2, <1>3, <2>1, <2>2 DEF in_byte, ParserTypes
    <2>3. CASE in_index' \in {in_index, 0, 1} /\ in_count' \in {in_count, 0, 4}
               /\ in_first' \in {"other", "b0", "b1", "f7"} \cup Answers
               /\ polling' \in {polling, TRUE}
      <3>1. in_index' \in 0..BufSize
        BY <1>0, <2>3, SlaveConstants DEF ParserTypes
      <3>2. in_count' \in {0, 3, 4, 5, 17}
        BY <1>0, <2>3 DEF ParserTypes
      <3>3. in_first' \in {"other", "c0", "b0", "b1", "f7"} \cup Answers
        BY <2>3
      <3>4. polling' \in BOOLEAN /\ atten' \in BOOLEAN
        BY <1>0, <2>1, <2>3 DEF ParserTypes
      <3>5. QED
        BY <3>1, <3>2, <3>3, <3>4 DEF ParserTypes
    <2>4. QED
      BY <1>7, <2>2, <2>3 DEF slave_w_3, in_reset
  <1>8. CASE device_reset
    BY <1>0, <1>2, <1>8 DEF device_reset, ParserTypes
  <1>9. CASE trigger_readback_int \/ mouse_update \/ Read \/ Eject \/ Insert
             \/ Renew \/ UNCHANGED vars
    BY <1>1, <1>9 DEF trigger_readback_int, mouse_update, Read, slave_r, Eject,
       Insert, Renew, vars
  <1>10. QED
    BY <1>4, <1>5, <1>6, <1>7, <1>8, <1>9 DEF Next, slave_w

\* The firmware's side, and the removal that waits for it.
LEMMA NextGuest ==
    ASSUME IInv, [Next]_vars
    PROVE  GuestTypes' /\ RemovalIsKept'
  <1>0. GuestTypes /\ m_channel \in [Channels -> Packets] /\ RemovalIsKept
        /\ 3 \in Channels
    BY TypesSplit DEF IInv, ChannelTypes, Channels
  <1>1. CASE UNCHANGED <<disc, guest>> /\ m_channel'[3] = m_channel[3]
    BY <1>0, <1>1 DEF guest, GuestTypes, RemovalIsKept, RemovalPending, StatusPending
  <1>2. CASE Read
    <2>1. PICK c \in Channels : slave_r(c)
      BY <1>2 DEF Read
    <2> DEFINE p == m_channel[c]
               ends == p.count = 1 /\ c = 3 /\ p.cmd = "b0"
    <2>2. /\ view' = IF ends THEN (IF p.present THEN "present" ELSE "absent") ELSE view
          /\ unseen' = (unseen /\ ~(ends /\ ~p.present))
          /\ disc' = disc
          /\ ~ends => m_channel' = [m_channel EXCEPT ![c] = Consumed(p)]
      BY <2>1 DEF slave_r
    <2>3. GuestTypes'
      BY <1>0, <2>2 DEF GuestTypes
    <2>4. RemovalIsKept'
      <3>1. SUFFICES ASSUME unseen'
                     PROVE  RemovalPending'
        BY DEF RemovalIsKept
      <3>2. unseen /\ RemovalPending /\ ~ends
        <4>1. unseen /\ ~(ends /\ ~p.present)
          BY <2>2, <3>1
        <4>2. RemovalPending
          BY <1>0, <4>1 DEF RemovalIsKept
        <4>3. c = 3 => ~p.present
          BY <4>2 DEF RemovalPending
        <4>4. QED
          BY <4>1, <4>2, <4>3
      <3>3. CASE c # 3
        BY <1>0, <2>2, <3>2, <3>3 DEF RemovalPending, StatusPending
      <3>4. CASE c = 3
        <4>1. p \in Packets /\ Whole(p) /\ p.count > 0 /\ p.count # 1
              /\ p.cmd = "b0" /\ ~p.present
          BY <1>0, <3>2, <3>4 DEF RemovalPending, StatusPending, IInv,
             PacketIsWhole, Whole
        <4>2. m_channel'[3] = Consumed(p)
          BY <1>0, <2>2, <3>2, <3>4
        <4>3. Consumed(p).count > 0 /\ Consumed(p).cmd = "b0" /\ ~Consumed(p).present
          BY <4>1, ConsumedIsWhole
        <4>4. QED
          BY <4>2, <4>3 DEF RemovalPending, StatusPending
      <3>5. QED
        BY <3>3, <3>4
    <2>5. QED
      BY <2>3, <2>4
  <1>3. CASE slave_w
    <2>1. UNCHANGED <<disc, guest>>
      BY <1>3 DEF slave_w, slave_w_0, slave_w_1, slave_w_2, slave_w_3, quiet
    <2>2. CASE disc_status
      <3>1. CASE StatusPending
        BY <1>1, <2>1, <2>2, <3>1 DEF disc_status
      <3>2. CASE ~StatusPending
        BY <1>0, <2>1, <3>2 DEF RemovalIsKept, RemovalPending, guest, GuestTypes
      <3>3. QED
        BY <3>1, <3>2
    <2>3. CASE m_channel'[3] = m_channel[3]
      BY <1>1, <2>1, <2>3
    <2>4. ASSUME NEW delay, NEW p, prepare_readback(delay, 2, p)
          PROVE  m_channel'[3] = m_channel[3]
      BY <1>0, <2>4 DEF prepare_readback
    <2>5. QED
      BY <1>3, <2>2, <2>3, <2>4
         DEF slave_w, slave_w_0, slave_w_1, slave_w_2, slave_w_3, quiet
  <1>4. ASSUME NEW delay, prepare_readback(delay, 3, Packet("b0", 4, FALSE)),
               GuestTypes'
        PROVE  GuestTypes' /\ RemovalIsKept'
    <2>1. m_channel'[3] = Packet("b0", 4, FALSE)
      BY <1>0, <1>4 DEF prepare_readback
    <2>2. RemovalPending'
      BY <2>1 DEF RemovalPending, StatusPending, Packet
    <2>3. QED
      BY <1>4, <2>2 DEF RemovalIsKept
  <1>5. CASE Eject \/ Renew
    <2>1. GuestTypes'
      BY <1>0, <1>5 DEF Eject, Renew, GuestTypes
    <2>2. QED
      BY <1>4, <1>5, <2>1 DEF Eject, Renew, media_changed
  <1>6. CASE Insert
    <2>1. GuestTypes' /\ unseen' = unseen
      BY <1>0, <1>6 DEF Insert, guest, GuestTypes
    <2>2. CASE RemovalPending
      <3>1. m_channel' = m_channel
        BY <1>6, <2>2 DEF Insert, media_changed
      <3>2. QED
        BY <2>1, <2>2, <3>1 DEF RemovalIsKept, RemovalPending, StatusPending
    <2>3. CASE ~RemovalPending
      BY <1>0, <2>1, <2>3 DEF RemovalIsKept
    <2>4. QED
      BY <2>2, <2>3
  <1>7. CASE device_reset
    BY <1>0, <1>7 DEF device_reset, GuestTypes, RemovalIsKept
  <1>8. CASE trigger_readback_int \/ UNCHANGED vars
    BY <1>1, <1>8 DEF trigger_readback_int, vars
  <1>9. CASE mouse_update
    <2>1. m_channel'[3] = m_channel[3] /\ UNCHANGED <<disc, guest>>
      BY <1>0, <1>9 DEF mouse_update, prepare_readback
    <2>2. QED
      BY <1>1, <2>1
  <1>10. QED
    BY <1>2, <1>3, <1>5, <1>6, <1>7, <1>8, <1>9 DEF Next

-----------------------------------------------------------------------------
(* The theorems. *)

LEMMA InitIInv == Init => IInv
  <1> SUFFICES ASSUME Init
               PROVE  IInv
    OBVIOUS
  <1>1. m_channel \in [Channels -> Packets]
        /\ \A c \in Channels : m_channel[c] = Empty
    BY EmptyIsWhole DEF Init
  <1>2. ChannelTypes /\ ParserTypes /\ GuestTypes
    <2>1. ChannelTypes
      BY <1>1 DEF Init, ChannelTypes, Delays
    <2>2. ParserTypes
      <3>1. in_first = "other" /\ in_index = 0 /\ in_count = 0
        BY Zenon DEF Init
      <3>2. polling \in BOOLEAN /\ atten \in BOOLEAN
        BY DEF Init
      <3>3. in_index \in 0..BufSize
        BY <3>1, SlaveConstants
      <3>4. QED
        BY <3>1, <3>2, <3>3 DEF ParserTypes
    <2>3. GuestTypes
      BY DEF Init, GuestTypes
    <2>4. QED
      BY <2>1, <2>2, <2>3
  <1>3. PacketIsWhole /\ PendingIsSignalled
    BY <1>1, EmptyIsWhole DEF PacketIsWhole, PendingIsSignalled, Whole
  <1>4. RemovalIsKept
    BY DEF Init, RemovalIsKept
  <1>5. QED
    BY <1>2, <1>3, <1>4, TypesSplit DEF IInv

LEMMA NextIInv == IInv /\ [Next]_vars => IInv'
  <1> SUFFICES ASSUME IInv, [Next]_vars
               PROVE  IInv'
    OBVIOUS
  <1>1. ChannelInv' /\ GuestTypes' /\ RemovalIsKept'
    BY NextChannels, NextGuest
  <1>2. ParserTypes'
    BY NextParser DEF IInv
  <1>3. TypeOK'
    <2>1. (TypeOK <=> ChannelTypes /\ ParserTypes /\ GuestTypes)'
      BY DEF TypeOK, ChannelTypes, ParserTypes, GuestTypes, Delays
    <2>2. QED
      BY <1>1, <1>2, <2>1 DEF ChannelInv
  <1>4. QED
    BY <1>1, <1>3 DEF IInv, ChannelInv

\* The strengthened invariant holds in every reachable state.
THEOREM Inductive == Spec => []IInv
  BY InitIInv, NextIInv, PTL DEF Spec

\* The channels, the parser and the histories keep their types.
THEOREM TypeCorrect == Spec => []TypeOK
  <1>1. IInv => TypeOK
    BY DEF IInv
  <1>2. QED
    BY <1>1, Inductive, PTL

\* No packet the firmware has not begun waits behind a low line and a stopped
\* timer, unless an f6 answer stopped it.
THEOREM SignalCorrect == Spec => []PendingIsSignalled
  <1>1. IInv => PendingIsSignalled
    BY DEF IInv
  <1>2. QED
    BY <1>1, Inductive, PTL

\* A removal stays in channel 3 until the firmware has read all of it.
THEOREM RemovalCorrect == Spec => []RemovalIsKept
  <1>1. IInv => RemovalIsKept
    BY DEF IInv
  <1>2. QED
    BY <1>1, Inductive, PTL

\* Every packet is delivered from its first byte to its last.
THEOREM PacketCorrect == Spec => []PacketIsWhole
  <1>1. IInv => PacketIsWhole
    BY DEF IInv
  <1>2. QED
    BY <1>1, Inductive, PTL

-----------------------------------------------------------------------------
(* InputState: the pointing device, from the ports to the SLAVE. *)

(* Arithmetic modulo the range of a port.                                  *)

\* A number one range or less away from 0 has an obvious remainder.
LEMMA Remainder ==
    ASSUME NEW R \in Nat, R > 0, NEW n \in Int
    PROVE  /\ 0 <= n /\ n < R => n % R = n
           /\ -R <= n /\ n < 0 => n % R = n + R
           /\ R <= n /\ n < 2 * R => n % R = n - R
           /\ n % R \in 0 .. R - 1
OBVIOUS

\* A position that moved by less than half the range, seen from where it was,
\* gives the displacement back, also across the ends of the range.
LEMMA Displacement ==
    ASSUME NEW b \in PortPositions, NEW d \in -MaxDelta..MaxDelta
    PROVE  Signed(Accumulated(b, d) - b) = d
<1> SUFFICES Signed(((b + d) % PortRange) - b) = d
    BY DEF Accumulated
<1> USE InputConstants DEF PortPositions
<1>1. CASE b + d < 0
    <2>1. (b + d) % PortRange = b + d + PortRange
        BY <1>1, Remainder
    <2>2. (d + PortRange) % PortRange = d + PortRange
        BY <1>1, Remainder
    <2> QED BY <1>1, <2>1, <2>2 DEF Signed
<1>2. CASE 0 <= b + d /\ b + d < PortRange
    <2>1. (b + d) % PortRange = b + d
        BY <1>2, Remainder
    <2>2. CASE d < 0
        <3>1. d % PortRange = d + PortRange
            BY <2>2, Remainder
        <3> QED BY <2>1, <2>2, <3>1 DEF Signed
    <2>3. CASE 0 <= d
        <3>1. d % PortRange = d
            BY <2>3, Remainder
        <3> QED BY <2>1, <2>3, <3>1 DEF Signed
    <2> QED BY <2>2, <2>3
<1>3. CASE PortRange <= b + d
    <2>1. (b + d) % PortRange = b + d - PortRange
        BY <1>3, Remainder
    <2>2. (d - PortRange) % PortRange = d
        BY <1>3, Remainder
    <2> QED BY <1>3, <2>1, <2>2 DEF Signed
<1> QED BY <1>1, <1>2, <1>3

\* What a position makes of a move.
LEMMA Accumulates ==
    ASSUME NEW b \in PortPositions, NEW d \in -MaxDelta..MaxDelta
    PROVE  /\ Accumulated(b, d) \in PortPositions
           /\ Signed(b - b) = 0
           /\ Accumulated(b, d) = b => d = 0
           /\ d = 0 => Accumulated(b, d) = b
<1>1. b \in Int /\ b + d \in Int
    BY InputConstants DEF PortPositions
<1>2. Accumulated(b, d) \in PortPositions
    BY <1>1, Remainder, InputConstants DEF Accumulated, PortPositions
<1>3. Signed(b - b) = 0
    <2>1. 0 % PortRange = 0
        BY Remainder, InputConstants
    <2> QED BY <1>1, <2>1, InputConstants DEF Signed
<1>4. d = 0 => Accumulated(b, d) = b
    BY <1>1, Remainder, InputConstants, SMTT(30) DEF Accumulated, PortPositions
<1> QED BY <1>2, <1>3, <1>4, Displacement

-----------------------------------------------------------------------------
(* The callbacks of a frame.                                               *)

Point == [x : PortPositions, y : PortPositions]
Place == [x : 0..Reach, y : 0..Reach]

LEMMA ClampRange ==
    ASSUME NEW n \in Int, NEW last \in Nat
    PROVE  /\ Clamp(n, last) \in 0..last
           /\ n \in 0..last => Clamp(n, last) = n
BY DEF Clamp

LEMMA SignedIsInt ==
    ASSUME NEW n \in Int
    PROVE  Signed(n) \in Int
<1>1. n % PortRange \in Int
    BY InputConstants, Remainder
<1> QED BY <1>1, InputConstants DEF Signed

\* A displacement leaves the pointer on the screen.
LEMMA DisplacedTypes ==
    ASSUME NEW p \in Place, NEW dx \in Int, NEW dy \in Int
    PROVE  Displaced(p, dx, dy) \in Place
<1>1. p.x + dx \in Int /\ p.y + dy \in Int
    BY InputConstants DEF Place
<1>2. /\ Clamp(p.x + dx, Width) \in 0..Width
      /\ Clamp(p.y + dy, Height) \in 0..Height
    <2>1. Width \in Nat /\ Height \in Nat
        BY InputConstants
    <2> QED BY <1>1, <2>1, ClampRange
<1>3. Clamp(p.x + dx, Width) \in 0..Reach /\ Clamp(p.y + dy, Height) \in 0..Reach
    BY <1>2, InputConstants
<1> QED BY <1>3 DEF Displaced, Place

LEMMA MouseTypes == Mouse = [base : Point, device : Place, told : BOOLEAN]
BY DEF Mouse, Point, Place

\* A callback, for any positions of the ports, keeps the types and takes the
\* positions for its baseline.
LEMMA Update ==
    ASSUME NEW m \in Mouse, NEW x \in PortPositions, NEW y \in PortPositions,
           NEW b \in BOOLEAN
    PROVE  /\ pointer_update(m, x, y, b) \in Mouse
           /\ pointer_update(m, x, y, b).base = [x |-> x, y |-> y]
           /\ pointer_update(m, x, y, b).told = b
<1>1. m.base \in Point /\ m.device \in Place
    BY MouseTypes
<1>2. x - m.base.x \in Int /\ y - m.base.y \in Int
    BY <1>1, InputConstants DEF Point, PortPositions
<1>3. Displaced(m.device, Signed(x - m.base.x), Signed(y - m.base.y)) \in Place
    BY <1>1, <1>2, SignedIsInt, DisplacedTypes
<1>4. Displaced(m.device, 0, 0) \in Place
    BY <1>1, DisplacedTypes
<1>5. pointer_update(m, x, y, b).device \in Place
    BY <1>3, <1>4 DEF pointer_update
<1>6. [x |-> x, y |-> y] \in Point
    BY DEF Point
<1> QED BY <1>5, <1>6, MouseTypes DEF pointer_update

\* The SLAVE after the callbacks of the buttons, and after that of MOUSEX.
Pressed(button) ==
    IF button # oldval THEN pointer_update(mouse, port.x, port.y, button) ELSE mouse
Across(x, button) ==
    IF x # port.x THEN pointer_update(Pressed(button), x, port.y, button) ELSE Pressed(button)

LEMMA FrameParts ==
    ASSUME NEW delta, NEW button, frame_update(delta, button)
    PROVE  LET x == Accumulated(port.x, delta.x)
               y == Accumulated(port.y, delta.y)
               called == button # oldval \/ x # port.x \/ y # port.y
           IN /\ port' = [x |-> x, y |-> y, button |-> button] /\ oldval' = button
              /\ mouse' = IF y # port.y THEN pointer_update(Across(x, button), x, y, button)
                          ELSE Across(x, button)
              /\ legacy' = (legacy /\ ~called) /\ fresh' = (fresh /\ ~called)
              /\ saved' = saved
BY DEF frame_update, Across, Pressed

-----------------------------------------------------------------------------
(* The invariant: the types, and, of the running machine as of a save      *)
(* state, what the SLAVE knows of the ports.                               *)

\* A baseline, where there is one, is the position of the ports.
BaseIsPort == ~fresh => mouse.base.x = port.x /\ mouse.base.y = port.y

\* A state that holds the ports of its own past holds one that agreed.
SavedAgrees ==
    \A s \in saved : ~s.legacy => s.mouse.told = s.port.button /\ s.oldval = s.port.button

InputInv == InputTypeOK /\ BaseIsPort /\ ButtonIsTold /\ SavedAgrees

SavedState == [port : Port, oldval : BOOLEAN, mouse : Mouse, legacy : BOOLEAN]

AfterReset ==
    [base |-> [x |-> Unset, y |-> Unset], device |-> [x |-> 0, y |-> 0], told |-> mouse.told]

LEMMA Zero == Unset \in PortPositions /\ 0 \in PortPositions /\ 0 \in 0..Reach
BY InputConstants DEF PortPositions, Unset

LEMMA InitInputInv == InputInit => InputInv
<1> SUFFICES ASSUME InputInit PROVE InputInv
    OBVIOUS
<1>1. port = [x |-> 0, y |-> 0, button |-> FALSE] /\ port \in Port
    BY Zero DEF InputInit, Port
<1>2. mouse \in Mouse /\ mouse.told = FALSE
    BY Zero DEF InputInit, Mouse
<1>3. oldval = FALSE /\ saved = {} /\ legacy = FALSE /\ fresh = TRUE
    BY DEF InputInit
<1>4. InputTypeOK
    BY <1>1, <1>2, <1>3 DEF InputTypeOK
<1> QED BY <1>1, <1>2, <1>3, <1>4 DEF InputInv, BaseIsPort, ButtonIsTold, SavedAgrees

LEMMA FrameInputInv ==
    ASSUME InputInv, NEW delta \in Moves, NEW button \in BOOLEAN, frame_update(delta, button)
    PROVE  InputInv'
<1> DEFINE x == Accumulated(port.x, delta.x)
           y == Accumulated(port.y, delta.y)
           called == button # oldval \/ x # port.x \/ y # port.y
<1>0. port \in Port /\ oldval \in BOOLEAN /\ mouse \in Mouse /\ legacy \in BOOLEAN /\ fresh \in BOOLEAN
    BY DEF InputInv, InputTypeOK
<1>1. /\ port.x \in PortPositions /\ port.y \in PortPositions
      /\ delta.x \in -MaxDelta..MaxDelta /\ delta.y \in -MaxDelta..MaxDelta
    BY <1>0 DEF Port, Moves
<1>2. x \in PortPositions /\ y \in PortPositions
    BY <1>1, Accumulates
<1>3. /\ port' = [x |-> x, y |-> y, button |-> button] /\ oldval' = button
      /\ mouse' = IF y # port.y THEN pointer_update(Across(x, button), x, y, button)
                  ELSE Across(x, button)
      /\ legacy' = (legacy /\ ~called) /\ fresh' = (fresh /\ ~called)
      /\ saved' = saved
    BY FrameParts
<1> HIDE DEF x, y
<1>4. /\ Pressed(button) \in Mouse
      /\ button # oldval => /\ Pressed(button).base = [x |-> port.x, y |-> port.y]
                            /\ Pressed(button).told = button
      /\ button = oldval => Pressed(button) = mouse
    BY <1>0, <1>1, Update DEF Pressed
<1>5. /\ Across(x, button) \in Mouse
      /\ x # port.x => /\ Across(x, button).base = [x |-> x, y |-> port.y]
                       /\ Across(x, button).told = button
      /\ x = port.x => Across(x, button) = Pressed(button)
    BY <1>1, <1>2, <1>4, Update DEF Across
<1>6. /\ mouse' \in Mouse
      /\ y # port.y => mouse'.base = [x |-> x, y |-> y] /\ mouse'.told = button
      /\ y = port.y => mouse' = Across(x, button)
    BY <1>2, <1>3, <1>5, Update
<1>7. called => mouse'.base.x = x /\ mouse'.base.y = y /\ mouse'.told = button
    <2>1. CASE y # port.y
        BY <1>6, <2>1
    <2>2. CASE y = port.y /\ x # port.x
        BY <1>5, <1>6, <2>2
    <2>3. CASE y = port.y /\ x = port.x /\ button # oldval
        BY <1>4, <1>5, <1>6, <2>3
    <2> QED BY <2>1, <2>2, <2>3
<1>8. ~called => mouse' = mouse /\ x = port.x /\ y = port.y /\ button = oldval
    BY <1>4, <1>5, <1>6
<1>9. port'.x = x /\ port'.y = y /\ port'.button = button /\ port' \in Port
    BY <1>2, <1>3 DEF Port
<1>10. InputTypeOK'
    BY <1>0, <1>3, <1>6, <1>9 DEF InputInv, InputTypeOK
<1>11. BaseIsPort' /\ ButtonIsTold'
    <2>1. CASE called
        BY <1>3, <1>7, <1>9, <2>1 DEF BaseIsPort, ButtonIsTold
    <2>2. CASE ~called
        BY <1>3, <1>8, <1>9, <2>2 DEF InputInv, BaseIsPort, ButtonIsTold
    <2> QED BY <2>1, <2>2
<1>12. SavedAgrees'
    BY <1>3 DEF InputInv, SavedAgrees
<1> QED BY <1>10, <1>11, <1>12 DEF InputInv

LEMMA PlaceInputInv == InputInv /\ set_mouse_position => InputInv'
<1> SUFFICES ASSUME InputInv, NEW place \in Place,
                    mouse' = [mouse EXCEPT !.device = place], UNCHANGED <<ports, saved, past>>
             PROVE  InputInv'
    BY DEF set_mouse_position, Place
<1>1. mouse \in [base : Point, device : Place, told : BOOLEAN]
    BY MouseTypes DEF InputInv, InputTypeOK
<1>2. mouse' \in Mouse /\ mouse'.base = mouse.base /\ mouse'.told = mouse.told
    BY <1>1, MouseTypes
<1> QED BY <1>2 DEF ports, past, InputInv, InputTypeOK, BaseIsPort, ButtonIsTold, SavedAgrees

LEMMA ResetInputInv == InputInv /\ pointer_reset => InputInv'
<1> SUFFICES ASSUME InputInv, pointer_reset PROVE InputInv'
    OBVIOUS
<1>1. /\ UNCHANGED <<port, oldval, saved, legacy>> /\ fresh' = TRUE
      /\ mouse' = AfterReset
    BY DEF pointer_reset, ports, AfterReset
<1>2. mouse.told \in BOOLEAN
    BY MouseTypes DEF InputInv, InputTypeOK
<1>3. mouse' \in Mouse /\ mouse'.told = mouse.told
    BY <1>1, <1>2, Zero DEF AfterReset, Mouse
<1> QED BY <1>1, <1>3 DEF InputInv, InputTypeOK, BaseIsPort, ButtonIsTold, SavedAgrees

LEMMA SaveInputInv == InputInv /\ retro_serialize => InputInv'
<1> SUFFICES ASSUME InputInv, retro_serialize PROVE InputInv'
    OBVIOUS
<1> DEFINE s == [port |-> port, oldval |-> oldval, mouse |-> mouse, legacy |-> legacy]
<1>1. UNCHANGED <<port, oldval, mouse, legacy, fresh>> /\ saved' = {s}
    BY DEF retro_serialize, ports, past
<1>2. s \in SavedState
    BY DEF InputInv, InputTypeOK, SavedState
<1>3. InputTypeOK'
    BY <1>1, <1>2 DEF InputInv, InputTypeOK, SavedState
<1>4. ~s.legacy => s.mouse.told = s.port.button /\ s.oldval = s.port.button
    BY DEF InputInv, ButtonIsTold
<1>5. SavedAgrees'
    BY <1>1, <1>4 DEF SavedAgrees
<1> QED BY <1>1, <1>3, <1>5 DEF InputInv, BaseIsPort, ButtonIsTold

\* The SLAVE after a load, at ports p.
LEMMA Rebased ==
    ASSUME NEW s \in SavedState, NEW p \in Port, device_post_load(s, p)
    PROVE  /\ mouse' \in Mouse /\ mouse'.told = s.mouse.told
           /\ mouse'.base.x = p.x /\ mouse'.base.y = p.y
<1>1. s.mouse \in [base : Point, device : Place, told : BOOLEAN]
    BY MouseTypes DEF SavedState
<1>2. [x |-> p.x, y |-> p.y] \in Point
    BY DEF Port, Point
<1>3. mouse' = [s.mouse EXCEPT !.base = [x |-> p.x, y |-> p.y]]
    BY DEF device_post_load
<1> QED BY <1>1, <1>2, <1>3, MouseTypes

LEMMA LoadInputInv == InputInv /\ retro_unserialize => InputInv'
<1> SUFFICES ASSUME InputInv, NEW s \in saved, saved' = saved,
                    LoadWithInput(s) \/ LoadCore(s) \/ RefuseCore(s)
             PROVE  InputInv'
    BY DEF retro_unserialize
<1>1. s \in SavedState
    BY DEF InputInv, InputTypeOK, SavedState
<1>2. s.port \in Port /\ s.oldval \in BOOLEAN /\ s.legacy \in BOOLEAN
    BY <1>1 DEF SavedState
<1>3. SavedAgrees'
    BY DEF InputInv, SavedAgrees
<1>4. CASE LoadWithInput(s)
    <2>1. /\ port' = s.port /\ oldval' = s.oldval /\ device_post_load(s, port')
          /\ legacy' = s.legacy /\ fresh' = FALSE
        BY <1>4 DEF LoadWithInput, read_state
    <2>2. /\ mouse' \in Mouse /\ mouse'.told = s.mouse.told
          /\ mouse'.base.x = port'.x /\ mouse'.base.y = port'.y
        BY <1>1, <1>2, <2>1, Rebased
    <2>3. InputTypeOK'
        BY <1>2, <2>1, <2>2 DEF InputInv, InputTypeOK
    <2>4. BaseIsPort' /\ ButtonIsTold'
        BY <2>1, <2>2 DEF InputInv, SavedAgrees, BaseIsPort, ButtonIsTold
    <2> QED BY <1>3, <2>3, <2>4 DEF InputInv
<1>5. CASE LoadCore(s)
    <2>1. /\ UNCHANGED <<port, oldval>> /\ device_post_load(s, port)
          /\ legacy' = TRUE /\ fresh' = FALSE
        BY <1>5 DEF LoadCore, ports
    <2>2. port \in Port
        BY DEF InputInv, InputTypeOK
    <2>3. mouse' \in Mouse /\ mouse'.base.x = port'.x /\ mouse'.base.y = port'.y
        BY <1>1, <2>1, <2>2, Rebased
    <2>4. InputTypeOK'
        BY <1>2, <2>1, <2>3 DEF InputInv, InputTypeOK
    <2> QED BY <1>3, <2>1, <2>3, <2>4 DEF InputInv, BaseIsPort, ButtonIsTold
<1>6. CASE RefuseCore(s)
    <2>1. UNCHANGED <<port, oldval, mouse, legacy, fresh>>
        BY <1>6 DEF RefuseCore, read_state, past
    <2> QED BY <1>3, <2>1 DEF InputInv, InputTypeOK, BaseIsPort, ButtonIsTold
<1> QED BY <1>4, <1>5, <1>6

LEMMA NextInputInv == InputInv /\ [InputNext]_input_vars => InputInv'
<1> SUFFICES ASSUME InputInv, [InputNext]_input_vars PROVE InputInv'
    OBVIOUS
<1>1. ASSUME NEW delta \in Moves, NEW button \in BOOLEAN, frame_update(delta, button)
      PROVE  InputInv'
    BY <1>1, FrameInputInv
<1>2. CASE set_mouse_position
    BY <1>2, PlaceInputInv
<1>3. CASE pointer_reset
    BY <1>3, ResetInputInv
<1>4. CASE retro_serialize
    BY <1>4, SaveInputInv
<1>5. CASE retro_unserialize
    BY <1>5, LoadInputInv
<1>6. CASE UNCHANGED input_vars
    BY <1>6 DEF input_vars, ports, past, InputInv, InputTypeOK, BaseIsPort, ButtonIsTold, SavedAgrees
<1> QED BY <1>1, <1>2, <1>3, <1>4, <1>5, <1>6 DEF InputNext

LEMMA InputInductive == InputSpec => []InputInv
BY InitInputInv, NextInputInv, PTL DEF InputSpec

-----------------------------------------------------------------------------
(* The properties.                                                         *)

\* Ports, SLAVE and save state keep their types, whatever positions sessions
\* leave behind.
THEOREM InputTypeCorrect == InputSpec => []InputTypeOK
<1>1. InputInv => InputTypeOK
    BY DEF InputInv
<1> QED BY <1>1, InputInductive, PTL

\* No state, loaded, refused or of an older build, parts the SLAVE's button
\* from the ports' without saying so.
THEOREM ButtonCorrect == InputSpec => []ButtonIsTold
<1>1. InputInv => ButtonIsTold
    BY DEF InputInv
<1> QED BY <1>1, InputInductive, PTL

\* A callback that finds a baseline in both axes.
LEMMA Based ==
    ASSUME NEW m \in Mouse, m.base.x # Unset, m.base.y # Unset, NEW x, NEW y, NEW b,
           NEW dx \in Int, NEW dy \in Int,
           Signed(x - m.base.x) = dx, Signed(y - m.base.y) = dy
    PROVE  pointer_update(m, x, y, b).device = Displaced(m.device, dx, dy)
BY DEF pointer_update

\* A frame moves the pointer by what the mouse moved: the button's callback moves
\* it by nothing, that of MOUSEX along the screen, that of MOUSEY the rest.
LEMMA FrameMoves ==
    ASSUME InputInv, NEW delta \in Moves, NEW button \in BOOLEAN,
           frame_update(delta, button), ~fresh, OnScreen, ~MeetsUnset(delta)
    PROVE  mouse'.device = Displaced(mouse.device, delta.x, delta.y)
<1> DEFINE x == Accumulated(port.x, delta.x)
           y == Accumulated(port.y, delta.y)
           d == mouse.device
           across == [x |-> Clamp(d.x + delta.x, Width), y |-> d.y]
<1>0. port \in Port /\ mouse \in Mouse /\ oldval \in BOOLEAN
    BY DEF InputInv, InputTypeOK
<1>1. /\ port.x \in PortPositions /\ port.y \in PortPositions
      /\ delta.x \in -MaxDelta..MaxDelta /\ delta.y \in -MaxDelta..MaxDelta
      /\ delta.x \in Int /\ delta.y \in Int
    BY <1>0, InputConstants DEF Port, Moves
<1>2. mouse.base.x = port.x /\ mouse.base.y = port.y /\ port.x # Unset /\ port.y # Unset
    BY DEF InputInv, BaseIsPort, MeetsUnset
<1>3. d.x \in 0..Width /\ d.y \in 0..Height /\ d \in Place /\ d = [x |-> d.x, y |-> d.y]
    BY <1>0, MouseTypes DEF OnScreen, Place
<1>4. /\ x \in PortPositions /\ y \in PortPositions
      /\ Signed(x - port.x) = delta.x /\ Signed(y - port.y) = delta.y
      /\ Signed(port.x - port.x) = 0 /\ Signed(port.y - port.y) = 0 /\ Signed(x - x) = 0
      /\ x = port.x => delta.x = 0
      /\ y = port.y => delta.y = 0
      /\ delta.y = 0 => y = port.y
    <2>1. 0 \in -MaxDelta..MaxDelta
        BY InputConstants
    <2>2. x \in PortPositions /\ y \in PortPositions
        BY <1>1, Accumulates
    <2>3. Signed(x - x) = 0
        BY <2>1, <2>2, Accumulates
    <2> QED BY <1>1, <2>2, <2>3, Accumulates, Displacement
<1>5. y # port.y => x # Unset
    BY <1>4 DEF MeetsUnset
<1>6. mouse' = IF y # port.y THEN pointer_update(Across(x, button), x, y, button)
               ELSE Across(x, button)
    BY FrameParts
<1> HIDE DEF x, y
<1>7. Clamp(d.x + 0, Width) = d.x /\ Clamp(d.y + 0, Height) = d.y
    <2>1. d.x + 0 = d.x /\ d.y + 0 = d.y /\ d.x \in Int /\ d.y \in Int
        BY <1>3, InputConstants
    <2>2. Width \in Nat /\ Height \in Nat
        BY InputConstants
    <2> QED BY <1>3, <2>1, <2>2, ClampRange
<1>8. /\ Pressed(button) \in Mouse /\ Pressed(button).device = d
      /\ Pressed(button).base.x = port.x /\ Pressed(button).base.y = port.y
    <2>1. CASE button = oldval
        BY <1>0, <1>2, <2>1 DEF Pressed
    <2>2. CASE button # oldval
        <3>1. Pressed(button) = pointer_update(mouse, port.x, port.y, button)
            BY <2>2 DEF Pressed
        <3>2. Pressed(button).device = Displaced(d, 0, 0)
            BY <1>0, <1>2, <1>4, <3>1, Based
        <3>3. Displaced(d, 0, 0) = d
            BY <1>3, <1>7 DEF Displaced
        <3>4. /\ Pressed(button) \in Mouse
              /\ Pressed(button).base = [x |-> port.x, y |-> port.y]
            BY <1>0, <1>1, <3>1, Update
        <3> QED BY <3>2, <3>3, <3>4
    <2> QED BY <2>1, <2>2
<1>9. /\ Across(x, button) \in Mouse /\ Across(x, button).device = across
      /\ Across(x, button).base.x = x /\ Across(x, button).base.y = port.y
    <2>1. CASE x = port.x
        <3>1. Across(x, button) = Pressed(button)
            BY <2>1 DEF Across
        <3>2. across = d
            BY <1>3, <1>4, <1>7, <2>1
        <3> QED BY <1>8, <2>1, <3>1, <3>2
    <2>2. CASE x # port.x
        <3>1. Across(x, button) = pointer_update(Pressed(button), x, port.y, button)
            BY <2>2 DEF Across
        <3>2. Across(x, button).device = Displaced(d, delta.x, 0)
            BY <1>1, <1>2, <1>4, <1>8, <3>1, Based
        <3>3. Displaced(d, delta.x, 0) = across
            BY <1>7 DEF Displaced
        <3>4. /\ Across(x, button) \in Mouse
              /\ Across(x, button).base = [x |-> x, y |-> port.y]
            BY <1>1, <1>4, <1>8, <3>1, Update
        <3> QED BY <3>2, <3>3, <3>4
    <2> QED BY <2>1, <2>2
<1>10. Clamp(across.x + 0, Width) = across.x
    <2>1. Width \in Nat /\ d.x + delta.x \in Int
        BY <1>1, <1>3, InputConstants
    <2>2. Clamp(d.x + delta.x, Width) \in 0..Width
        BY <2>1, ClampRange
    <2>3. across.x \in 0..Width /\ across.x + 0 = across.x /\ across.x \in Int
        BY <2>1, <2>2
    <2> QED BY <2>1, <2>3, ClampRange
<1>11. CASE y = port.y
    BY <1>4, <1>6, <1>7, <1>9, <1>11 DEF Displaced
<1>12. CASE y # port.y
    <2>1. mouse'.device = Displaced(across, 0, delta.y)
        BY <1>1, <1>2, <1>4, <1>5, <1>6, <1>9, <1>12, Based
    <2> QED BY <1>10, <2>1 DEF Displaced
<1> QED BY <1>11, <1>12

\* The pointer follows the host's mouse and nothing else, in both axes.
THEOREM PointerCorrect == InputSpec => PointerFollows
<1>1. ASSUME InputInv, [InputNext]_input_vars, NEW delta \in Moves,
             frame_update(delta, port'.button), ~fresh, OnScreen, ~MeetsUnset(delta)
      PROVE  mouse'.device = Displaced(mouse.device, delta.x, delta.y)
  <2>1. port'.button \in BOOLEAN
      BY <1>1, NextInputInv DEF InputInv, InputTypeOK, Port
  <2> QED BY <1>1, <2>1, FrameMoves
<1>2. InputInv /\ [InputNext]_input_vars =>
        [ \A delta \in Moves :
            frame_update(delta, port'.button) /\ ~fresh /\ OnScreen /\ ~MeetsUnset(delta)
            => mouse'.device = Displaced(mouse.device, delta.x, delta.y) ]_input_vars
    BY <1>1
<1> QED BY <1>2, InputInductive, PTL DEF InputSpec, PointerFollows
=============================================================================
