------------------------------- MODULE Slave -------------------------------
(***************************************************************************)
(* The SLAVE microcontroller in its high level emulation                   *)
(* (machine/cdislavehle.cpp): four byte channels to the 68070 that share   *)
(* one interrupt line, one timer that raises it and one command buffer.    *)
(* The firmware learns through channel 3 that a disc was removed or        *)
(* inserted; the frontend changes discs at any moment, also between two    *)
(* bytes of a packet.                                                      *)
(***************************************************************************)
EXTENDS Naturals

CONSTANTS
    Queries,    \* the bytes of channel 3 the driver sends: what it asks for
    Commands2,  \* the bytes of channel 2 the driver sends
    PointerMoves, \* TRUE: the user moves the pointer
    BufSize     \* the bytes the driver lets m_in_buf take, 17 in the code

VARIABLES
    m_channel,   \* the packet in each channel
    timer,       \* m_interrupt_timer: when it will raise the line
    int_line,    \* the level last given to the interrupt callback (IN2)
    in_first,    \* m_in_buf[0], "other" for a byte no command begins with
    in_index,    \* m_in_index
    in_count,    \* m_in_count
    polling,     \* m_polling_active
    atten,       \* history: the attenuation reached the CDIC
    disc,        \* is there a medium in the drive
    view,        \* what the last complete status packet told the firmware
    unseen,      \* history: a removal the firmware was not yet told of
    silenced     \* history: an answer without interrupt stopped the timer

parser == <<in_first, in_index, in_count, polling, atten>>
guest == <<view, unseen>>
vars == <<m_channel, timer, int_line, parser, disc, guest, silenced>>

Channels == 0..3
Unread == {"b0", "b1", "f0", "f3", "f4", "f7"}   \* commands that interrupt
Answers == {"f0", "f3", "f4", "f6"}              \* two byte answers, channel 2
Positions == {"c0", "f0", "f7"}   \* first bytes from 0xc0 up, as told apart later
Empty == [cmd |-> "none", index |-> 0, count |-> 0, present |-> FALSE]

\* A complete packet of n bytes; present is what bytes 2 and 3 say of the disc.
Packet(cmd, n, present) ==
    [cmd |-> cmd, index |-> 0, count |-> n, present |-> present]

\* A packet whose interrupting first byte was not consumed.
IsUnread(p) == p.count > 0 /\ p.index = 0 /\ p.cmd \in Unread
StatusPending == m_channel[3].count > 0 /\ m_channel[3].cmd = "b0"
RemovalPending == StatusPending /\ ~m_channel[3].present

ASSUME SlaveConstants ==
    /\ Queries \subseteq Answers \cup {"b0", "b1", "f7", "other"}
    /\ Commands2 \subseteq {"c0", "f0", "82", "8a", "other"}
    /\ PointerMoves \in BOOLEAN
    /\ BufSize \in Nat \ {0}

-----------------------------------------------------------------------------
(* Answers. *)

\* prepare_readback(): the packet and the one timer are replaced whatever was
\* outstanding; "never" takes the announcement of the other channels with it.
prepare_readback(delay, c, p) ==
    /\ m_channel' = [m_channel EXCEPT ![c] = p]
    /\ timer' = delay
    /\ silenced' = (delay = "never" /\ (timer # "never" \/ silenced))

\* Mutant: a change does not replace a packet.
media_changed_if_idle(present) ==
    IF StatusPending THEN UNCHANGED <<m_channel, timer, silenced>>
    ELSE prepare_readback("now", 3, Packet("b0", 4, present))

\* An insertion leaves a removal that is still to be read alone.
media_changed(present) ==
    IF present /\ RemovalPending THEN UNCHANGED <<m_channel, timer, silenced>>
    ELSE prepare_readback("now", 3, Packet("b0", 4, present))

disc_status ==
    IF StatusPending THEN UNCHANGED <<m_channel, timer, silenced>>
    ELSE prepare_readback("later", 3, Packet("b0", 4, disc))

trigger_readback_int ==
    /\ timer # "never"
    /\ int_line' = TRUE
    /\ timer' = "never"
    /\ UNCHANGED <<m_channel, parser, disc, guest, silenced>>

\* mouse_update(): a pointer packet, once the driver has enabled polling.
mouse_update ==
    /\ PointerMoves
    /\ polling
    /\ prepare_readback("now", 0, Packet("f7", 4, FALSE))
    /\ UNCHANGED <<int_line, parser, disc, guest>>

-----------------------------------------------------------------------------
(* The driver reads a channel. *)

\* An immediate timer expires before the next bus access of the 68070.
BusFree == timer # "now"

\* A packet with its next byte taken.
Consumed(p) ==
    IF p.count = 1 THEN Empty ELSE [p EXCEPT !.index = @ + 1, !.count = @ - 1]

\* Mutant: the other channels are forgotten.
AfterReadAlone(channels) == timer

\* The timer once the channels hold what a read left: packets nobody began
\* are announced again.
AfterRead(channels) ==
    IF \E c \in Channels : IsUnread(channels[c]) THEN "now" ELSE timer

\* slave_r(c).  Without a packet it returns 0xff and changes nothing.
slave_r(c) ==
    LET p == m_channel[c]
        told == p.count = 1 /\ c = 3 /\ p.cmd = "b0"
        read == [m_channel EXCEPT ![c] = Consumed(p)]
    IN  /\ BusFree
        /\ p.count > 0
        /\ int_line' = (int_line /\ ~IsUnread(p))
        /\ IF told /\ ~p.present /\ disc
           THEN /\ m_channel' = [read EXCEPT ![3] = Packet("b0", 4, TRUE)]
                /\ timer' = "later"
           ELSE /\ m_channel' = read
                /\ timer' = AfterRead(read)
        /\ silenced' = (silenced /\ timer' = "never")
        /\ view' = IF told THEN (IF p.present THEN "present" ELSE "absent") ELSE view
        /\ unseen' = (unseen /\ ~(told /\ ~p.present))
        /\ UNCHANGED <<parser, disc>>

-----------------------------------------------------------------------------
(* The driver writes a channel: slave_w(), by offset. *)

in_reset == in_first' = "other" /\ in_index' = 0 /\ in_count' = 0

quiet == <<m_channel, timer, int_line, disc, guest, silenced>>

\* Another byte of a command; ends says whether the last one clears the buffer.
in_byte(ends) ==
    /\ in_index # 0 /\ in_index < BufSize
    /\ IF in_index + 1 = in_count /\ ends THEN in_reset
       ELSE in_index' = in_index + 1 /\ UNCHANGED <<in_first, in_count>>

\* Channel 0: the pointer position, three bytes from 0xc0 up.  A third byte
\* that ends another channel's command leaves the buffer as it is.
slave_w_0 ==
    /\ BusFree
    /\ \/ in_byte(in_first \in Positions \cup Answers)
       \/ in_index = 0 /\ in_first' \in Positions /\ in_index' = 1 /\ in_count' = 3
       \/ in_index = 0 /\ in_first' = "other" /\ UNCHANGED <<in_index, in_count>>
    /\ UNCHANGED <<polling, atten, quiet>>

\* Channel 1 begins no command.
slave_w_1 ==
    /\ BusFree
    /\ in_byte(TRUE) \/ (in_index = 0 /\ in_reset)
    /\ UNCHANGED <<polling, atten, quiet>>

\* Channel 2: no byte is stored here and m_in_index is never advanced.
slave_w_2(byte) ==
    /\ BusFree
    /\ IF in_index > 1
       THEN IF in_index # in_count THEN UNCHANGED <<in_first, in_index, in_count, atten>>
            ELSE CASE in_first = "c0" -> /\ in_index' = 0 /\ in_count' = 0
                                         /\ atten' = TRUE /\ UNCHANGED in_first
                   [] in_first = "f0" -> /\ in_count' = 17
                                         /\ UNCHANGED <<in_first, in_index, atten>>
                   [] OTHER -> in_reset /\ UNCHANGED atten
       ELSE /\ CASE byte \in {"82", "8a"} ->
                   in_index' = 0 /\ in_count' = 0 /\ UNCHANGED in_first
                 [] byte = "c0" -> in_count' = 5 /\ UNCHANGED <<in_first, in_index>>
                 [] byte = "f0" -> in_count' = 17 /\ UNCHANGED <<in_first, in_index>>
                 [] OTHER -> in_reset
            /\ UNCHANGED atten
    /\ UNCHANGED <<polling, quiet>>

\* Channel 3: requests.  Four bytes ask for the disc, one for anything else.
slave_w_3(byte) ==
    /\ BusFree
    /\ \/ /\ in_index # 0
          /\ in_byte(TRUE)
          /\ IF in_index + 1 = in_count /\ in_first = "b0" THEN disc_status
             ELSE UNCHANGED <<m_channel, timer, silenced>>
          /\ UNCHANGED polling
       \/ /\ in_index = 0 /\ byte \in {"b0", "b1"}
          /\ in_first' = byte /\ in_index' = 1 /\ in_count' = 4
          /\ UNCHANGED <<m_channel, timer, silenced, polling>>
       \/ /\ in_index = 0 /\ byte \in Answers
          /\ prepare_readback(IF byte = "f6" THEN "never" ELSE "later", 2,
                              Packet(byte, 2, FALSE))
          /\ in_first' = byte /\ UNCHANGED <<in_index, in_count, polling>>
       \/ /\ in_index = 0 /\ byte = "f7"
          /\ polling' = TRUE
          /\ in_first' = byte
          /\ UNCHANGED <<m_channel, timer, silenced, in_index, in_count>>
       \/ /\ in_index = 0 /\ byte = "other"
          /\ in_reset
          /\ UNCHANGED <<m_channel, timer, silenced, polling>>
    /\ UNCHANGED <<int_line, atten, disc, guest>>

slave_w ==
    \/ slave_w_0
    \/ slave_w_1
    \/ \E byte \in Commands2 : slave_w_2(byte)
    \/ \E byte \in Queries : slave_w_3(byte)

-----------------------------------------------------------------------------
(* The frontend. *)

\* The image device gains or loses its handle and calls media_changed().
Eject ==
    /\ disc
    /\ disc' = FALSE
    /\ media_changed(FALSE)
    /\ unseen' = TRUE
    /\ UNCHANGED <<int_line, parser, view>>

Insert ==
    /\ ~disc
    /\ disc' = TRUE
    /\ media_changed(TRUE)
    /\ UNCHANGED <<int_line, parser, guest>>

\* notify_media_change(), after a state load: the disc is reported as removed
\* and, if there is one, inserted again.
Renew ==
    /\ prepare_readback("now", 3, Packet("b0", 4, FALSE))
    /\ unseen' = TRUE
    /\ UNCHANGED <<int_line, parser, disc, view>>

\* The reset of the whole player: the timer keeps running, the firmware
\* starts over.
device_reset ==
    /\ m_channel' = [c \in Channels |-> Empty]
    /\ in_reset
    /\ polling' = FALSE
    /\ int_line' = FALSE
    /\ view' = "unknown"
    /\ unseen' = FALSE
    /\ UNCHANGED <<timer, atten, disc, silenced>>

-----------------------------------------------------------------------------
Init ==
    /\ m_channel = [c \in Channels |-> Empty]
    /\ timer = "never"
    /\ int_line = FALSE
    /\ in_first = "other" /\ in_index = 0 /\ in_count = 0
    /\ polling = FALSE
    /\ atten = FALSE
    /\ disc \in BOOLEAN
    /\ view = "unknown"
    /\ unseen = FALSE
    /\ silenced = FALSE

Read == \E c \in Channels : slave_r(c)

Next ==
    \/ trigger_readback_int
    \/ mouse_update
    \/ Read
    \/ slave_w
    \/ Eject
    \/ Insert
    \/ Renew
    \/ device_reset

\* The timer expires.  The firmware's handler, entered again and again, gets
\* to channel 3, and finishes a packet it has begun.
Serve == (int_line \/ m_channel[3].index > 0) /\ slave_r(3)
Fairness == WF_vars(trigger_readback_int) /\ SF_vars(Serve)

Spec == Init /\ [][Next]_vars
FairSpec == Spec /\ Fairness

-----------------------------------------------------------------------------
(* Properties. *)

Packets ==
    [cmd : Unread \cup Answers \cup {"none"}, index : 0..3, count : 0..4,
     present : BOOLEAN]

\* Type invariant of the channels, the parser and the histories.
TypeOK ==
    /\ m_channel \in [Channels -> Packets]
    /\ timer \in {"never", "later", "now"}
    /\ int_line \in BOOLEAN
    /\ in_first \in {"other", "c0", "b0", "b1", "f7"} \cup Answers
    /\ in_index \in 0..BufSize /\ in_count \in {0, 3, 4, 5, 17}
    /\ polling \in BOOLEAN /\ atten \in BOOLEAN
    /\ disc \in BOOLEAN
    /\ view \in {"unknown", "present", "absent"}
    /\ unseen \in BOOLEAN
    /\ silenced \in BOOLEAN

\* "All readback channels share the interrupt line": a packet whose first byte
\* nobody read is behind a raised line or a running timer, although reading
\* any one channel lowers the line and any new answer reprograms the timer.
\* The one exception in the code: an answer that does not interrupt (f6).
PendingIsSignalled ==
    (\E c \in Channels : IsUnread(m_channel[c]))
      => int_line \/ timer # "never" \/ silenced

\* "The firmware must see the removal before the new disc, even if no frame
\* ran between the callbacks": whatever is inserted or asked after an eject,
\* the removal stays in channel 3 until the firmware has read all of it.
RemovalIsKept == unseen => RemovalPending

\* A packet is delivered from its first byte to its last: no read finds the
\* index past what the count leaves.
PacketIsWhole ==
    \A c \in Channels :
        LET p == m_channel[c] IN
        p.count > 0 => p.index + p.count = IF p.cmd \in Answers THEN 2 ELSE 4

\* Once discs are left alone, the firmware's idea of the drive becomes the
\* truth, unless an f6 answer has stopped the timer and nothing restarts it.
MediumIsLearnt ==
    <>[][~Eject /\ ~Insert /\ ~Renew /\ ~device_reset]_vars
      => \/ <>[](view = "unknown" \/ view = (IF disc THEN "present" ELSE "absent"))
         \/ []<>silenced
=============================================================================
