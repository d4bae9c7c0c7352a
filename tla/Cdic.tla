-------------------------------- MODULE Cdic --------------------------------
(***************************************************************************)
(* The CD interface controller (machine/cdicdic.cpp).  Two 75 Hz timers    *)
(* run beside the driver: the sector timer reads the disc into the two     *)
(* sector banks, the audio timer plays the two audio banks ("audio map").  *)
(* Both raise the one interrupt request of the chip.  The driver sees      *)
(* registers only, and the frontend changes the medium at any moment.      *)
(*                                                                         *)
(* A bank is named by bit 0 of DBUF; the audio bank at 0x2800 is 0, the    *)
(* one at 0x3200 is 1, so XOR with 0x1a00 is Other.  Of a sector the model *)
(* keeps what the code tests; the comparisons with the file and channel    *)
(* registers are fields of the sector (file, chan, achan).                 *)
(***************************************************************************)
EXTENDS Naturals

CONSTANTS
    Media,         \* the discs
    NoDisc,        \* an empty drive
    Commands,      \* the values the driver writes to the command register
    Times,         \* the sectors the time register may name
    Sectors,       \* the kinds of sector on the discs
    AudctlRuns,    \* the values of bit 13 the driver writes to AUDCTL
    Codings,       \* the coding bytes the driver puts into an audio bank
    DiscSize,      \* bound of curr_lba: reading wraps here
    FramesPerSecond, \* 75 in the code
    SpinupTicks    \* 6 in the code

EndOfMap == [end |-> TRUE]     \* the coding byte 0xff
Coding == [bps : {"4", "8", "16", "mpeg"}, rate : {"18k", "37k", "44k", "resv"},
           chan : {"mono", "stereo", "resv", "mpeg"}]
SectorKind == [mode : 0..2, file : BOOLEAN, eof : BOOLEAN, mark : BOOLEAN,
               payload : {"none", "data", "audio"}, form2 : BOOLEAN,
               chan : BOOLEAN, achan : BOOLEAN, coding : Coding]
Lbas == 0..(DiscSize - 1)
CommandSet == {"None", "Reset1", "Reset2", "FetchToc", "PlayCdda", "ReadMode1",
               "ReadMode2", "StopCdda", "Seek", "Update"}
Modes == {"None", "Mode1", "Mode2", "Cdda", "Toc"}

ASSUME CdicConstants ==
    /\ NoDisc \notin Media
    /\ Commands \subseteq CommandSet
    /\ DiscSize \in Nat \ {0} /\ FramesPerSecond \in Nat \ {0}
    /\ SpinupTicks \in Nat
    /\ Times \subseteq Lbas
    /\ Sectors \subseteq SectorKind
    /\ AudctlRuns \subseteq BOOLEAN
    /\ Codings # {} /\ Codings \subseteq Coding \cup {EndOfMap}

VARIABLES
    command,      \* m_command
    time,         \* m_time, as the sector it names
    xbuf,         \* bit 15 of m_x_buffer: a sector was delivered
    abuf,         \* bit 15 of m_audio_buffer: an audio buffer was played
    dbuf,         \* m_data_buffer: bank (bit 0), audio (bit 2), enable (bit 14)
    audctl,       \* bit 13 of m_z_buffer: the audio map may run
    disc_command, \* m_disc_command, "None" when no read is in progress
    disc_mode,    \* m_disc_mode
    spinup,       \* m_disc_spinup_counter
    curr_lba,     \* m_curr_lba
    cd,           \* the medium in the drive
    sector_counter,   \* m_audio_sector_counter: ticks the buffer still plays
    format_sectors,   \* m_audio_format_sectors: length of the playing buffer
    decoding,     \* m_decoding_audio_map
    decode_addr,  \* m_decode_addr: the next audio bank, or NoAddr (0xffff)
    bank_coding,  \* the coding byte each audio bank holds
    intreq_line,  \* the level last given to the interrupt callback
    read_medium,  \* history: the medium when the read in progress began
    bank_seq,     \* history: last bank delivered, and was one ever repeated
    map_seq       \* history: last bank the map played, and was one repeated

regs == <<command, time>>
irq == <<xbuf, abuf, dbuf, audctl, intreq_line>>
drive == <<disc_command, disc_mode, spinup, curr_lba, read_medium>>
map == <<sector_counter, format_sectors, decoding, decode_addr, map_seq>>
vars == <<regs, irq, drive, map, cd, bank_coding, bank_seq>>

NoAddr == 2
NoBank == 2
Other(bank) == 1 - bank
Unseen == [last |-> NoBank, repeated |-> FALSE]

\* A history of banks, after one more bank.
Seen(seq, bank) ==
    [last |-> bank, repeated |-> seq.repeated \/ seq.last = bank]

-----------------------------------------------------------------------------
(* Interrupt request. *)

intreq(x, d, a, z) == (x /\ d.enable) \/ (a /\ z)

\* update_interrupt_state() after the registers took the given values.
update_interrupt_state(x, d, a, z) ==
    /\ xbuf' = x
    /\ dbuf' = d
    /\ abuf' = a
    /\ audctl' = z
    /\ intreq_line' = intreq(x, d, a, z)

-----------------------------------------------------------------------------
(* Sector selection. *)

is_mode2_sector_selected(s) ==
    /\ s.file
    /\ s.eof \/ s.mark \/ (s.payload # "none" /\ s.chan)

is_mode2_audio_selected(s) == s.form2 /\ s.payload = "audio" /\ s.achan

\* How many 75 Hz ticks an audio sector of the given coding plays.
get_sector_count_for_coding(c) ==
    IF c.bps = "mpeg" \/ c.rate = "resv" \/ c.chan \in {"resv", "mpeg"} THEN 0
    ELSE 2 * (IF c.bps = "4" THEN 2 ELSE 1) * (IF c.rate = "18k" THEN 2 ELSE 1)
           * (IF c.chan = "mono" THEN 2 ELSE 1)

-----------------------------------------------------------------------------
(* The drive. *)

cancel_disc_read ==
    /\ disc_command' = "None"
    /\ disc_mode' = "None"
    /\ spinup' = 0
    /\ curr_lba' = 0
    /\ read_medium' = NoDisc

init_disc_read(mode) ==
    /\ disc_command' = command
    /\ disc_mode' = mode
    /\ spinup' = SpinupTicks
    /\ curr_lba' = time
    /\ read_medium' = cd

\* The effect of a strobed command on the drive.
handle_cdic_command ==
    \/ command \in {"Reset1", "Reset2"} /\ disc_command = "None"
       /\ init_disc_read("Mode1")
    \/ command \in {"ReadMode1", "Seek"} /\ init_disc_read("Mode1")
    \/ command = "ReadMode2" /\ init_disc_read("Mode2")
    \/ command = "PlayCdda" /\ init_disc_read("Cdda")
    \/ command = "FetchToc" /\ init_disc_read("Toc")
    \/ command = "StopCdda" /\ cancel_disc_read
    \/ \/ command \in {"None", "Update"}
       \/ command \in {"Reset1", "Reset2"} /\ disc_command # "None"
       /\ UNCHANGED drive

-----------------------------------------------------------------------------
(* The sector timer. *)

\* Audio that comes from the disc takes the playing time over from the map.
PlayFromDisc(ticks) ==
    /\ sector_counter' = ticks
    /\ decoding' = FALSE
    /\ UNCHANGED <<format_sectors, decode_addr, map_seq>>

\* Mutant: the sector is stored and nothing is raised.
process_sector_data_silent(s) ==
    LET bank == Other(dbuf.bank) IN
    /\ update_interrupt_state(xbuf, [dbuf EXCEPT !.bank = bank], abuf, audctl)
    /\ bank_seq' = Seen(bank_seq, bank)
    /\ UNCHANGED bank_coding

\* process_sector_data(): the other bank, its payload in the audio half when
\* the command register says so, and the request.
process_sector_data(s) ==
    LET bank == Other(dbuf.bank)
        to_audio == command = "ReadMode2" /\ is_mode2_audio_selected(s)
        d == [bank |-> bank, audio |-> to_audio, enable |-> TRUE]
    IN  /\ update_interrupt_state(TRUE, d, abuf, audctl)
        /\ bank_coding' = IF to_audio THEN [bank_coding EXCEPT ![bank] = s.coding]
                          ELSE bank_coding
        /\ bank_seq' = Seen(bank_seq, bank)

\* process_disc_sector() and the rest of sector_tick(), for sector s.
process_disc_sector(s) ==
    LET mode2 == disc_mode = "Mode2" /\ s.mode = 2
        selected == mode2 => is_mode2_sector_selected(s)
        audio == mode2 /\ selected /\ is_mode2_audio_selected(s)
        cdda == disc_mode = "Cdda"
        delivered == selected /\ (cdda => curr_lba % FramesPerSecond = 0)
        at_eof == mode2 /\ s.file /\ s.eof
        at_reset == delivered /\ command \in {"Reset1", "Reset2"}
    IN  /\ IF audio THEN PlayFromDisc(get_sector_count_for_coding(s.coding))
           ELSE IF cdda THEN PlayFromDisc(2)
           ELSE UNCHANGED map
        /\ IF delivered THEN process_sector_data(s)
           ELSE UNCHANGED <<irq, bank_coding, bank_seq>>
        /\ IF at_eof \/ at_reset THEN cancel_disc_read
           ELSE /\ curr_lba' = IF curr_lba + 1 = DiscSize THEN 0 ELSE curr_lba + 1
                /\ UNCHANGED <<disc_command, disc_mode, spinup, read_medium>>

SectorTick ==
    /\ disc_command # "None"
    /\ \/ /\ spinup # 0
          /\ spinup' = spinup - 1
          /\ UNCHANGED <<disc_command, disc_mode, curr_lba, read_medium>>
          /\ UNCHANGED <<irq, map, bank_coding, bank_seq>>
       \/ /\ spinup = 0 /\ cd = NoDisc
          /\ cancel_disc_read
          /\ UNCHANGED <<irq, map, bank_coding, bank_seq>>
       \/ /\ spinup = 0 /\ cd # NoDisc
          /\ \E s \in Sectors : process_disc_sector(s)
    /\ UNCHANGED <<regs, cd>>

-----------------------------------------------------------------------------
(* The audio timer. *)

\* The map stops: nothing is queued any more.
StopMap ==
    /\ decode_addr' = NoAddr
    /\ sector_counter' = 0
    /\ format_sectors' = 0
    /\ decoding' = FALSE
    /\ UNCHANGED <<irq, map_seq>>

\* Mutant: the last buffer before an end marker is not reported.
NextBufferUnreported ==
    LET c == bank_coding[decode_addr] IN
    /\ decoding' = TRUE
    /\ IF c # EndOfMap
       THEN /\ decode_addr' = Other(decode_addr)
            /\ format_sectors' = get_sector_count_for_coding(c)
            /\ sector_counter' = get_sector_count_for_coding(c)
            /\ map_seq' = Seen(map_seq, decode_addr)
            /\ IF format_sectors # 0 THEN update_interrupt_state(xbuf, dbuf, TRUE, audctl)
               ELSE UNCHANGED irq
       ELSE /\ decode_addr' = NoAddr
            /\ sector_counter' = 0
            /\ UNCHANGED <<format_sectors, map_seq, irq>>

\* The queued bank is looked at: it plays, or it ends the map; either way the
\* buffer that has just finished is reported.
NextBuffer ==
    LET c == bank_coding[decode_addr]
        was_decoding == format_sectors # 0
    IN  /\ IF c # EndOfMap
           THEN /\ decode_addr' = Other(decode_addr)
                /\ format_sectors' = get_sector_count_for_coding(c)
                /\ sector_counter' = get_sector_count_for_coding(c)
                /\ map_seq' = Seen(map_seq, decode_addr)
           ELSE /\ decode_addr' = NoAddr
                /\ sector_counter' = 0
                /\ UNCHANGED <<format_sectors, map_seq>>
        /\ decoding' = TRUE
        /\ IF was_decoding THEN update_interrupt_state(xbuf, dbuf, TRUE, audctl)
           ELSE UNCHANGED irq

process_audio_map ==
    IF decode_addr = NoAddr \/ ~audctl THEN StopMap ELSE NextBuffer

AudioTick ==
    /\ sector_counter > 0 \/ decoding
    /\ IF sector_counter > 1
       THEN /\ sector_counter' = sector_counter - 1
            /\ UNCHANGED <<format_sectors, decoding, decode_addr, map_seq, irq>>
       ELSE IF decoding THEN process_audio_map
       ELSE /\ sector_counter' = 0
            /\ UNCHANGED <<format_sectors, decoding, decode_addr, map_seq, irq>>
    /\ UNCHANGED <<regs, drive, cd, bank_coding, bank_seq>>

-----------------------------------------------------------------------------
(* The driver. *)

WriteCommand ==
    /\ command' \in Commands
    /\ UNCHANGED <<time, irq, drive, map, cd, bank_coding, bank_seq>>

WriteTime ==
    /\ time' \in Times
    /\ UNCHANGED <<command, irq, drive, map, cd, bank_coding, bank_seq>>

\* A read of ABUF or XBUF clears its flag.
ReadAbuf ==
    /\ update_interrupt_state(xbuf, dbuf, FALSE, audctl)
    /\ UNCHANGED <<regs, drive, map, cd, bank_coding, bank_seq>>

ReadXbuf ==
    /\ update_interrupt_state(FALSE, dbuf, abuf, audctl)
    /\ UNCHANGED <<regs, drive, map, cd, bank_coding, bank_seq>>

\* The same registers written.
WriteFlags ==
    /\ \E flag \in BOOLEAN :
          \/ update_interrupt_state(xbuf, dbuf, flag, audctl)
          \/ update_interrupt_state(flag, dbuf, abuf, audctl)
    /\ UNCHANGED <<regs, drive, map, cd, bank_coding, bank_seq>>

\* The map armed at a bank.
ArmMap(bank) ==
    /\ decode_addr' = bank
    /\ format_sectors' = 0
    /\ sector_counter' = 1
    /\ decoding' = TRUE
    /\ map_seq' = [map_seq EXCEPT !.last = NoBank]

\* Mutants: the line is left alone; the address bits are taken whenever they
\* are written.
WriteAudctlQuiet(run, bank) ==
    /\ IF run /\ ~decoding THEN ArmMap(bank) ELSE UNCHANGED map
    /\ audctl' = run
    /\ UNCHANGED <<xbuf, dbuf, abuf, intreq_line>>
    /\ UNCHANGED <<regs, drive, cd, bank_coding, bank_seq>>

WriteAudctlReseek(run, bank) ==
    /\ IF run /\ ~decoding THEN ArmMap(bank)
       ELSE /\ decode_addr' = bank
            /\ UNCHANGED <<sector_counter, format_sectors, decoding, map_seq>>
    /\ update_interrupt_state(xbuf, dbuf, abuf, run)
    /\ UNCHANGED <<regs, drive, cd, bank_coding, bank_seq>>

\* AUDCTL: bit 13 arms the map when it is not decoding, starting at the bank
\* in the written address bits, and gates the buffer interrupt in any case.
WriteAudctl(run, bank) ==
    /\ IF run /\ ~decoding THEN ArmMap(bank) ELSE UNCHANGED map
    /\ update_interrupt_state(xbuf, dbuf, abuf, run)
    /\ UNCHANGED <<regs, drive, cd, bank_coding, bank_seq>>

\* Mutants: a strobe starts its command whatever bit 14 says; a strobe takes
\* the bank the driver wrote.
WriteDbufUngated(strobe, d) ==
    /\ IF strobe THEN handle_cdic_command
       ELSE IF ~d.enable THEN cancel_disc_read ELSE UNCHANGED drive
    /\ update_interrupt_state(xbuf,
          [d EXCEPT !.bank = IF strobe THEN dbuf.bank ELSE d.bank], abuf, audctl)
    /\ bank_seq' = IF strobe THEN bank_seq ELSE [bank_seq EXCEPT !.last = NoBank]
    /\ UNCHANGED <<regs, map, cd, bank_coding>>

WriteDbufTakesBank(strobe, d) ==
    /\ IF ~d.enable THEN cancel_disc_read
       ELSE IF strobe THEN handle_cdic_command ELSE UNCHANGED drive
    /\ update_interrupt_state(xbuf, d, abuf, audctl)
    /\ bank_seq' = IF strobe THEN bank_seq ELSE [bank_seq EXCEPT !.last = NoBank]
    /\ UNCHANGED <<regs, map, cd, bank_coding>>

\* DBUF: a command strobe (bit 15) keeps the bank; a write that leaves bit 14
\* clear stops the drive.
WriteDbuf(strobe, d) ==
    LET new == [d EXCEPT !.bank = IF strobe THEN dbuf.bank ELSE d.bank] IN
    /\ IF ~d.enable THEN cancel_disc_read
       ELSE IF strobe THEN handle_cdic_command ELSE UNCHANGED drive
    /\ update_interrupt_state(xbuf, new, abuf, audctl)
    /\ bank_seq' = IF strobe THEN bank_seq ELSE [bank_seq EXCEPT !.last = NoBank]
    /\ UNCHANGED <<regs, map, cd, bank_coding>>

\* Samples arrive in an audio bank, by ram_w() or by the DMA of register 3ff8.
FillAudioBank ==
    /\ \E bank \in 0..1, c \in Codings :
          bank_coding' = [bank_coding EXCEPT ![bank] = c]
    /\ UNCHANGED <<regs, irq, drive, map, cd, bank_seq>>

-----------------------------------------------------------------------------
(* The frontend. *)

\* The image device has a new handle, or none, and calls back.
media_changed ==
    /\ cd' \in Media \cup {NoDisc}
    /\ cancel_disc_read
    /\ UNCHANGED <<regs, irq, map, bank_coding, bank_seq>>

device_reset ==
    /\ command' = "None"
    /\ time' = 0
    /\ update_interrupt_state(FALSE, [bank |-> 0, audio |-> FALSE, enable |-> FALSE],
                              FALSE, FALSE)
    /\ cancel_disc_read
    /\ sector_counter' = 0
    /\ format_sectors' = 0
    /\ decoding' = FALSE
    /\ decode_addr' = 0
    /\ bank_seq' = [bank_seq EXCEPT !.last = NoBank]
    /\ map_seq' = [map_seq EXCEPT !.last = NoBank]
    /\ UNCHANGED <<cd, bank_coding>>

-----------------------------------------------------------------------------
Init ==
    /\ command = "None" /\ time = 0
    /\ xbuf = FALSE /\ abuf = FALSE /\ audctl = FALSE
    /\ dbuf = [bank |-> 0, audio |-> FALSE, enable |-> FALSE]
    /\ intreq_line = FALSE
    /\ disc_command = "None" /\ disc_mode = "None"
    /\ spinup = 0 /\ curr_lba = 0 /\ read_medium = NoDisc
    /\ cd \in Media \cup {NoDisc}
    /\ sector_counter = 0 /\ format_sectors = 0
    /\ decoding = FALSE /\ decode_addr = 0
    /\ bank_coding \in [0..1 -> Codings]
    /\ bank_seq = Unseen /\ map_seq = Unseen

Bufs == [bank : 0..1, audio : {FALSE}, enable : BOOLEAN]

Strobe == \E d \in Bufs : WriteDbuf(TRUE, d)
SetDbuf == \E d \in Bufs : WriteDbuf(FALSE, d)
SetAudctl == \E run \in AudctlRuns, bank \in 0..1 : WriteAudctl(run, bank)

Next ==
    \/ SectorTick
    \/ AudioTick
    \/ WriteCommand
    \/ WriteTime
    \/ ReadAbuf
    \/ ReadXbuf
    \/ WriteFlags
    \/ SetAudctl
    \/ Strobe
    \/ SetDbuf
    \/ FillAudioBank
    \/ media_changed
    \/ device_reset

\* Both timers are periodic and never stopped; the driver owes nothing.
Fairness == WF_vars(SectorTick) /\ WF_vars(AudioTick)

Spec == Init /\ [][Next]_vars
FairSpec == Spec /\ Fairness

-----------------------------------------------------------------------------
(* Properties. *)

\* Type invariant of the registers, the drive and the audio map.
TypeOK ==
    /\ command \in CommandSet /\ time \in Lbas
    /\ xbuf \in BOOLEAN /\ abuf \in BOOLEAN /\ audctl \in BOOLEAN
    /\ dbuf \in [bank : 0..1, audio : BOOLEAN, enable : BOOLEAN]
    /\ intreq_line \in BOOLEAN
    /\ disc_command \in CommandSet /\ disc_mode \in Modes
    /\ spinup \in 0..SpinupTicks /\ curr_lba \in Lbas
    /\ read_medium \in Media \cup {NoDisc}
    /\ cd \in Media \cup {NoDisc}
    /\ sector_counter \in Nat /\ format_sectors \in Nat
    /\ decoding \in BOOLEAN /\ decode_addr \in {0, 1, NoAddr}
    /\ bank_coding \in [0..1 -> Coding \cup {EndOfMap}]
    /\ bank_seq \in [last : {0, 1, NoBank}, repeated : BOOLEAN]
    /\ map_seq \in [last : {0, 1, NoBank}, repeated : BOOLEAN]

\* The level last announced to the board is the level the registers define:
\* no handler of either timer or of the driver leaves the request behind the
\* flags and their two enable bits (intreq(), update_interrupt_state()).
RequestAnnounced == intreq_line = intreq(xbuf, dbuf, abuf, audctl)

\* A read is in progress only while the sector interrupt is enabled, in a mode
\* that says how to treat its sectors; an idle drive remembers nothing.  A
\* driver that clears bit 14 of DBUF is therefore never handed a sector late.
DriveMatchesEnable ==
    /\ disc_command # "None" => dbuf.enable /\ disc_mode # "None"
    /\ disc_command = "None" => disc_mode = "None" /\ spinup = 0 /\ curr_lba = 0

\* "The driver remembers the last delivered bank; seeing it twice makes it
\* consume the other bank as a missed sector": until the driver itself writes
\* a bank, no two deliveries in a row use the same one, across commands,
\* filtered sectors, stops at the end of a file and changes of medium.
NoBankRepeated == ~bank_seq.repeated

\* The map alternates between its banks from one arming to the next, even when
\* the driver disables and re-enables AUDCTL while a buffer plays.
NoBufferRepeated == ~map_seq.repeated

\* No read outlives the medium it was started on.
ReadsPresentMedium == disc_command # "None" => read_medium = cd

\* A driver that stops the map loses no samples: decoding ends only when the
\* playing buffer has been played, when the disc takes the output over, or by
\* a reset.
StopWaitsForBuffer ==
    [][decoding /\ ~decoding' =>
          sector_counter <= 1 \/ SectorTick \/ device_reset]_vars

\* A read that selects no sectors (Mode 1, TOC, CD-DA) is answered with a
\* sector or ends, or a read that does select replaces it, once the driver
\* begins no other (a read begins with the drive spinning up).
ReadIsAnswered ==
    <>[][spinup' <= spinup]_vars =>
      ((disc_mode \in {"Mode1", "Toc", "Cdda"})
         ~> (xbuf \/ disc_command = "None" \/ disc_mode = "Mode2"))

\* A buffer that the map plays is reported in ABUF when it ends, the last one
\* before an end marker included, unless the driver stops the map or audio
\* from the disc takes the output over.
BufferIsReported ==
    (decoding /\ format_sectors > 0 /\ decode_addr # NoAddr)
      ~> (abuf \/ ~audctl \/ (~decoding /\ decode_addr # NoAddr))
=============================================================================
