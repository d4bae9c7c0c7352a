------------------------------- MODULE Mcd212 -------------------------------
(***************************************************************************)
(* The raster of the MCD212 (video/mcd212.cpp): its two timers and the     *)
(* scanline timer of the screen (emu/screen.cpp) over one beam, the guest  *)
(* that writes the registers of one path at any time, and the frontend,    *)
(* which between two fields saves, loads, asks for a reset and decides     *)
(* whether the next field is rendered.                                     *)
(*                                                                         *)
(* The beam stands at the start of a line, in its horizontal blanking      *)
(* (pixel 784) or at its end.  An address of a picture counts lines: every *)
(* line that is drawn takes one.  An address of a DCA counts its blocks of *)
(* 64 bytes.  The plane is on: its coding method is not OFF, and it is not *)
(* always transparent.  The interrupt flags are in Scc68070.               *)
(***************************************************************************)
EXTENDS Naturals

CONSTANTS
    Height,      \* lines of a field: NTSC's under TRUE, PAL's under FALSE
    IcaHeight,   \* the lines of it before the first visible one
    Border,      \* lines that a "standard" PAL field leaves out at each end
    Pictures,    \* addresses of pictures; 0 is no picture
    Lists,       \* addresses of DCAs
    Blocks,      \* blocks of the memory a DCA is read from
    Dca,         \* what each of them does
    None,        \* an instruction that is absent
    Writes       \* bound: register writes of the guest

ASSUME RasterAssumption ==
    /\ Height \in [BOOLEAN -> Nat] /\ IcaHeight \in [BOOLEAN -> Nat] /\ Border \in Nat
    /\ \A standard \in BOOLEAN :
           0 < IcaHeight[standard] /\ IcaHeight[standard] < Height[standard]
ASSUME DcaAssumption ==
    /\ Pictures \subseteq Nat
    /\ Blocks \in Nat \ {0} /\ Lists \subseteq 0 .. Blocks - 1
    /\ \A b \in 0 .. Blocks - 1 : /\ Dca[b].vsr \in Nat \cup {None}
                                  /\ Dca[b].dcp \in Lists \cup {None}

VARIABLES
    dcr,         \* m_dcr: bits DE, FD, ICA and DCA
    st,          \* the ST bit of m_csrw[0]
    vsr, dcp, dca,   \* m_vsr, m_dcp and m_dca
    vsr_pos,     \* m_vsr_pos: the next line is fetched from here
    csrr,        \* m_csrr[0]: bits DA and PA
    ntsc,        \* the geometry of the screen and of m_total_height, m_ica_height
    beam,        \* line and place in it
    timers,      \* where the beam will be when each timer expires
    scanline,    \* the parameter of the scanline timer
    due,         \* timers that have expired and not run
    frontend,    \* retro_run() has returned
    skip,        \* m_skipping_this_frame
    mame_reset,  \* the frontend has asked for a reset
    field,       \* history: see FieldStarts
    writes       \* bound: register writes so far

registers == <<dcr, st, vsr, dcp, dca, csrr>>
raster == <<ntsc, beam, timers, scanline>>
host == <<frontend, skip, mame_reset>>
vars == <<registers, vsr_pos, raster, due, host, field, writes>>

Start(y) == <<y, 0>>
Blank(y) == <<y, 1>>
End(y) == <<y, 2>>

vpos == beam[1]
total_height == Height[ntsc]
ica_height == IcaHeight[ntsc]

-----------------------------------------------------------------------------
(* The picture the guest asked for. *)

\* A line of this geometry that screen_update() leaves to the border.
InBorder(y) ==
    /\ ~dcr.FD /\ st
    /\ y < ica_height + Border \/ y >= total_height - Border

\* process_vsr() moves the pointer on, unless there is no picture.
Fetched(from, y) == IF from = 0 \/ InBorder(y) THEN from ELSE from + 1

\* A block ends where the next begins, unless it reloads its own address.
NextBlock(b) == IF Dca[b].dcp # None THEN Dca[b].dcp ELSE (b + 1) % Blocks

\* A field starts.  The history holds the picture and the list with which it
\* does, its parity, whether it starts in its line 0 with a scanline timer
\* that will meet every visible line of the geometry, and whether the guest
\* has left alone what describes the rest of the field.
FieldStarts(top) ==
    field' = [picture |-> vsr', list |-> dca', parity |-> csrr'.PA,
              whole |-> /\ top /\ timers'["scan"] = Start(scanline')
                        /\ scanline' \in 1 .. IcaHeight[ntsc'],
              steady |-> TRUE]

\* The address of the block that is read in visible line k, counted from 0.
BlockOf[k \in Nat] == IF k = 0 THEN field.list ELSE NextBlock(BlockOf[k - 1])

\* The address from which visible line k is fetched when every line is drawn
\* with what the blocks of the lines above it have set.
AddressOf[k \in Nat] ==
    IF k = 0 THEN field.picture
    ELSE LET above == Fetched(AddressOf[k - 1], ica_height + k - 1)
             reload == Dca[BlockOf[k - 1]].vsr
         IN  IF dcr.DCA /\ reload # None THEN reload ELSE above

-----------------------------------------------------------------------------
(* The timers. *)

Expire(t) == t \in due /\ due' = due \ {t}

\* time_until_pos(): a target the beam stands on is met again in the next field.
adjust(t, pos) == timers' = [timers EXCEPT ![t] = pos]

\* vblank_begin() of the screen, ahead of the other timers of its moment.
vblank_begin ==
    /\ "vblank" \in due
    /\ due' = (due \ {"vblank"}) \cup (IF mame_reset THEN {"reset"} ELSE {})
    /\ mame_reset' = FALSE /\ frontend' = TRUE
    /\ UNCHANGED <<registers, vsr_pos, raster, skip, field, writes>>

\* Lines of NTSC are a little longer: when PAL's line y starts, NTSC's line y - 1
\* ends, and when NTSC's line y starts, PAL's line y has just started.
Rescaled(pos, to) ==
    IF to /\ pos[1] > 0 /\ pos[2] = 0 THEN End(pos[1] - 1) ELSE pos

\* Mutant: the DCA timer stays where the old geometry put it.
configure_only(to) ==
    /\ ntsc' = to
    /\ beam' = Rescaled(beam, to)
    /\ timers' = [timers EXCEPT !["scan"] = Rescaled(@, to), !["ica"] = Start(0)]

\* screen().configure(), which leaves the scanline timer at the moment and
\* with the parameter it has; the DCA timer and the ICA timer are set anew.
configure(to) ==
    /\ ntsc' = to
    /\ beam' = Rescaled(beam, to)
    /\ timers' = [timers EXCEPT !["scan"] = Rescaled(@, to),
                                !["dca"] = Blank(IcaHeight[to]), !["ica"] = Start(0)]

\* process_ica(): an ICA may point the path to another DCA, and to another
\* picture, before it stops.
process_ica ==
    \/ /\ dcr.ICA
       /\ dcp' \in Lists \cup {dcp} /\ vsr' \in Pictures \cup {0, vsr} /\ vsr_pos' = vsr'
    \/ /\ ~dcr.ICA
       /\ vsr_pos' = vsr
       /\ UNCHANGED <<dcp, vsr>>

ica_tick ==
    /\ "scan" \notin due /\ "vblank" \notin due /\ Expire("ica")
    /\ IF dcr.DE /\ dcr.FD # ntsc THEN configure(dcr.FD)
       ELSE adjust("ica", Start(0)) /\ UNCHANGED <<ntsc, beam>>
    /\ csrr' = [csrr EXCEPT !.DA = FALSE]
    /\ process_ica
    /\ dca' = IF dcr.DCA THEN dcp' ELSE dca
    /\ UNCHANGED <<dcr, st, scanline, host, writes>>
    /\ FieldStarts(vpos = 0)

NextDcaTickEarly ==    \* mutant: off by one
    IF vpos = total_height - 1 THEN Blank(ica_height - 1) ELSE Blank(vpos + 1)

NextDcaTick == IF vpos = total_height - 1 THEN Blank(ica_height) ELSE Blank(vpos + 1)

\* process_dca() of the path's block.
process_dca ==
    IF dcr.DCA
    THEN /\ dca' = NextBlock(dca)
         /\ dcp' = IF Dca[dca].dcp # None THEN Dca[dca].dcp ELSE dcp
         /\ IF Dca[dca].vsr # None
            THEN vsr' = Dca[dca].vsr /\ vsr_pos' = Dca[dca].vsr
            ELSE UNCHANGED <<vsr, vsr_pos>>
    ELSE UNCHANGED <<dca, dcp, vsr, vsr_pos>>

dca_tick ==
    /\ Expire("dca")
    /\ process_dca
    /\ adjust("dca", NextDcaTick)
    /\ UNCHANGED <<dcr, st, csrr, ntsc, beam, scanline, host, field, writes>>

\* update_partial() calls screen_update(), which draws the line of the beam.
screen_update ==
    IF ~skip /\ scanline >= ica_height /\ vpos >= ica_height
    THEN vsr_pos' = Fetched(vsr_pos, vpos) ELSE vsr_pos' = vsr_pos

\* Mutant: the status is a side effect of the drawing.
scanline_update_drawn ==
    IF scanline < ica_height \/ skip THEN csrr' = csrr
    ELSE csrr' = [DA |-> TRUE, PA |-> (csrr.PA # (scanline = total_height - 1))]

scanline_update ==
    IF scanline < ica_height THEN csrr' = csrr
    ELSE csrr' = [DA |-> TRUE, PA |-> (csrr.PA # (scanline = total_height - 1))]

\* The scanline timer of the screen.
scan_tick ==
    /\ "vblank" \notin due /\ Expire("scan")
    /\ screen_update
    /\ scanline_update
    /\ scanline' = IF scanline + 1 >= total_height THEN ica_height ELSE scanline + 1
    /\ adjust("scan", Start(scanline'))
    /\ UNCHANGED <<dcr, st, vsr, dcp, dca, ntsc, beam, host, field, writes>>

Off == [DE |-> FALSE, FD |-> FALSE, ICA |-> FALSE, DCA |-> FALSE]
Clear == [DA |-> FALSE, PA |-> FALSE]

\* The soft reset that the frontend asked for, after the timers of its moment.
device_reset ==
    /\ due = {"reset"} /\ due' = {}
    /\ dcr' = Off /\ st' = FALSE /\ csrr' = Clear
    /\ vsr' = 0 /\ vsr_pos' = 0 /\ dcp' = 0 /\ dca' = 0
    /\ timers' = [timers EXCEPT !["dca"] = Blank(ica_height), !["ica"] = Start(ica_height)]
    /\ UNCHANGED <<ntsc, beam, scanline, host, writes>>
    /\ FieldStarts(FALSE)

NextPosition ==
    IF beam[2] < 2 THEN <<vpos, beam[2] + 1>>
    ELSE Start(IF vpos = total_height - 1 THEN 0 ELSE vpos + 1)

\* Time passes to the next place of the beam.
Advance ==
    /\ due = {} /\ ~frontend
    /\ beam' = NextPosition
    /\ due' = {t \in DOMAIN timers : timers[t] = beam'}
              \cup (IF beam' = Start(0) THEN {"vblank"} ELSE {})
    /\ UNCHANGED <<registers, vsr_pos, ntsc, timers, scanline, host, field, writes>>

-----------------------------------------------------------------------------
(* The guest. *)

Registers == [DE : BOOLEAN, FD : BOOLEAN, ICA : BOOLEAN, DCA : BOOLEAN]

Write ==
    /\ due = {} /\ ~frontend
    /\ writes < Writes /\ writes' = writes + 1
    /\ UNCHANGED <<vsr_pos, csrr, dcp, raster, due, host>>

\* Does the rest of the field look as it would have?
Disturbs(yes) == field' = [field EXCEPT !.steady = @ /\ ~yes]

dcr_w ==
    /\ Write
    /\ dcr' \in Registers
    /\ Disturbs(dcr'.FD # dcr.FD \/ dcr'.DCA # dcr.DCA)
    /\ UNCHANGED <<st, vsr, dca>>

csr1_w ==
    /\ Write
    /\ st' = ~st /\ Disturbs(TRUE)
    /\ UNCHANGED <<dcr, vsr, dca>>

\* VSR counts from the next field.
vsr_w ==
    /\ Write
    /\ vsr' \in Pictures \cup {0} /\ Disturbs(FALSE)
    /\ UNCHANGED <<dcr, st, dca>>

dca_w ==
    /\ Write
    /\ dca' \in Lists /\ Disturbs(dcr.DCA)
    /\ UNCHANGED <<dcr, st, vsr>>

-----------------------------------------------------------------------------
(* The frontend, between two fields. *)

Idle == due = {} /\ frontend

\* Mutant: the pointer, which a state does not hold, is left at zero.
device_post_load_blank == vsr_pos' = 0

\* device_post_load(): the pointer, which a state does not hold, is worked out.
device_post_load == vsr_pos' = vsr

\* A state is saved, and this machine or another instance is continued from it.
\* Nothing else of the raster is left out of a state, so that what follows the
\* load of an older one is what would have followed a load at the time.
retro_unserialize ==
    /\ Idle
    /\ device_post_load
    /\ UNCHANGED <<registers, raster, due, host, field, writes>>

retro_reset ==
    /\ Idle /\ ~mame_reset
    /\ mame_reset' = TRUE
    /\ UNCHANGED <<registers, vsr_pos, raster, due, frontend, skip, field, writes>>

\* The frontend says whether it will show the next field.
retro_run ==
    /\ Idle
    /\ skip' \in BOOLEAN /\ frontend' = FALSE
    /\ UNCHANGED <<registers, vsr_pos, raster, due, mame_reset, field, writes>>

-----------------------------------------------------------------------------

\* Power on, after the first reset: the scanline timer starts with the second
\* field, and the screen has the geometry of the board.
Init ==
    /\ ntsc \in BOOLEAN
    /\ dcr = Off /\ st = FALSE /\ csrr = Clear
    /\ vsr = 0 /\ vsr_pos = 0 /\ dcp = 0 /\ dca = 0
    /\ beam = Start(0) /\ scanline = 0
    /\ timers = [dca |-> Blank(ica_height), ica |-> Start(ica_height), scan |-> Start(0)]
    /\ due = {} /\ frontend = TRUE /\ skip = FALSE /\ mame_reset = FALSE
    /\ field = [picture |-> 0, list |-> 0, parity |-> FALSE,
                whole |-> FALSE, steady |-> TRUE]
    /\ writes = 0

Timer == vblank_begin \/ scan_tick \/ ica_tick \/ dca_tick \/ device_reset
Guest == dcr_w \/ csr1_w \/ vsr_w \/ dca_w
Frontend == retro_unserialize \/ retro_reset \/ retro_run

Next == Timer \/ Advance \/ Guest \/ Frontend

Spec == Init /\ [][Next]_vars

-----------------------------------------------------------------------------
(* Properties. *)

Positions == Nat \X (0 .. 2)
Fields == [picture : Nat, list : 0 .. Blocks - 1, parity : BOOLEAN,
           whole : BOOLEAN, steady : BOOLEAN]

\* Registers, beam and timers keep their types.
TypeOK ==
    /\ dcr \in Registers /\ st \in BOOLEAN
    /\ vsr \in Nat /\ vsr_pos \in Nat
    /\ dcp \in 0 .. Blocks - 1 /\ dca \in 0 .. Blocks - 1
    /\ csrr \in [DA : BOOLEAN, PA : BOOLEAN]
    /\ ntsc \in BOOLEAN /\ beam \in Positions
    /\ timers \in [{"ica", "dca", "scan"} -> Positions] /\ scanline \in Nat
    /\ due \subseteq {"vblank", "ica", "dca", "scan", "reset"}
    /\ frontend \in BOOLEAN /\ skip \in BOOLEAN /\ mame_reset \in BOOLEAN
    /\ field \in Fields /\ writes \in Nat

\* Each line that is about to be drawn is fetched from the address that the
\* picture and the DCA the field began with give it: one block has been read
\* for every visible line above it, none early and none late, whatever the
\* geometry was before, however many fields were not rendered, and when the
\* field was continued from a state (ica_tick, dca_tick, screen_update and
\* device_post_load of mcd212.cpp).
LineFollowsProgram ==
    /\ "scan" \in due /\ "vblank" \notin due /\ ~skip
    /\ field.whole /\ field.steady /\ vpos >= ica_height
    => vsr_pos = AddressOf[vpos - ica_height]

\* The guest reads Display Active in the visible lines and in no other, and the
\* frame parity turns once a field, with its last line, also in fields that
\* are not rendered (scanline_update of mcd212.cpp).
StatusFollowsBeam ==
    due = {} /\ ~frontend /\ field.whole =>
        /\ csrr.DA <=> vpos >= ica_height
        /\ csrr.PA # field.parity <=> vpos = total_height - 1

\* Why: in such a field the timers are where the beam will meet them, and a line
\* whose scanline timer has yet to run tells what the line above it told.
ScanIsAhead ==
    field.whole =>
        /\ timers["ica"] = Start(0) /\ timers["scan"] = Start(scanline)
        /\ "vblank" \in due => "ica" \in due
        /\ "ica" \in due => "scan" \notin due
        /\ "ica" \notin due =>
               /\ vpos < total_height
               /\ "scan" \in due => /\ vpos = scanline
                                    /\ csrr.DA <=> vpos > ica_height
                                    /\ csrr.PA = field.parity
               /\ "scan" \notin due =>
                      /\ vpos = total_height - 1 => scanline = ica_height
                      /\ vpos \in ica_height .. total_height - 2 => scanline = vpos + 1
                      /\ vpos < ica_height => scanline \in vpos + 1 .. ica_height
                      /\ csrr.DA <=> vpos >= ica_height
                      /\ csrr.PA # field.parity <=> vpos = total_height - 1

\* What a field shows and what it tells: both of the above.
FieldFollowsGuest == LineFollowsProgram /\ StatusFollowsBeam
=============================================================================
