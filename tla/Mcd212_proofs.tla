--------------------------- MODULE Mcd212_proofs ---------------------------
(***************************************************************************)
(* Proofs about the raster, for fields of any height, any memory of the    *)
(* DCA and any number of writes of the guest.                              *)
(*                                                                         *)
(* The status follows the beam: ScanIsAhead, which says where the scanline *)
(* timer is.  A line follows the program of its field: Followed, which     *)
(* says where the DCA timer is too, and that the list and the picture have *)
(* come as far as the blocks and lines above the beam lead.                *)
(***************************************************************************)
EXTENDS Mcd212, WellFoundedInduction, TLAPS

-----------------------------------------------------------------------------
(* Types. *)

\* A field of either standard has visible lines below blanked ones.
LEMMA Heights ==
    ASSUME NEW standard \in BOOLEAN
    PROVE  /\ Height[standard] \in Nat /\ IcaHeight[standard] \in Nat
           /\ 0 < IcaHeight[standard] /\ IcaHeight[standard] < Height[standard]
BY RasterAssumption

\* The places of a line are places of the beam.
LEMMA Places == ASSUME NEW y \in Nat PROVE {Start(y), Blank(y), End(y)} \subseteq Positions
BY DEF Start, Blank, End, Positions

\* A place stays one when the geometry changes.
LEMMA RescaledTypes ==
    ASSUME NEW pos \in Positions, NEW to PROVE Rescaled(pos, to) \in Positions
<1>1. CASE to /\ pos[1] > 0 /\ pos[2] = 0
  <2>1. pos[1] - 1 \in Nat BY <1>1 DEF Positions
  <2> QED BY <1>1, <2>1, Places DEF Rescaled
<1>2. CASE ~(to /\ pos[1] > 0 /\ pos[2] = 0) BY <1>2 DEF Rescaled
<1> QED BY <1>1, <1>2

\* A block is followed by a block.
LEMMA BlockTypes ==
    ASSUME NEW b \in 0 .. Blocks - 1 PROVE NextBlock(b) \in 0 .. Blocks - 1
<1>1. (b + 1) % Blocks \in 0 .. Blocks - 1 BY DcaAssumption
<1> QED BY <1>1, DcaAssumption DEF NextBlock

\* What a field starts with has the history's type.
LEMMA FieldTypes ==
    ASSUME NEW top \in BOOLEAN, FieldStarts(top), vsr' \in Nat, dca' \in 0 .. Blocks - 1,
           csrr' \in [DA : BOOLEAN, PA : BOOLEAN]
    PROVE  field' \in Fields
<1> DEFINE Whole == /\ top /\ timers'["scan"] = Start(scanline')
                    /\ scanline' \in 1 .. IcaHeight[ntsc']
<1>1. Whole \in BOOLEAN /\ csrr'.PA \in BOOLEAN OBVIOUS
<1>2. field' = [picture |-> vsr', list |-> dca', parity |-> csrr'.PA,
                whole |-> Whole, steady |-> TRUE]
  BY DEF FieldStarts
<1> HIDE DEF Whole
<1> QED BY <1>1, <1>2 DEF Fields

\* Power on.
LEMMA InitTypes == Init => TypeOK
<1> SUFFICES ASSUME Init PROVE TypeOK OBVIOUS
<1>1. dcr \in Registers /\ csrr \in [DA : BOOLEAN, PA : BOOLEAN]
  BY DEF Init, Off, Clear, Registers
<1>2. ntsc \in BOOLEAN /\ ica_height \in Nat BY Heights DEF Init, ica_height
<1>3. 0 \in 0 .. Blocks - 1 BY DcaAssumption
<1>4. beam \in Positions BY Places DEF Init
<1>5. timers \in [{"ica", "dca", "scan"} -> Positions]
  <2>1. timers = [dca |-> Blank(ica_height), ica |-> Start(ica_height), scan |-> Start(0)]
    BY DEF Init
  <2>2. Blank(ica_height) \in Positions /\ Start(ica_height) \in Positions
        /\ Start(0) \in Positions
    BY <1>2, Places
  <2> QED BY <2>1, <2>2
<1>6. field \in Fields BY <1>3 DEF Init, Fields
<1>7. st \in BOOLEAN /\ vsr \in Nat /\ vsr_pos \in Nat /\ scanline \in Nat /\ writes \in Nat
  BY DEF Init
<1>8. dcp \in 0 .. Blocks - 1 /\ dca \in 0 .. Blocks - 1 BY <1>3 DEF Init
<1>9. /\ due \subseteq {"vblank", "ica", "dca", "scan", "reset"}
      /\ frontend \in BOOLEAN /\ skip \in BOOLEAN /\ mame_reset \in BOOLEAN
  BY DEF Init
<1> QED BY <1>1, <1>2, <1>4, <1>5, <1>6, <1>7, <1>8, <1>9, Zenon DEF TypeOK

\* A timer set to a place of the raster keeps the timers' type.
LEMMA AdjustTypes ==
    ASSUME TypeOK, NEW t, NEW pos \in Positions, adjust(t, pos)
    PROVE  timers' \in [{"ica", "dca", "scan"} -> Positions]
BY DEF TypeOK, adjust

\* The ICA timer, with or without a change of geometry.
LEMMA IcaTypes == ASSUME TypeOK, ica_tick PROVE TypeOK'
<1>1. dcr.FD \in BOOLEAN BY DEF TypeOK, Registers
<1>2. ntsc' \in BOOLEAN /\ beam' \in Positions
      /\ timers' \in [{"ica", "dca", "scan"} -> Positions]
  <2>1. CASE dcr.DE /\ dcr.FD # ntsc
    <3>1. configure(dcr.FD) BY <2>1 DEF ica_tick
    <3>2. /\ Rescaled(beam, dcr.FD) \in Positions
          /\ Rescaled(timers["scan"], dcr.FD) \in Positions
      BY RescaledTypes DEF TypeOK
    <3>3. Blank(IcaHeight[dcr.FD]) \in Positions /\ Start(0) \in Positions
      BY <1>1, Heights, Places
    <3>4. timers \in [{"ica", "dca", "scan"} -> Positions] BY DEF TypeOK
    <3>5. timers' = [timers EXCEPT !["scan"] = Rescaled(@, dcr.FD),
                                   !["dca"] = Blank(IcaHeight[dcr.FD]), !["ica"] = Start(0)]
      BY <3>1 DEF configure
    <3>6. timers' \in [{"ica", "dca", "scan"} -> Positions] BY <3>2, <3>3, <3>4, <3>5
    <3> QED BY <1>1, <3>1, <3>2, <3>6 DEF configure
  <2>2. CASE ~(dcr.DE /\ dcr.FD # ntsc)
    BY <2>2, AdjustTypes, Places DEF ica_tick, TypeOK
  <2> QED BY <2>1, <2>2
<1>3. csrr' \in [DA : BOOLEAN, PA : BOOLEAN] BY DEF ica_tick, TypeOK
<1>4. dcp' \in 0 .. Blocks - 1 /\ vsr' \in Nat /\ vsr_pos' \in Nat
  BY DcaAssumption DEF ica_tick, process_ica, TypeOK
<1>5. dca' \in 0 .. Blocks - 1 BY <1>4 DEF ica_tick, TypeOK
<1>6. field' \in Fields
  <2>1. (vpos = 0) \in BOOLEAN OBVIOUS
  <2>2. FieldStarts(vpos = 0) BY DEF ica_tick
  <2> QED BY <1>3, <1>4, <1>5, <2>1, <2>2, FieldTypes
<1>7. due' \subseteq {"vblank", "ica", "dca", "scan", "reset"} BY DEF ica_tick, Expire, TypeOK
<1> QED BY <1>2, <1>3, <1>4, <1>5, <1>6, <1>7, Zenon DEF ica_tick, host, TypeOK

\* The DCA timer.
LEMMA DcaTypes == ASSUME TypeOK, dca_tick PROVE TypeOK'
<1>1. vpos \in Nat BY DEF TypeOK, Positions, vpos
<1>2. NextDcaTick \in Positions
  BY <1>1, Heights, Places DEF TypeOK, NextDcaTick, ica_height
<1>3. timers' \in [{"ica", "dca", "scan"} -> Positions] BY <1>2, AdjustTypes DEF dca_tick
<1>4. dca' \in 0 .. Blocks - 1
  BY BlockTypes DEF dca_tick, process_dca, TypeOK
<1>5. dcp' \in 0 .. Blocks - 1
  BY DcaAssumption DEF dca_tick, process_dca, TypeOK
<1>6. vsr' \in Nat /\ vsr_pos' \in Nat
  BY DcaAssumption DEF dca_tick, process_dca, TypeOK
<1>7. due' \subseteq {"vblank", "ica", "dca", "scan", "reset"} BY DEF dca_tick, Expire, TypeOK
<1> QED BY <1>3, <1>4, <1>5, <1>6, <1>7, Zenon DEF dca_tick, host, TypeOK

\* The scanline timer.
LEMMA ScanTypes == ASSUME TypeOK, scan_tick PROVE TypeOK'
<1>1. ica_height \in Nat /\ total_height \in Nat
  BY Heights DEF TypeOK, ica_height, total_height
<1>2. scanline' \in Nat BY <1>1 DEF scan_tick, TypeOK
<1>3. timers' \in [{"ica", "dca", "scan"} -> Positions]
  BY <1>2, Places, AdjustTypes DEF scan_tick
<1>4. vsr_pos' \in Nat BY DEF scan_tick, screen_update, Fetched, TypeOK
<1>5. csrr' \in [DA : BOOLEAN, PA : BOOLEAN]
  <2> DEFINE Turned == csrr.PA # (scanline = total_height - 1)
  <2>1. Turned \in BOOLEAN OBVIOUS
  <2>2. csrr' = csrr \/ csrr' = [DA |-> TRUE, PA |-> Turned]
    BY Zenon DEF scan_tick, scanline_update
  <2> HIDE DEF Turned
  <2>3. [DA |-> TRUE, PA |-> Turned] \in [DA : BOOLEAN, PA : BOOLEAN] BY <2>1
  <2>4. csrr \in [DA : BOOLEAN, PA : BOOLEAN] BY DEF TypeOK
  <2> QED BY <2>2, <2>3, <2>4
<1>6. due' \subseteq {"vblank", "ica", "dca", "scan", "reset"} BY DEF scan_tick, Expire, TypeOK
<1> QED BY <1>2, <1>3, <1>4, <1>5, <1>6, Zenon DEF scan_tick, host, TypeOK

\* A reset.
LEMMA ResetTypes == ASSUME TypeOK, device_reset PROVE TypeOK'
<1>1. dcr' \in Registers /\ csrr' \in [DA : BOOLEAN, PA : BOOLEAN]
  BY DEF device_reset, Off, Clear, Registers
<1>2. 0 \in 0 .. Blocks - 1 BY DcaAssumption
<1>3. Blank(ica_height) \in Positions /\ Start(ica_height) \in Positions
  BY Heights, Places DEF TypeOK, ica_height
<1>4. timers' \in [{"ica", "dca", "scan"} -> Positions]
  BY <1>3 DEF device_reset, TypeOK
<1>5. vsr' \in Nat /\ vsr_pos' \in Nat /\ dcp' \in 0 .. Blocks - 1 /\ dca' \in 0 .. Blocks - 1
  BY <1>2 DEF device_reset
<1>6. field' \in Fields BY <1>1, <1>5, FieldTypes DEF device_reset
<1>7. st' \in BOOLEAN /\ due' \subseteq {"vblank", "ica", "dca", "scan", "reset"}
  BY DEF device_reset
<1> QED BY <1>1, <1>4, <1>5, <1>6, <1>7, Zenon DEF device_reset, host, TypeOK

\* The beam moves.
LEMMA AdvanceTypes == ASSUME TypeOK, Advance PROVE TypeOK'
<1>1. beam' \in Positions
  <2>1. vpos \in Nat /\ beam[2] \in 0 .. 2 BY DEF TypeOK, Positions, vpos
  <2>2. CASE beam[2] < 2 BY <2>1, <2>2 DEF Advance, NextPosition, Positions
  <2>3. CASE ~(beam[2] < 2) BY <2>1, <2>3, Places DEF Advance, NextPosition
  <2> QED BY <2>2, <2>3
<1>2. due' \subseteq {"vblank", "ica", "dca", "scan", "reset"}
  <2>1. DOMAIN timers = {"ica", "dca", "scan"} BY DEF TypeOK
  <2> QED BY <2>1 DEF Advance
<1> QED BY <1>1, <1>2, Zenon DEF Advance, registers, host, TypeOK
LEMMA GuestTypes == ASSUME TypeOK, Guest PROVE TypeOK'
<1> USE DEF Write, Disturbs, raster, host, TypeOK
<1>0. ASSUME NEW yes \in BOOLEAN, Disturbs(yes) PROVE field' \in Fields
  <2>1. (field.steady /\ ~yes) \in BOOLEAN OBVIOUS
  <2> QED BY <1>0, <2>1 DEF Fields
<1>1. CASE dcr_w
  <2>1. (dcr'.FD # dcr.FD \/ dcr'.DCA # dcr.DCA) \in BOOLEAN OBVIOUS
  <2>2. field' \in Fields BY <1>0, <1>1, <2>1, Zenon DEF dcr_w
  <2> QED BY <1>1, <2>2 DEF dcr_w
<1>2. CASE csr1_w
  <2>1. field' \in Fields BY <1>0, <1>2 DEF csr1_w
  <2>2. st' \in BOOLEAN BY <1>2 DEF csr1_w
  <2> QED BY <1>2, <2>1, <2>2 DEF csr1_w
<1>3. CASE vsr_w
  <2>1. field' \in Fields BY <1>0, <1>3 DEF vsr_w
  <2>2. vsr' \in Nat BY <1>3, DcaAssumption DEF vsr_w
  <2> QED BY <1>3, <2>1, <2>2 DEF vsr_w
<1>4. CASE dca_w
  <2>1. dcr.DCA \in BOOLEAN BY DEF Registers
  <2>2. field' \in Fields BY <1>0, <1>4, <2>1 DEF dca_w
  <2>3. dca' \in 0 .. Blocks - 1 BY <1>4, DcaAssumption DEF dca_w
  <2> QED BY <1>4, <2>2, <2>3 DEF dca_w
<1> QED BY <1>1, <1>2, <1>3, <1>4 DEF Guest

\* Every step keeps the types.
LEMMA NextTypes == ASSUME TypeOK, [Next]_vars PROVE TypeOK'
<1>1. CASE vblank_begin BY <1>1 DEF vblank_begin, registers, raster, TypeOK
<1>2. CASE scan_tick BY <1>2, ScanTypes
<1>3. CASE ica_tick BY <1>3, IcaTypes
<1>4. CASE dca_tick BY <1>4, DcaTypes
<1>5. CASE device_reset BY <1>5, ResetTypes
<1>6. CASE Advance BY <1>6, AdvanceTypes
<1>7. CASE Guest BY <1>7, GuestTypes
<1>8. CASE retro_unserialize
  BY <1>8 DEF retro_unserialize, device_post_load, registers, raster, host, TypeOK
<1>9. CASE retro_reset BY <1>9 DEF retro_reset, registers, raster, TypeOK
<1>10. CASE retro_run BY <1>10 DEF retro_run, registers, raster, TypeOK
<1>11. CASE UNCHANGED vars BY <1>11 DEF vars, registers, raster, host, TypeOK
<1> QED
  BY <1>1, <1>2, <1>3, <1>4, <1>5, <1>6, <1>7, <1>8, <1>9, <1>10, <1>11
  DEF Next, Timer, Frontend

\* The registers, the beam and the timers keep their types (mcd212.cpp).
THEOREM TypeCorrect == Spec => []TypeOK
BY InitTypes, NextTypes, PTL DEF Spec

-----------------------------------------------------------------------------
(* The status follows the beam. *)

\* Where the three timers and the beam stand after a step says what is due.
LEMMA InitAhead == Init => ScanIsAhead
BY DEF Init, ScanIsAhead

\* Steps that leave the beam, the status, the two timers and what is due of
\* them alone.
LEMMA Aside ==
    ASSUME ScanIsAhead, UNCHANGED <<beam, ntsc, scanline, csrr>>,
           field'.whole = field.whole, field'.parity = field.parity,
           timers'["ica"] = timers["ica"], timers'["scan"] = timers["scan"],
           \A t \in {"ica", "scan"} : t \in due' <=> t \in due,
           "vblank" \in due' => "vblank" \in due
    PROVE  ScanIsAhead'
BY DEF ScanIsAhead, vpos, total_height, ica_height, Start

\* A whole field starts with the scanline timer in place.
LEMMA IcaAhead == ASSUME TypeOK, ica_tick PROVE ScanIsAhead'
<1> SUFFICES ASSUME field'.whole PROVE ScanIsAhead' BY DEF ScanIsAhead
<1>1. /\ vpos = 0 /\ timers'["scan"] = Start(scanline')
      /\ scanline' \in 1 .. IcaHeight[ntsc'] /\ field'.parity = csrr'.PA
  BY DEF ica_tick, FieldStarts
<1>2. ntsc' \in BOOLEAN BY IcaTypes DEF TypeOK
<1>3. vpos' = 0 /\ timers'["ica"] = Start(0)
  BY <1>1 DEF ica_tick, configure, adjust, Rescaled, vpos, TypeOK
<1>4. "scan" \notin due' /\ "vblank" \notin due' /\ "ica" \notin due'
  BY DEF ica_tick, Expire
<1>5. csrr'.DA = FALSE BY DEF ica_tick, TypeOK
<1>6. /\ total_height' \in Nat /\ ica_height' \in Nat /\ scanline' \in Nat
      /\ 0 < ica_height' /\ ica_height' < total_height' /\ scanline' \in 1 .. ica_height'
  BY <1>1, <1>2, Heights DEF total_height, ica_height
<1>7. /\ vpos' < total_height' /\ vpos' # total_height' - 1 /\ ~(ica_height' <= vpos')
      /\ vpos' < ica_height' /\ scanline' \in vpos' + 1 .. ica_height'
  BY <1>3, <1>6
<1> QED BY <1>1, <1>3, <1>4, <1>5, <1>7 DEF ScanIsAhead

\* The scanline timer runs: the status becomes that of its line.
LEMMA ScanAhead == ASSUME TypeOK, ScanIsAhead, scan_tick PROVE ScanIsAhead'
<1> SUFFICES ASSUME field'.whole PROVE ScanIsAhead' BY DEF ScanIsAhead
<1>1. field' = field /\ ntsc' = ntsc /\ beam' = beam BY DEF scan_tick
<1>2. "scan" \in due /\ due' = due \ {"scan"} /\ "vblank" \notin due
  BY DEF scan_tick, Expire
<1>3. /\ "ica" \notin due /\ vpos = scanline /\ vpos < total_height
      /\ csrr.DA <=> vpos > ica_height
      /\ csrr.PA = field.parity
      /\ timers["ica"] = Start(0)
  BY <1>1, <1>2 DEF ScanIsAhead
<1>4. /\ total_height \in Nat /\ ica_height \in Nat /\ scanline \in Nat
      /\ 0 < ica_height /\ ica_height < total_height
  BY Heights DEF TypeOK, total_height, ica_height
<1>5. timers'["ica"] = Start(0) /\ timers'["scan"] = Start(scanline')
  BY <1>3 DEF scan_tick, adjust, TypeOK
<1>6. scanline' = IF scanline + 1 >= total_height THEN ica_height ELSE scanline + 1
  BY DEF scan_tick
<1>7. vpos' = vpos /\ total_height' = total_height /\ ica_height' = ica_height
  BY <1>1 DEF vpos, total_height, ica_height
<1>8. CASE vpos < ica_height
  <2>1. csrr' = csrr BY <1>3, <1>8 DEF scan_tick, scanline_update
  <2> QED
    BY <1>1, <1>2, <1>3, <1>4, <1>5, <1>6, <1>7, <1>8, <2>1 DEF ScanIsAhead
<1>9. CASE ~(vpos < ica_height)
  <2>1. csrr' = [DA |-> TRUE, PA |-> (csrr.PA # (scanline = total_height - 1))]
    BY <1>3, <1>9 DEF scan_tick, scanline_update
  <2>2. csrr'.DA /\ csrr'.PA = (csrr.PA # (scanline = total_height - 1)) BY <2>1
  <2>3. csrr'.PA # field'.parity <=> vpos' = total_height' - 1
    <3> DEFINE Last == scanline = total_height - 1
    <3>1. Last \in BOOLEAN /\ csrr.PA \in BOOLEAN BY DEF TypeOK
    <3>2. csrr'.PA = (csrr.PA # Last) BY <2>2, Zenon
    <3>3. csrr.PA = field'.parity BY <1>1, <1>3
    <3>4. Last <=> vpos' = total_height' - 1 BY <1>3, <1>7
    <3> HIDE DEF Last
    <3> QED BY <3>1, <3>2, <3>3, <3>4
  <2>4. /\ "ica" \notin due' /\ "vblank" \notin due' /\ "scan" \notin due'
        /\ vpos' < total_height' /\ vpos' >= ica_height' /\ csrr'.DA
    BY <1>2, <1>3, <1>7, <1>9, <1>4, <2>2
  <2>5. /\ vpos' = total_height' - 1 => scanline' = ica_height'
        /\ vpos' # total_height' - 1 => scanline' = vpos' + 1
    BY <1>3, <1>4, <1>6, <1>7
  <2>6. CASE vpos' = total_height' - 1
    <3>1. ~(vpos' \in ica_height' .. total_height' - 2) /\ ~(vpos' < ica_height')
      BY <1>4, <1>7, <2>4, <2>6
    <3> QED BY <1>5, <2>3, <2>4, <2>5, <2>6, <3>1 DEF ScanIsAhead
  <2>7. CASE vpos' # total_height' - 1
    <3>1. ~(vpos' < ica_height') BY <1>7, <1>9
    <3> QED BY <1>5, <2>3, <2>4, <2>5, <2>7, <3>1 DEF ScanIsAhead
  <2> QED BY <2>6, <2>7
<1> QED BY <1>8, <1>9

\* The beam moves to the next place, which the scanline timer may be set to.
LEMMA AdvanceAhead == ASSUME TypeOK, ScanIsAhead, Advance PROVE ScanIsAhead'
<1> SUFFICES ASSUME field'.whole PROVE ScanIsAhead' BY DEF ScanIsAhead
<1>1. /\ UNCHANGED <<field, csrr, ntsc, timers, scanline>> /\ due = {}
      /\ beam' = NextPosition
  BY DEF Advance, registers
<1>2. DOMAIN timers = {"ica", "dca", "scan"} BY DEF TypeOK
<1>3. /\ timers["ica"] = Start(0) /\ timers["scan"] = Start(scanline)
      /\ vpos < total_height
      /\ vpos = total_height - 1 => scanline = ica_height
      /\ vpos \in ica_height .. total_height - 2 => scanline = vpos + 1
      /\ vpos < ica_height => scanline \in vpos + 1 .. ica_height
      /\ csrr.DA <=> vpos >= ica_height
      /\ csrr.PA # field.parity <=> vpos = total_height - 1
  BY <1>1 DEF ScanIsAhead
<1>4. /\ total_height \in Nat /\ ica_height \in Nat /\ scanline \in Nat /\ vpos \in Nat
      /\ 0 < ica_height /\ ica_height < total_height
  BY Heights DEF TypeOK, total_height, ica_height, Positions, vpos
<1>5. total_height' = total_height /\ ica_height' = ica_height
  BY <1>1 DEF total_height, ica_height
<1>6. /\ "ica" \in due' <=> beam' = Start(0)
      /\ "vblank" \in due' <=> beam' = Start(0)
      /\ "scan" \in due' <=> beam' = Start(scanline)
  BY <1>1, <1>2, <1>3 DEF Advance
<1>7. CASE beam[2] < 2
  <2>1. beam' = <<vpos, beam[2] + 1>> /\ beam[2] \in 0 .. 1
    BY <1>1, <1>7 DEF NextPosition, TypeOK, Positions
  <2>2. vpos' = vpos /\ beam'[2] # 0 BY <2>1 DEF vpos
  <2>3. \A y : beam' # Start(y) BY <2>2 DEF Start
  <2> QED BY <1>1, <1>3, <1>4, <1>5, <1>6, <2>2, <2>3 DEF ScanIsAhead
<1>8. CASE ~(beam[2] < 2) /\ vpos = total_height - 1
  <2>1. beam' = Start(0) BY <1>1, <1>8, Zenon DEF NextPosition
  <2>2. scanline # 0 BY <1>3, <1>4, <1>8
  <2>3. beam' # Start(scanline) BY <1>4, <2>1, <2>2 DEF Start
  <2> QED BY <1>1, <1>3, <1>6, <2>1, <2>3 DEF ScanIsAhead
<1>9. CASE ~(beam[2] < 2) /\ vpos # total_height - 1
  <2>1. beam' = Start(vpos + 1) BY <1>1, <1>9 DEF NextPosition
  <2>2. vpos' = vpos + 1 BY <2>1 DEF vpos, Start
  <2>3. beam' # Start(0) BY <1>4, <2>1 DEF Start
  <2>4. "scan" \in due' <=> scanline = vpos + 1 BY <1>4, <1>6, <2>1 DEF Start
  <2>5. "ica" \notin due' /\ "vblank" \notin due' BY <1>6, <2>3
  <2>6. vpos' < total_height' /\ csrr.PA = field.parity
    BY <1>3, <1>4, <1>5, <1>9, <2>2 DEF TypeOK, Fields
  <2>7. timers'["ica"] = Start(0) /\ timers'["scan"] = Start(scanline') BY <1>1, <1>3
  <2>8. CASE "scan" \in due'
    <3>1. vpos' = scanline' BY <1>1, <2>2, <2>4, <2>8
    <3>2. csrr'.DA <=> vpos' > ica_height' BY <1>1, <1>3, <1>4, <1>5, <2>2
    <3> QED BY <1>1, <2>5, <2>6, <2>7, <2>8, <3>1, <3>2 DEF ScanIsAhead
  <2>9. CASE "scan" \notin due'
    <3>1. /\ vpos' < ica_height' /\ vpos' # total_height' - 1 /\ ~(ica_height' <= vpos')
          /\ scanline' \in vpos' + 1 .. ica_height'
      BY <1>1, <1>3, <1>4, <1>5, <1>9, <2>2, <2>4, <2>9
    <3>2. ~csrr'.DA BY <1>1, <1>3, <1>4, <1>5, <2>2, <3>1
    <3> QED BY <1>1, <2>5, <2>6, <2>7, <2>9, <3>1, <3>2 DEF ScanIsAhead
  <2> QED BY <2>8, <2>9
<1> QED BY <1>7, <1>8, <1>9

\* Every step keeps the scanline timer ahead.
LEMMA NextAhead ==
    ASSUME TypeOK, ScanIsAhead, [Next]_vars
    PROVE  ScanIsAhead'
<1>1. CASE vblank_begin
  BY <1>1, Aside DEF vblank_begin, registers, raster
<1>2. CASE scan_tick BY <1>2, ScanAhead
<1>3. CASE ica_tick BY <1>3, IcaAhead
<1>4. CASE dca_tick BY <1>4, Aside DEF dca_tick, Expire, adjust, TypeOK
<1>5. CASE device_reset
  BY <1>5 DEF device_reset, FieldStarts, ScanIsAhead
<1>6. CASE Advance BY <1>6, AdvanceAhead
<1>7. CASE Guest
  <2>1. UNCHANGED <<raster, csrr, due>> BY <1>7 DEF Guest, dcr_w, csr1_w, vsr_w, dca_w, Write
  <2>2. PICK yes : Disturbs(yes) BY <1>7 DEF Guest, dcr_w, csr1_w, vsr_w, dca_w
  <2>3. field'.whole = field.whole /\ field'.parity = field.parity
    BY <2>2 DEF Disturbs, TypeOK, Fields
  <2> QED BY <2>1, <2>3, Aside DEF raster
<1>8. CASE Frontend
  BY <1>8, Aside DEF Frontend, retro_unserialize, retro_reset, retro_run, registers, raster
<1>9. CASE UNCHANGED vars BY <1>9, Aside DEF vars, registers, raster
<1> QED BY <1>1, <1>2, <1>3, <1>4, <1>5, <1>6, <1>7, <1>8, <1>9 DEF Next, Timer

\* It is ahead in every state.
LEMMA Ahead == Spec => [](TypeOK /\ ScanIsAhead)
<1>1. Init => TypeOK /\ ScanIsAhead BY InitTypes, InitAhead
<1>2. TypeOK /\ ScanIsAhead /\ [Next]_vars => TypeOK' /\ ScanIsAhead'
  BY NextTypes, NextAhead
<1> QED BY <1>1, <1>2, PTL DEF Spec

\* In a field in which the scanline timer meets every visible line, Display
\* Active is up in the visible lines and in no other, and the frame parity has
\* turned with the last one, whether or not the field is rendered and whatever
\* the guest and the frontend do meanwhile (scanline_update of mcd212.cpp).
THEOREM StatusCorrect == Spec => []StatusFollowsBeam
<1>1. TypeOK /\ ScanIsAhead => StatusFollowsBeam BY DEF ScanIsAhead, StatusFollowsBeam
<1> QED BY <1>1, Ahead, PTL

-----------------------------------------------------------------------------
(* Numbers and recursion. *)

\* The order of the natural numbers.
Before == {ss \in Nat \X Nat : ss[1] < ss[2]}

\* A set of natural numbers that is not empty has a least element.
LEMMA Least ==
    ASSUME NEW T, T \subseteq Nat, T # {}
    PROVE  \E x \in T : \A y \in T : x <= y
<1>1. IsWellFoundedOn(Before, Nat)
  BY NatLessThanWellFounded DEF OpToRel, Before
<1>2. \E x \in T : \A y \in T : ~ (<<y, x>> \in Before)
  BY <1>1, WFMin, Zenon
<1>3. PICK x \in T : \A y \in T : ~ (<<y, x>> \in Before)
  BY <1>2, Zenon
<1>4. ASSUME NEW y \in T
      PROVE  x <= y
  <2>1. y \in Nat /\ x \in Nat
    OBVIOUS
  <2>2. <<y, x>> \in Nat \X Nat /\ <<y, x>>[1] = y /\ <<y, x>>[2] = x
    BY <2>1
  <2>3. ~(y < x)
    BY <1>3, <2>2, Zenon DEF Before
  <2> QED
    BY <2>1, <2>3
<1> QED
  BY <1>4

\* Values 0 .. n of the recursion that starts with x and goes on with step.
Begins(f, n, S, x, step) ==
    /\ f \in [0 .. n -> S] /\ f[0] = x
    /\ \A k \in 0 .. n : k > 0 => f[k] = step[k - 1][f[k - 1]]

\* Two beginnings of the same recursion agree as far as both go.
LEMMA BeginsAlike ==
    ASSUME NEW S, NEW x \in S, NEW step \in [Nat -> [S -> S]],
           NEW n \in Nat, NEW f, Begins(f, n, S, x, step),
           NEW m \in Nat, NEW g, Begins(g, m, S, x, step),
           NEW k \in Nat, k <= n, k <= m
    PROVE  f[k] = g[k]
<1> DEFINE T == {i \in Nat : i <= n /\ i <= m /\ f[i] # g[i]}
<1> SUFFICES ASSUME T # {} PROVE FALSE OBVIOUS
<1>1. PICK i \in T : \A j \in T : i <= j
  <2>1. T \subseteq Nat OBVIOUS
  <2> HIDE DEF T
  <2> QED BY <2>1, Least
<1>2. i # 0 BY DEF Begins
<1>3. i - 1 \in Nat /\ i - 1 <= n /\ i - 1 <= m /\ i \in 0 .. n /\ i \in 0 .. m BY <1>2
<1>4. f[i - 1] = g[i - 1] BY <1>1, <1>3
<1>5. f[i] = step[i - 1][f[i - 1]] /\ g[i] = step[i - 1][g[i - 1]]
  BY <1>2, <1>3 DEF Begins
<1> QED BY <1>4, <1>5

\* There is one of every length: the least length without one would follow one that has.
LEMMA BeginsExists ==
    ASSUME NEW S, NEW x \in S, NEW step \in [Nat -> [S -> S]], NEW n \in Nat
    PROVE  \E f : Begins(f, n, S, x, step)
<1> DEFINE T == {i \in Nat : ~\E f : Begins(f, i, S, x, step)}
<1> SUFFICES ASSUME T # {} PROVE FALSE OBVIOUS
<1>1. PICK i \in T : \A j \in T : i <= j
  <2>1. T \subseteq Nat OBVIOUS
  <2> HIDE DEF T
  <2> QED BY <2>1, Least
<1>2. i # 0
  <2>1. Begins([j \in 0 .. 0 |-> x], 0, S, x, step) BY DEF Begins
  <2> QED BY <2>1
<1>3. i - 1 \in Nat /\ i - 1 \notin T
  <2>1. i \in Nat /\ i - 1 \in Nat /\ ~(i <= i - 1) BY <1>2
  <2> HIDE DEF T
  <2> QED BY <1>1, <2>1
<1>4. PICK f : Begins(f, i - 1, S, x, step) BY <1>3
<1> DEFINE g == [j \in 0 .. i |-> IF j = i THEN step[i - 1][f[i - 1]] ELSE f[j]]
<1>5. Begins(g, i, S, x, step)
  <2>1. f \in [0 .. i - 1 -> S] /\ i - 1 \in 0 .. i - 1 BY <1>3, <1>4 DEF Begins
  <2>2. step[i - 1][f[i - 1]] \in S BY <1>3, <2>1
  <2>3. \A j \in 0 .. i : j # i => j \in 0 .. i - 1 BY <1>3
  <2>4. g \in [0 .. i -> S] BY <2>1, <2>2, <2>3
  <2>5. g[0] = x BY <1>2, <1>4 DEF Begins
  <2>6. ASSUME NEW j \in 0 .. i, j > 0 PROVE g[j] = step[j - 1][g[j - 1]]
    <3>1. j - 1 \in 0 .. i /\ j - 1 # i /\ g[j - 1] = f[j - 1] BY <2>6
    <3>2. CASE j = i BY <3>1, <3>2
    <3>3. CASE j # i
      <4>1. g[j] = f[j] /\ j \in 0 .. i - 1 BY <2>3, <3>3
      <4>2. f[j] = step[j - 1][f[j - 1]] BY <1>4, <2>6, <4>1 DEF Begins
      <4> QED BY <3>1, <4>1, <4>2
    <3> QED BY <3>2, <3>3
  <2> HIDE DEF g
  <2> QED BY <2>4, <2>5, <2>6 DEF Begins
<1> QED BY <1>5

\* All values of it.
Recurs(f, S, x, step) ==
    /\ f \in [Nat -> S] /\ f[0] = x
    /\ \A k \in Nat : k > 0 => f[k] = step[k - 1][f[k - 1]]

\* A recursion over the naturals defines a function.
LEMMA Recursion ==
    ASSUME NEW S, NEW x \in S, NEW step \in [Nat -> [S -> S]]
    PROVE  \E f : Recurs(f, S, x, step)
<1> DEFINE part(n) == CHOOSE f : Begins(f, n, S, x, step)
           f == [n \in Nat |-> part(n)[n]]
<1>1. ASSUME NEW n \in Nat PROVE Begins(part(n), n, S, x, step) BY BeginsExists
<1> HIDE DEF part
<1>2. ASSUME NEW n \in Nat PROVE part(n)[n] \in S BY <1>1 DEF Begins
<1>3. f \in [Nat -> S] BY <1>2
<1>4. f[0] = x BY <1>1 DEF Begins
<1>5. ASSUME NEW k \in Nat, k > 0 PROVE f[k] = step[k - 1][f[k - 1]]
  <2>1. k - 1 \in Nat /\ k - 1 <= k /\ k \in 0 .. k BY <1>5
  <2>2. part(k)[k] = step[k - 1][part(k)[k - 1]] BY <1>1, <1>5, <2>1 DEF Begins
  <2>3. part(k)[k - 1] = part(k - 1)[k - 1] BY <1>1, <2>1, BeginsAlike
  <2> QED BY <2>1, <2>2, <2>3
<1> HIDE DEF f
<1> QED BY <1>3, <1>4, <1>5 DEF Recurs

-----------------------------------------------------------------------------
(* The program of a field. *)

\* BlockOf and AddressOf, and what they are worked out from.
BlocksFrom(list) ==
    CHOOSE f : f = [k \in Nat |-> IF k = 0 THEN list ELSE NextBlock(f[k - 1])]

FetchedIn(fd, s, standard, from, y) ==
    IF \/ from = 0
       \/ /\ ~fd /\ s
          /\ \/ y < IcaHeight[standard] + Border
             \/ y >= Height[standard] - Border
    THEN from ELSE from + 1

AddressesFrom(picture, list, fd, reloads, s, standard) ==
    CHOOSE f : f = [k \in Nat |->
        IF k = 0 THEN picture
        ELSE LET above == FetchedIn(fd, s, standard, f[k - 1], IcaHeight[standard] + k - 1)
                 reload == Dca[BlocksFrom(list)[k - 1]].vsr
             IN  IF reloads /\ reload # None THEN reload ELSE above]

\* They are those of the model: the pointer behind a line, ...
LEMMA FetchedFrom ==
    \A from, y : Fetched(from, y) = FetchedIn(dcr.FD, st, ntsc, from, y)
BY DEF Fetched, InBorder, FetchedIn, ica_height, total_height

\* ... the blocks, ...
LEMMA BlockFrom == BlockOf = BlocksFrom(field.list)
BY DEF BlockOf, BlocksFrom

\* ... and the addresses of the lines.
LEMMA AddressFrom ==
    AddressOf = AddressesFrom(field.picture, field.list, dcr.FD, dcr.DCA, st, ntsc)
BY DEF AddressOf, AddressesFrom, BlockOf, BlocksFrom, Fetched, InBorder, FetchedIn,
       ica_height, total_height

\* The program is that of the step before while these are unchanged.
LEMMA SameProgram ==
    ASSUME field'.picture = field.picture, field'.list = field.list,
           dcr'.FD = dcr.FD, dcr'.DCA = dcr.DCA, st' = st, ntsc' = ntsc
    PROVE  BlockOf' = BlockOf /\ AddressOf' = AddressOf
<1>1. BlockOf' = BlocksFrom(field'.list) BY DEF BlockOf, BlocksFrom
<1>2. AddressOf' = AddressesFrom(field'.picture, field'.list, dcr'.FD, dcr'.DCA, st', ntsc')
  BY DEF AddressOf, AddressesFrom, BlockOf, BlocksFrom, Fetched, InBorder, FetchedIn,
         ica_height, total_height
<1> QED BY <1>1, <1>2, BlockFrom, AddressFrom

\* A field begins with its list, and block follows block.
LEMMA BlockFacts ==
    ASSUME NEW list \in 0 .. Blocks - 1
    PROVE  /\ BlocksFrom(list)[0] = list
           /\ \A k \in Nat : /\ BlocksFrom(list)[k] \in 0 .. Blocks - 1
                             /\ BlocksFrom(list)[k + 1] = NextBlock(BlocksFrom(list)[k])
<1> DEFINE S == 0 .. Blocks - 1
           step == [k \in Nat |-> [b \in S |-> NextBlock(b)]]
           Is(f) == f = [k \in Nat |-> IF k = 0 THEN list ELSE NextBlock(f[k - 1])]
<1>1. step \in [Nat -> [S -> S]] BY BlockTypes
<1>2. PICK f : Recurs(f, S, list, step)
  <2> HIDE DEF step, S
  <2>1. list \in S BY DEF S
  <2> QED BY <1>1, <2>1, Recursion, Zenon
<1>3. Is(f)
  <2>1. ASSUME NEW k \in Nat, k > 0 PROVE f[k] = NextBlock(f[k - 1])
    <3>1. k - 1 \in Nat /\ f[k - 1] \in S BY <1>2, <2>1 DEF Recurs
    <3> QED BY <1>2, <2>1, <3>1 DEF Recurs
  <2> QED BY <1>2, <2>1 DEF Recurs
<1> DEFINE b == BlocksFrom(list)
<1>4. Is(b) BY <1>3 DEF BlocksFrom
<1> HIDE DEF b
<1>5. b[0] = list BY <1>4
<1>6. ASSUME NEW k \in Nat PROVE b[k + 1] = NextBlock(b[k])
  <2>1. k + 1 \in Nat /\ k + 1 # 0 /\ (k + 1) - 1 = k OBVIOUS
  <2> QED BY <1>4, <2>1
<1>7. \A k \in Nat : b[k] \in S
  <2> DEFINE T == {k \in Nat : b[k] \notin S}
  <2> SUFFICES ASSUME T # {} PROVE FALSE OBVIOUS
  <2>1. PICK k \in T : \A j \in T : k <= j
    <3>1. T \subseteq Nat OBVIOUS
    <3> HIDE DEF T
    <3> QED BY <3>1, Least
  <2>2. k # 0 BY <1>5
  <2>3. k - 1 \in Nat /\ ~(k <= k - 1) BY <2>2
  <2>4. b[k - 1] \in S BY <2>1, <2>3
  <2>5. b[k] = NextBlock(b[k - 1])
    <3>1. (k - 1) + 1 = k OBVIOUS
    <3> QED BY <1>6, <2>3, <3>1
  <2> QED BY <2>4, <2>5, BlockTypes
<1> QED BY <1>5, <1>6, <1>7 DEF b

\* What line k + 1 takes over from line k.
NextAddress(list, fd, reloads, s, standard, k, from) ==
    LET reload == Dca[BlocksFrom(list)[k]].vsr
    IN  IF reloads /\ reload # None THEN reload
        ELSE FetchedIn(fd, s, standard, from, IcaHeight[standard] + k)

\* A field begins with its picture, and address follows address.
LEMMA AddressFacts ==
    ASSUME NEW picture \in Nat, NEW list \in 0 .. Blocks - 1, NEW fd, NEW reloads, NEW s,
           NEW standard \in BOOLEAN
    PROVE  LET a == AddressesFrom(picture, list, fd, reloads, s, standard)
           IN  /\ a[0] = picture
               /\ \A k \in Nat :
                      a[k + 1] = NextAddress(list, fd, reloads, s, standard, k, a[k])
<1> DEFINE next(k, from) == NextAddress(list, fd, reloads, s, standard, k, from)
           step == [k \in Nat |-> [from \in Nat |-> next(k, from)]]
           Is(f) == f = [k \in Nat |-> IF k = 0 THEN picture ELSE next(k - 1, f[k - 1])]
<1>1. step \in [Nat -> [Nat -> Nat]]
  <2>1. ASSUME NEW k \in Nat, NEW from \in Nat PROVE next(k, from) \in Nat
    <3>1. BlocksFrom(list)[k] \in 0 .. Blocks - 1 BY BlockFacts
    <3>2. Dca[BlocksFrom(list)[k]].vsr \in Nat \cup {None} BY <3>1, DcaAssumption
    <3> QED BY <3>2 DEF NextAddress, FetchedIn
  <2> HIDE DEF next
  <2> QED BY <2>1
<1>2. PICK f : Recurs(f, Nat, picture, step)
  <2> HIDE DEF step
  <2> QED BY <1>1, Recursion, Zenon
<1>3. Is(f)
  <2> HIDE DEF next
  <2>1. ASSUME NEW k \in Nat, k > 0 PROVE f[k] = next(k - 1, f[k - 1])
    <3>1. k - 1 \in Nat /\ f[k - 1] \in Nat BY <1>2, <2>1 DEF Recurs
    <3> QED BY <1>2, <2>1, <3>1 DEF Recurs
  <2> QED BY <1>2, <2>1 DEF Recurs
<1> DEFINE a == AddressesFrom(picture, list, fd, reloads, s, standard)
<1>4. Is(a)
  <2>1. ASSUME NEW k \in Nat \ {0}, NEW g
        PROVE  next(k - 1, g[k - 1]) =
                  LET above == FetchedIn(fd, s, standard, g[k - 1], IcaHeight[standard] + k - 1)
                      reload == Dca[BlocksFrom(list)[k - 1]].vsr
                  IN  IF reloads /\ reload # None THEN reload ELSE above
    <3>1. IcaHeight[standard] + (k - 1) = IcaHeight[standard] + k - 1 BY Heights
    <3> QED BY <3>1, Zenon DEF NextAddress
  <2> DEFINE Rhs(g) == [k \in Nat |->
        IF k = 0 THEN picture
        ELSE LET above == FetchedIn(fd, s, standard, g[k - 1], IcaHeight[standard] + k - 1)
                 reload == Dca[BlocksFrom(list)[k - 1]].vsr
             IN  IF reloads /\ reload # None THEN reload ELSE above]
  <2>2. ASSUME NEW g
        PROVE  Rhs(g) = [k \in Nat |-> IF k = 0 THEN picture ELSE next(k - 1, g[k - 1])]
    <3> HIDE DEF next
    <3> QED BY <2>1
  <2>3. a = CHOOSE g : g = Rhs(g) BY DEF AddressesFrom
  <2>4. f = Rhs(f)
    <3> HIDE DEF next, Rhs
    <3> QED BY <1>3, <2>2
  <2>5. a = Rhs(a)
    <3> HIDE DEF Rhs, a
    <3> QED BY <2>3, <2>4
  <2> HIDE DEF next, Rhs, a
  <2> QED BY <2>2, <2>5
<1> HIDE DEF next, a
<1>5. a[0] = picture BY <1>4
<1>6. ASSUME NEW k \in Nat PROVE a[k + 1] = next(k, a[k])
  <2>1. k + 1 \in Nat /\ k + 1 # 0 /\ (k + 1) - 1 = k OBVIOUS
  <2> QED BY <1>4, <2>1
<1> QED BY <1>5, <1>6, Zenon DEF next, a

\* The program of the field: its first address is the picture's, its first block the list's, and
\* a line and its block lead to those of the next one.
LEMMA Program ==
    ASSUME TypeOK, NEW k \in Nat
    PROVE  /\ BlockOf[0] = field.list /\ AddressOf[0] = field.picture
           /\ BlockOf[k + 1] = NextBlock(BlockOf[k])
           /\ AddressOf[k + 1] =
                  IF dcr.DCA /\ Dca[BlockOf[k]].vsr # None THEN Dca[BlockOf[k]].vsr
                  ELSE Fetched(AddressOf[k], ica_height + k)
<1>1. /\ field.picture \in Nat /\ field.list \in 0 .. Blocks - 1 /\ ntsc \in BOOLEAN
  BY DEF TypeOK, Fields
<1>2. BlockOf[0] = field.list /\ BlockOf[k + 1] = NextBlock(BlockOf[k])
  BY <1>1, BlockFacts, BlockFrom
<1>3. /\ AddressOf[0] = field.picture
      /\ AddressOf[k + 1] = NextAddress(field.list, dcr.FD, dcr.DCA, st, ntsc, k, AddressOf[k])
  BY <1>1, AddressFacts, AddressFrom
<1> QED BY <1>2, <1>3, BlockFrom, FetchedFrom DEF NextAddress, ica_height

-----------------------------------------------------------------------------
(* Where the beam meets the timers. *)

\* A timer that is due is set to where the beam is, and a field starts with its line 0.
BeamIsMet ==
    /\ \A t \in {"ica", "dca", "scan"} : t \in due => timers[t] = beam
    /\ "vblank" \in due \/ "reset" \in due => beam = Start(0)
    /\ timers["ica"][2] = 0 /\ timers["dca"][2] = 1

\* The block of the beam's line has yet to be read.
Unread == beam[2] = 0 \/ (beam[2] = 1 /\ "dca" \in due)

\* The DCA timer is set to a visible line: the beam's or the next one, unless it is the first.
DcaIsAhead ==
    \E y \in ica_height .. total_height - 1 :
        /\ timers["dca"] = Blank(y)
        /\ y = ica_height \/ vpos = IF Unread THEN y ELSE y - 1

\* In a whole field it is the first visible line, or the beam's, or what follows it.
LineIsAhead ==
    field.whole /\ "ica" \notin due =>
        timers["dca"] = IF vpos < ica_height THEN Blank(ica_height)
                        ELSE IF Unread THEN Blank(vpos) ELSE NextDcaTick

\* The numbers the raster is made of.
LEMMA Geometry ==
    ASSUME TypeOK
    PROVE  /\ ica_height \in Nat /\ total_height \in Nat
           /\ 0 < ica_height /\ ica_height < total_height
           /\ vpos \in Nat /\ beam = <<vpos, beam[2]>> /\ beam[2] \in 0 .. 2
BY Heights DEF TypeOK, ica_height, total_height, vpos, Positions

\* At power on no timer is due, and the DCA timer is set to the first visible line.
LEMMA InitMet == Init => BeamIsMet /\ DcaIsAhead /\ LineIsAhead
<1> SUFFICES ASSUME Init PROVE BeamIsMet /\ DcaIsAhead /\ LineIsAhead OBVIOUS
<1>1. BeamIsMet BY DEF Init, BeamIsMet, Blank, Start
<1>2. LineIsAhead BY DEF Init, LineIsAhead
<1>3. DcaIsAhead
  <2>1. ica_height \in ica_height .. total_height - 1 BY InitTypes, Geometry
  <2>2. timers["dca"] = Blank(ica_height) BY DEF Init
  <2> QED BY <2>1, <2>2 DEF DcaIsAhead
<1> QED BY <1>1, <1>2, <1>3

\* A step makes due what is set to the beam, or sets a timer that is not due.
LEMMA NextMet == ASSUME TypeOK, BeamIsMet, [Next]_vars PROVE BeamIsMet'
<1>0. timers \in [{"ica", "dca", "scan"} -> Positions] BY DEF TypeOK
<1>1. CASE vblank_begin
  BY <1>1 DEF vblank_begin, BeamIsMet, raster, Start
<1>2. CASE scan_tick
  BY <1>0, <1>2 DEF scan_tick, Expire, adjust, BeamIsMet, Start
<1>3. CASE ica_tick
  <2>1. /\ "ica" \in due /\ "scan" \notin due /\ "vblank" \notin due /\ due' = due \ {"ica"}
    BY <1>3 DEF ica_tick, Expire
  <2>2. beam[2] = 0 /\ "dca" \notin due
    <3>1. beam[2] = 0 BY <2>1 DEF BeamIsMet
    <3> QED BY <3>1 DEF BeamIsMet
  <2>3. CASE dcr.DE /\ dcr.FD # ntsc
    <3>1. configure(dcr.FD) BY <1>3, <2>3 DEF ica_tick
    <3>2. timers'["ica"] = Start(0) /\ timers'["dca"] = Blank(IcaHeight[dcr.FD])
      BY <1>0, <3>1 DEF configure
    <3>3. "reset" \in due => beam' = Start(0)
      BY <3>1 DEF configure, Rescaled, BeamIsMet, Start
    <3> QED BY <2>1, <2>2, <3>2, <3>3 DEF BeamIsMet, Start, Blank
  <2>4. CASE ~(dcr.DE /\ dcr.FD # ntsc)
    <3>1. adjust("ica", Start(0)) /\ beam' = beam BY <1>3, <2>4 DEF ica_tick
    <3>2. timers'["ica"] = Start(0) /\ timers'["dca"] = timers["dca"]
      BY <1>0, <3>1 DEF adjust
    <3> QED BY <2>1, <2>2, <3>1, <3>2 DEF BeamIsMet, Start, Blank
  <2> QED BY <2>3, <2>4
<1>4. CASE dca_tick
  <2>1. /\ due' = due \ {"dca"} /\ beam' = beam /\ timers' = [timers EXCEPT !["dca"] = NextDcaTick]
    BY <1>4 DEF dca_tick, Expire, adjust
  <2>2. NextDcaTick[2] = 1 BY DEF NextDcaTick, Blank
  <2> QED BY <1>0, <2>1, <2>2 DEF BeamIsMet, Start
<1>5. CASE device_reset
  <2>1. timers'["ica"] = Start(ica_height) /\ timers'["dca"] = Blank(ica_height)
    BY <1>0, <1>5 DEF device_reset
  <2>2. due' = {} BY <1>5 DEF device_reset
  <2> QED BY <2>1, <2>2 DEF BeamIsMet, Start, Blank
<1>6. CASE Advance
  <2>1. DOMAIN timers = {"ica", "dca", "scan"} BY <1>0
  <2> QED BY <1>6, <2>1 DEF Advance, BeamIsMet, Start
<1>7. CASE Guest
  <2>1. UNCHANGED <<raster, due>> BY <1>7 DEF Guest, dcr_w, csr1_w, vsr_w, dca_w, Write
  <2> QED BY <2>1 DEF raster, BeamIsMet, Start
<1>8. CASE Frontend
  BY <1>8 DEF Frontend, retro_unserialize, retro_reset, retro_run, raster, BeamIsMet, Start
<1>9. CASE UNCHANGED vars BY <1>9 DEF vars, raster, BeamIsMet, Start
<1> QED BY <1>1, <1>2, <1>3, <1>4, <1>5, <1>6, <1>7, <1>8, <1>9 DEF Next, Timer

\* Steps that move neither the beam nor the DCA timer.
LEMMA StillAhead ==
    ASSUME DcaIsAhead, UNCHANGED <<beam, ntsc>>, timers'["dca"] = timers["dca"],
           "dca" \in due' <=> "dca" \in due
    PROVE  DcaIsAhead'
BY DEF DcaIsAhead, Unread, vpos, ica_height, total_height, Blank

\* The timer is set to the first visible line.
LEMMA AheadAnew ==
    ASSUME TypeOK', timers'["dca"] = Blank(ica_height') PROVE DcaIsAhead'
<1>1. ica_height' \in ica_height' .. total_height' - 1
  <2>1. ntsc' \in BOOLEAN BY DEF TypeOK
  <2> QED BY <2>1, Heights DEF ica_height, total_height
<1> QED BY <1>1 DEF DcaIsAhead, Blank

\* The beam moves: past the block it has read, or onto the one to read.
LEMMA AdvanceDca == ASSUME TypeOK, BeamIsMet, DcaIsAhead, Advance PROVE DcaIsAhead'
<1>1. PICK y \in ica_height .. total_height - 1 :
          /\ timers["dca"] = Blank(y)
          /\ y = ica_height \/ vpos = IF Unread THEN y ELSE y - 1
  BY DEF DcaIsAhead
<1>2. /\ UNCHANGED <<ntsc, timers>> /\ due = {} /\ beam' = NextPosition
      /\ "dca" \in due' <=> beam' = timers["dca"]
  BY DEF Advance, TypeOK
<1>3. ica_height' = ica_height /\ total_height' = total_height
  BY <1>2 DEF ica_height, total_height
<1>4. CASE y = ica_height
  <2>1. timers'["dca"] = Blank(ica_height') BY <1>1, <1>2, <1>3, <1>4
  <2> QED BY <2>1, <1>1, <1>2, <1>3, <1>4 DEF DcaIsAhead, Blank
<1>5. CASE y # ica_height
  <2>0. vpos = (IF Unread THEN y ELSE y - 1) /\ y \in Nat BY <1>1, <1>5, Geometry
  <2>1. vpos' = (IF Unread' THEN y ELSE y - 1)
    <3>1. CASE beam[2] = 0
      <4>1. Unread /\ vpos = y BY <2>0, <3>1 DEF Unread
      <4>2. beam' = <<vpos, 1>> BY <1>2, <3>1 DEF NextPosition
      <4>3. vpos' = y /\ beam'[2] = 1 /\ "dca" \in due'
        BY <1>1, <1>2, <4>1, <4>2 DEF vpos, Blank
      <4> QED BY <4>3 DEF Unread
    <3>2. CASE beam[2] = 1
      <4>1. ~Unread /\ vpos = y - 1 BY <1>2, <2>0, <3>2 DEF Unread
      <4>2. beam' = <<vpos, 2>> BY <1>2, <3>2 DEF NextPosition
      <4> QED BY <4>1, <4>2 DEF Unread, vpos
    <3>3. CASE beam[2] = 2
      <4>1. ~Unread /\ vpos = y - 1 BY <1>2, <2>0, <3>3 DEF Unread
      <4>2. vpos # total_height - 1 BY <4>1, Geometry
      <4>3. beam' = Start(vpos + 1) BY <1>2, <3>3, <4>2 DEF NextPosition
      <4>4. vpos' = y /\ beam'[2] = 0 BY <2>0, <4>1, <4>3 DEF vpos, Start
      <4> QED BY <4>4 DEF Unread
    <3> QED BY <3>1, <3>2, <3>3, Geometry
  <2>2. timers'["dca"] = Blank(y) BY <1>1, <1>2
  <2> QED BY <1>1, <1>3, <2>1, <2>2 DEF DcaIsAhead, Blank
<1> QED BY <1>4, <1>5

\* A block is read: the timer goes on to the next line, or to the first visible one.
LEMMA TickDca == ASSUME TypeOK, BeamIsMet, DcaIsAhead, dca_tick PROVE DcaIsAhead'
<1>1. PICK y \in ica_height .. total_height - 1 : timers["dca"] = Blank(y)
  BY DEF DcaIsAhead
<1>2. /\ UNCHANGED <<ntsc, beam>> /\ "dca" \in due /\ due' = due \ {"dca"}
      /\ timers'["dca"] = NextDcaTick
  BY DEF dca_tick, Expire, adjust, TypeOK
<1>3. beam = Blank(y) BY <1>1, <1>2 DEF BeamIsMet
<1>4. vpos = y /\ beam[2] = 1 BY <1>3 DEF vpos, Blank
<1>5. ~Unread' /\ vpos' = y BY <1>2, <1>4 DEF Unread, vpos
<1>6. ica_height' = ica_height /\ total_height' = total_height
  BY <1>2 DEF ica_height, total_height
<1>7. CASE y = total_height - 1
  <2>1. timers'["dca"] = Blank(ica_height') BY <1>2, <1>4, <1>6, <1>7 DEF NextDcaTick
  <2> QED BY <2>1, DcaTypes, AheadAnew
<1>8. CASE y # total_height - 1
  <2>1. timers'["dca"] = Blank(y + 1) BY <1>2, <1>4, <1>8 DEF NextDcaTick
  <2>2. y + 1 \in ica_height' .. total_height' - 1 /\ vpos' = (y + 1) - 1
    BY <1>1, <1>5, <1>6, <1>8, Geometry
  <2> QED BY <1>5, <2>1, <2>2 DEF DcaIsAhead, Blank
<1> QED BY <1>7, <1>8

\* Every step keeps the DCA timer ahead.
LEMMA NextDca == ASSUME TypeOK, BeamIsMet, DcaIsAhead, [Next]_vars PROVE DcaIsAhead'
<1>0. timers \in [{"ica", "dca", "scan"} -> Positions] BY DEF TypeOK
<1>1. CASE vblank_begin BY <1>1, StillAhead DEF vblank_begin, raster
<1>2. CASE scan_tick BY <1>0, <1>2, StillAhead DEF scan_tick, Expire, adjust
<1>3. CASE ica_tick
  <2>1. CASE dcr.DE /\ dcr.FD # ntsc
    <3>1. timers'["dca"] = Blank(ica_height')
      BY <1>0, <1>3, <2>1 DEF ica_tick, configure, ica_height
    <3> QED BY <1>3, <3>1, IcaTypes, AheadAnew
  <2>2. CASE ~(dcr.DE /\ dcr.FD # ntsc)
    BY <1>0, <1>3, <2>2, StillAhead DEF ica_tick, Expire, adjust
  <2> QED BY <2>1, <2>2
<1>4. CASE dca_tick BY <1>4, TickDca
<1>5. CASE device_reset
  <2>1. timers'["dca"] = Blank(ica_height')
    BY <1>0, <1>5 DEF device_reset, ica_height
  <2> QED BY <1>5, <2>1, ResetTypes, AheadAnew
<1>6. CASE Advance BY <1>6, AdvanceDca
<1>7. CASE Guest
  <2>1. UNCHANGED <<raster, due>> BY <1>7 DEF Guest, dcr_w, csr1_w, vsr_w, dca_w, Write
  <2> QED BY <2>1, StillAhead DEF raster
<1>8. CASE Frontend
  BY <1>8, StillAhead DEF Frontend, retro_unserialize, retro_reset, retro_run, raster
<1>9. CASE UNCHANGED vars BY <1>9, StillAhead DEF vars, raster
<1> QED BY <1>1, <1>2, <1>3, <1>4, <1>5, <1>6, <1>7, <1>8, <1>9 DEF Next, Timer

\* In a whole field the beam comes to no visible line without the timer.
LEMMA AdvanceLine ==
    ASSUME TypeOK, BeamIsMet, LineIsAhead, Advance, timers["ica"] = Start(0),
           field.whole, "ica" \notin due'
    PROVE  LineIsAhead'
<1>1. /\ UNCHANGED <<ntsc, timers>> /\ due = {} /\ beam' = NextPosition
      /\ "dca" \in due' <=> beam' = timers["dca"]
      /\ "ica" \in due' <=> beam' = timers["ica"]
  BY DEF Advance, TypeOK
<1>2. ica_height' = ica_height /\ total_height' = total_height
  BY <1>1 DEF ica_height, total_height
<1>3. timers["dca"] = IF vpos < ica_height THEN Blank(ica_height)
                      ELSE IF beam[2] = 0 THEN Blank(vpos) ELSE NextDcaTick
  BY <1>1 DEF LineIsAhead, Unread
<1>4. CASE beam[2] = 2
  <2>1. vpos # total_height - 1 BY <1>1, <1>4 DEF NextPosition
  <2>2. beam' = Start(vpos + 1) BY <1>1, <1>4, <2>1 DEF NextPosition
  <2>3. vpos' = vpos + 1 /\ Unread' BY <2>2 DEF vpos, Start, Unread
  <2>4. ~(vpos < ica_height) => timers["dca"] = Blank(vpos + 1)
    BY <1>3, <1>4, <2>1 DEF NextDcaTick
  <2>5. vpos < ica_height => vpos' < ica_height \/ vpos' = ica_height
    BY <2>3, Geometry
  <2>6. ~(vpos < ica_height) => ~(vpos' < ica_height) BY <2>3, Geometry
  <2> QED BY <1>1, <1>2, <1>3, <2>3, <2>4, <2>5, <2>6 DEF LineIsAhead, Blank
<1>5. CASE beam[2] \in 0 .. 1
  <2>1. beam' = <<vpos, beam[2] + 1>> BY <1>1, <1>5 DEF NextPosition
  <2>2. vpos' = vpos /\ beam'[2] = beam[2] + 1 BY <2>1 DEF vpos
  <2>3. NextDcaTick' = NextDcaTick BY <1>2, <2>2 DEF NextDcaTick, Blank
  <2>4. ~(vpos < ica_height) /\ beam[2] = 0 => Unread'
    BY <1>1, <1>3, <2>1, <2>2 DEF Unread, Blank
  <2>5. beam[2] = 1 => ~Unread' BY <2>2 DEF Unread
  <2> QED BY <1>1, <1>2, <1>3, <1>5, <2>2, <2>3, <2>4, <2>5 DEF LineIsAhead, Blank
<1> QED BY <1>4, <1>5, Geometry

\* A block is read.
LEMMA TickLine ==
    ASSUME TypeOK, BeamIsMet, LineIsAhead, DcaIsAhead, dca_tick PROVE LineIsAhead'
<1>1. PICK y \in ica_height .. total_height - 1 : timers["dca"] = Blank(y)
  BY DEF DcaIsAhead
<1>2. /\ UNCHANGED <<ntsc, beam>> /\ "dca" \in due /\ due' = due \ {"dca"}
      /\ timers'["dca"] = NextDcaTick
  BY DEF dca_tick, Expire, adjust, TypeOK
<1>3. beam = Blank(y) BY <1>1, <1>2 DEF BeamIsMet
<1>4. vpos = y /\ beam[2] = 1 BY <1>3 DEF vpos, Blank
<1>5. ~Unread' /\ vpos' = vpos /\ ~(vpos < ica_height)
  BY <1>2, <1>4, Geometry DEF Unread, vpos
<1>6. NextDcaTick' = NextDcaTick /\ ica_height' = ica_height
  BY <1>2 DEF NextDcaTick, vpos, ica_height, total_height, Blank
<1> QED BY <1>2, <1>5, <1>6 DEF LineIsAhead

\* A field that starts in its line 0 has the timer at its first visible line.
LEMMA IcaLine == ASSUME TypeOK, BeamIsMet, DcaIsAhead, ica_tick PROVE LineIsAhead'
<1> SUFFICES ASSUME field'.whole PROVE LineIsAhead' BY DEF LineIsAhead
<1>1. vpos = 0 BY DEF ica_tick, FieldStarts
<1>2. ica_height' \in Nat /\ 0 < ica_height' BY IcaTypes, Heights DEF TypeOK, ica_height
<1>3. vpos' = 0 BY <1>1 DEF ica_tick, configure, Rescaled, vpos
<1>4. timers'["dca"] = Blank(ica_height')
  <2>1. CASE dcr.DE /\ dcr.FD # ntsc
    BY <2>1 DEF ica_tick, configure, ica_height, TypeOK
  <2>2. CASE ~(dcr.DE /\ dcr.FD # ntsc)
    <3>1. timers'["dca"] = timers["dca"] /\ ntsc' = ntsc
      BY <2>2 DEF ica_tick, adjust, TypeOK
    <3>2. PICK y \in ica_height .. total_height - 1 :
              /\ timers["dca"] = Blank(y)
              /\ y = ica_height \/ vpos = IF Unread THEN y ELSE y - 1
      BY DEF DcaIsAhead
    <3>3. y = ica_height BY <1>1, <3>2, Geometry
    <3> QED BY <3>1, <3>2, <3>3 DEF ica_height
  <2> QED BY <2>1, <2>2
<1> QED BY <1>2, <1>3, <1>4 DEF LineIsAhead

\* Steps that move neither the beam nor the DCA timer, and start no field.
LEMMA StillLine ==
    ASSUME LineIsAhead, UNCHANGED <<beam, ntsc>>, timers'["dca"] = timers["dca"],
           field'.whole = field.whole,
           "dca" \in due' <=> "dca" \in due, "ica" \in due' <=> "ica" \in due
    PROVE  LineIsAhead'
BY DEF LineIsAhead, Unread, NextDcaTick, vpos, ica_height, total_height, Blank

\* Every step of a whole field keeps the timer with the beam's line.
LEMMA NextLine ==
    ASSUME TypeOK, ScanIsAhead, BeamIsMet, DcaIsAhead, LineIsAhead, [Next]_vars
    PROVE  LineIsAhead'
<1>0. timers \in [{"ica", "dca", "scan"} -> Positions] BY DEF TypeOK
<1>1. CASE vblank_begin BY <1>1, StillLine DEF vblank_begin, raster
<1>2. CASE scan_tick BY <1>0, <1>2, StillLine DEF scan_tick, Expire, adjust
<1>3. CASE ica_tick BY <1>3, IcaLine
<1>4. CASE dca_tick BY <1>4, TickLine
<1>5. CASE device_reset BY <1>5 DEF device_reset, FieldStarts, LineIsAhead
<1>6. CASE Advance
  <2>1. UNCHANGED field BY <1>6 DEF Advance
  <2>2. CASE field.whole /\ "ica" \notin due'
    <3>1. timers["ica"] = Start(0) BY <2>2 DEF ScanIsAhead
    <3> QED BY <1>6, <2>2, <3>1, AdvanceLine
  <2>3. CASE ~(field.whole /\ "ica" \notin due') BY <2>1, <2>3 DEF LineIsAhead
  <2> QED BY <2>2, <2>3
<1>7. CASE Guest
  <2>1. UNCHANGED <<raster, due>> BY <1>7 DEF Guest, dcr_w, csr1_w, vsr_w, dca_w, Write
  <2>2. PICK yes : Disturbs(yes) BY <1>7 DEF Guest, dcr_w, csr1_w, vsr_w, dca_w
  <2>3. field'.whole = field.whole BY <2>2 DEF Disturbs, TypeOK, Fields
  <2> QED BY <2>1, <2>3, StillLine DEF raster
<1>8. CASE Frontend
  BY <1>8, StillLine DEF Frontend, retro_unserialize, retro_reset, retro_run, raster
<1>9. CASE UNCHANGED vars BY <1>9, StillLine DEF vars, raster
<1> QED BY <1>1, <1>2, <1>3, <1>4, <1>5, <1>6, <1>7, <1>8, <1>9 DEF Next, Timer

-----------------------------------------------------------------------------
(* Blocks and pictures. *)

\* How many blocks of the field have been read, and whether the beam's line has been drawn
\* and its block not been read.
BlocksRead ==
    IF vpos < ica_height THEN 0
    ELSE IF Unread THEN vpos - ica_height ELSE vpos - ica_height + 1
Drawn == vpos >= ica_height /\ Unread /\ "scan" \notin due

BlockFollows == dcr.DCA => dca = BlockOf[BlocksRead]
AddressFollows ==
    ~skip => vsr_pos = IF Drawn THEN Fetched(AddressOf[BlocksRead], vpos)
                       ELSE AddressOf[BlocksRead]

\* While the field is as it started, its path is where the blocks and lines so far have led.
ProgramIsFollowed ==
    field.whole /\ field.steady /\ "ica" \notin due => BlockFollows /\ AddressFollows

\* Between two fields the pointer is the picture's, as a load will work it out.
PictureIsKept ==
    frontend /\ field.whole /\ "ica" \notin due =>
        beam = Start(0) /\ vsr = field.picture /\ vsr_pos = field.picture

Followed ==
    /\ TypeOK /\ ScanIsAhead /\ BeamIsMet /\ DcaIsAhead /\ LineIsAhead
    /\ ProgramIsFollowed /\ PictureIsKept

\* Steps that leave the program and what has been done of it alone.
LEMMA StillFollowed ==
    ASSUME ProgramIsFollowed,
           UNCHANGED <<beam, ntsc, vsr_pos, skip, field>>,
           UNCHANGED <<dcr, st, dca>>,
           "ica" \in due' <=> "ica" \in due, "dca" \in due' <=> "dca" \in due,
           "scan" \in due' <=> "scan" \in due
    PROVE  ProgramIsFollowed'
<1>1. BlockOf' = BlockOf /\ AddressOf' = AddressOf BY SameProgram
<1>2. BlocksRead' = BlocksRead /\ (Drawn' <=> Drawn) /\ vpos' = vpos
  BY DEF BlocksRead, Drawn, Unread, vpos, ica_height
<1>3. \A from, y : Fetched(from, y)' = Fetched(from, y)
  BY DEF Fetched, InBorder, ica_height, total_height
<1>4. BlockFollows => BlockFollows' BY <1>1, <1>2 DEF BlockFollows
<1>5. AddressFollows => AddressFollows' BY <1>1, <1>2, <1>3 DEF AddressFollows
<1> QED BY <1>4, <1>5 DEF ProgramIsFollowed

\* The guest's writes leave the program alone, or the field is not steady after them.
LEMMA GuestFollowed ==
    ASSUME TypeOK, ProgramIsFollowed, Guest PROVE ProgramIsFollowed'
<1> SUFFICES ASSUME field'.whole, field'.steady, "ica" \notin due'
             PROVE  BlockFollows' /\ AddressFollows'
  BY DEF ProgramIsFollowed
<1>1. UNCHANGED <<raster, due, vsr_pos, skip>>
  BY DEF Guest, dcr_w, csr1_w, vsr_w, dca_w, Write, host
<1>2. ASSUME NEW yes, Disturbs(yes)
      PROVE  /\ field'.picture = field.picture /\ field'.list = field.list
             /\ field.whole /\ field.steady /\ ~yes
  BY <1>2 DEF Disturbs, TypeOK, Fields
<1>3. /\ field'.picture = field.picture /\ field'.list = field.list
      /\ field.whole /\ field.steady
  BY <1>2 DEF Guest, dcr_w, csr1_w, vsr_w, dca_w
<1>4. dcr'.FD = dcr.FD /\ dcr'.DCA = dcr.DCA /\ st' = st
  <2>1. ~csr1_w BY <1>2 DEF csr1_w
  <2>2. CASE dcr_w
    <3>1. ~(dcr'.FD # dcr.FD \/ dcr'.DCA # dcr.DCA) BY <1>2, <2>2 DEF dcr_w
    <3> QED BY <2>2, <3>1 DEF dcr_w
  <2> QED BY <2>1, <2>2 DEF Guest, vsr_w, dca_w
<1>5. dcr.DCA => dca' = dca
  <2>1. CASE dca_w
    <3>1. ~dcr.DCA BY <1>2, <2>1 DEF dca_w
    <3> QED BY <3>1
  <2> QED BY <2>1, <1>2 DEF Guest, dcr_w, csr1_w, vsr_w
<1>6. BlockOf' = BlockOf /\ AddressOf' = AddressOf BY <1>1, <1>3, <1>4, SameProgram DEF raster
<1>7. BlocksRead' = BlocksRead /\ (Drawn' <=> Drawn) /\ vpos' = vpos
  BY <1>1 DEF raster, BlocksRead, Drawn, Unread, vpos, ica_height
<1>8. \A from, y : Fetched(from, y)' = Fetched(from, y)
  BY <1>1, <1>4 DEF raster, Fetched, InBorder, ica_height, total_height
<1>9. BlockFollows /\ AddressFollows BY <1>1, <1>3 DEF ProgramIsFollowed
<1>10. BlockFollows' BY <1>4, <1>5, <1>6, <1>7, <1>9 DEF BlockFollows
<1>11. AddressFollows' BY <1>1, <1>6, <1>7, <1>8, <1>9 DEF AddressFollows
<1> QED BY <1>10, <1>11

\* The first line of a field that starts in its line 0.
LEMMA AtTop ==
    ASSUME TypeOK, vpos = 0
    PROVE  BlocksRead = 0 /\ ~Drawn /\ AddressOf[0] = field.picture /\ BlockOf[0] = field.list
<1>1. BlocksRead = 0 /\ ~Drawn BY Geometry DEF BlocksRead, Drawn
<1>2. 0 \in Nat OBVIOUS
<1> QED BY <1>1, <1>2, Program

\* The same of the next state.
LEMMA AtTopNext ==
    (TypeOK /\ vpos = 0 =>
        BlocksRead = 0 /\ ~Drawn /\ AddressOf[0] = field.picture /\ BlockOf[0] = field.list)'
BY AtTop, PTL

\* A field starts at the beginning of its program.
LEMMA IcaFollowed == ASSUME TypeOK, ica_tick PROVE ProgramIsFollowed'
<1> SUFFICES ASSUME field'.whole PROVE BlockFollows' /\ AddressFollows'
  BY DEF ProgramIsFollowed
<1>1. vpos = 0 /\ field'.picture = vsr' /\ field'.list = dca'
  BY DEF ica_tick, FieldStarts
<1>2. vpos' = 0 BY <1>1 DEF ica_tick, configure, Rescaled, vpos
<1>3. /\ BlocksRead' = 0 /\ ~Drawn' /\ AddressOf'[0] = field'.picture
      /\ BlockOf'[0] = field'.list
  BY <1>2, IcaTypes, AtTopNext
<1>4. vsr_pos' = vsr' BY DEF ica_tick, process_ica
<1> QED BY <1>1, <1>3, <1>4 DEF BlockFollows, AddressFollows

\* A line is drawn: the pointer goes past it.
LEMMA ScanFollowed ==
    ASSUME TypeOK, ScanIsAhead, BeamIsMet, ProgramIsFollowed, scan_tick
    PROVE  ProgramIsFollowed'
<1> SUFFICES ASSUME field'.whole, field'.steady, "ica" \notin due'
             PROVE  BlockFollows' /\ AddressFollows'
  BY DEF ProgramIsFollowed
<1>1. /\ UNCHANGED <<field, ntsc, beam, dcr, st, dca, skip>>
      /\ "scan" \in due /\ due' = due \ {"scan"}
  BY DEF scan_tick, Expire, host
<1>2. vpos = scanline /\ beam[2] = 0
  <2>1. timers["scan"] = Start(scanline) /\ vpos = scanline BY <1>1 DEF ScanIsAhead
  <2> QED BY <1>1, <2>1 DEF BeamIsMet, Start
<1>3. BlockOf' = BlockOf /\ AddressOf' = AddressOf BY <1>1, SameProgram
<1>4. \A from, y : Fetched(from, y)' = Fetched(from, y)
  BY <1>1 DEF Fetched, InBorder, ica_height, total_height
<1>5. /\ BlocksRead' = BlocksRead /\ vpos' = vpos /\ ~Drawn
      /\ Drawn' <=> vpos >= ica_height
  BY <1>1, <1>2 DEF BlocksRead, Drawn, Unread, vpos, ica_height
<1>6. BlockFollows /\ AddressFollows BY <1>1 DEF ProgramIsFollowed
<1>7. BlockFollows' BY <1>1, <1>3, <1>5, <1>6 DEF BlockFollows
<1>8. AddressFollows'
  <2> SUFFICES ASSUME ~skip PROVE AddressFollows' BY <1>1 DEF AddressFollows
  <2>1. vsr_pos' = IF vpos >= ica_height THEN Fetched(vsr_pos, vpos) ELSE vsr_pos
    BY <1>2 DEF scan_tick, screen_update
  <2> QED BY <1>1, <1>3, <1>4, <1>5, <1>6, <2>1 DEF AddressFollows
<1> QED BY <1>7, <1>8

\* A block is read: it is that of the line, and may reload the pointer.
LEMMA TickFollowed ==
    ASSUME TypeOK, ScanIsAhead, BeamIsMet, LineIsAhead, DcaIsAhead, ProgramIsFollowed, dca_tick
    PROVE  ProgramIsFollowed'
<1> SUFFICES ASSUME field'.whole, field'.steady, "ica" \notin due'
             PROVE  BlockFollows' /\ AddressFollows'
  BY DEF ProgramIsFollowed
<1>1. /\ UNCHANGED <<field, ntsc, beam, dcr, st, skip>>
      /\ "dca" \in due /\ due' = due \ {"dca"} /\ process_dca
  BY DEF dca_tick, Expire, host
<1>2. vpos >= ica_height /\ beam[2] = 1
  <2>1. PICK y \in ica_height .. total_height - 1 : timers["dca"] = Blank(y)
    BY DEF DcaIsAhead
  <2>2. beam = Blank(y) BY <1>1, <2>1 DEF BeamIsMet
  <2> QED BY <2>2, Geometry DEF vpos, Blank
<1>3. "scan" \notin due
  <2>1. timers["scan"] = Start(scanline) BY <1>1 DEF ScanIsAhead
  <2> QED BY <1>2, <2>1 DEF BeamIsMet, Start
<1> DEFINE k == vpos - ica_height
<1>4. k \in Nat /\ ica_height + k = vpos BY <1>2, Geometry
<1>5. BlocksRead = k /\ Drawn BY <1>1, <1>2, <1>3, Geometry DEF BlocksRead, Drawn, Unread
<1>6. BlocksRead' = k + 1 /\ ~Drawn' 
  <2>1. ~Unread' /\ vpos' = vpos /\ ica_height' = ica_height
    BY <1>1, <1>2 DEF Unread, vpos, ica_height
  <2> QED BY <1>2, <2>1, Geometry DEF BlocksRead, Drawn
<1>7. BlockOf' = BlockOf /\ AddressOf' = AddressOf BY <1>1, SameProgram
<1>8. BlockFollows /\ AddressFollows BY <1>1 DEF ProgramIsFollowed
<1> HIDE DEF k
<1>9. /\ BlockOf[k + 1] = NextBlock(BlockOf[k])
      /\ AddressOf[k + 1] = IF dcr.DCA /\ Dca[BlockOf[k]].vsr # None THEN Dca[BlockOf[k]].vsr
                            ELSE Fetched(AddressOf[k], vpos)
  BY <1>4, Program
<1>10. BlockFollows'
  BY <1>1, <1>5, <1>6, <1>7, <1>8, <1>9 DEF BlockFollows, process_dca
<1>11. AddressFollows'
  <2> SUFFICES ASSUME ~skip PROVE AddressFollows' BY <1>1 DEF AddressFollows
  <2>1. vsr_pos = Fetched(AddressOf[k], vpos) BY <1>5, <1>8 DEF AddressFollows
  <2>2. dcr.DCA => dca = BlockOf[k] BY <1>5, <1>8 DEF BlockFollows
  <2>3. vsr_pos' = AddressOf[k + 1] BY <1>1, <1>9, <2>1, <2>2 DEF process_dca
  <2> QED BY <1>6, <1>7, <2>3 DEF AddressFollows
<1> QED BY <1>10, <1>11

\* The beam moves: a visible line is reached with its drawing due and its block unread.
LEMMA AdvanceFollowed ==
    ASSUME TypeOK, ScanIsAhead, BeamIsMet, LineIsAhead, ProgramIsFollowed, Advance
    PROVE  ProgramIsFollowed'
<1> SUFFICES ASSUME field'.whole, field'.steady, "ica" \notin due'
             PROVE  BlockFollows' /\ AddressFollows'
  BY DEF ProgramIsFollowed
<1>1. /\ UNCHANGED <<field, ntsc, timers, dcr, st, dca, skip, vsr_pos>>
      /\ due = {} /\ beam' = NextPosition
      /\ "dca" \in due' <=> beam' = timers["dca"]
      /\ "ica" \in due' <=> beam' = timers["ica"]
      /\ "scan" \in due' <=> beam' = timers["scan"]
  BY DEF Advance, TypeOK, registers, host
<1>2. ica_height' = ica_height BY <1>1 DEF ica_height
<1>3. timers["dca"] = IF vpos < ica_height THEN Blank(ica_height)
                      ELSE IF beam[2] = 0 THEN Blank(vpos) ELSE NextDcaTick
  BY <1>1 DEF LineIsAhead, Unread
<1>4. timers["scan"] = Start(scanline) /\ timers["ica"] = Start(0) BY <1>1 DEF ScanIsAhead
<1>5. BlockOf' = BlockOf /\ AddressOf' = AddressOf BY <1>1, SameProgram
<1>6. \A from, y : Fetched(from, y)' = Fetched(from, y)
  BY <1>1 DEF Fetched, InBorder, ica_height, total_height
<1>7. BlockFollows /\ AddressFollows BY <1>1 DEF ProgramIsFollowed
<1>8. BlocksRead' = BlocksRead /\ (Drawn' <=> Drawn) /\ (Drawn => vpos' = vpos)
  <2>1. CASE beam[2] = 2
    <3>1. vpos # total_height - 1 BY <1>1, <1>4, <2>1 DEF NextPosition
    <3>2. beam' = Start(vpos + 1) BY <1>1, <2>1, <3>1 DEF NextPosition
    <3>3. vpos' = vpos + 1 /\ Unread' /\ ~Unread
      BY <1>1, <2>1, <3>2 DEF vpos, Start, Unread
    <3>4. vpos' >= ica_height' => "scan" \in due'
      <4>1. vpos < total_height /\ "scan" \notin due /\ "ica" \notin due BY <1>1 DEF ScanIsAhead
      <4>2. vpos + 1 >= ica_height => scanline = vpos + 1
        <5>1. CASE vpos < ica_height
          <6>1. scanline \in vpos + 1 .. ica_height BY <1>1, <4>1, <5>1 DEF ScanIsAhead
          <6> QED BY <5>1, <6>1, Geometry
        <5>2. CASE ~(vpos < ica_height)
          <6>1. vpos \in ica_height .. total_height - 2 BY <3>1, <4>1, <5>2, Geometry
          <6> QED BY <1>1, <4>1, <6>1 DEF ScanIsAhead
        <5> QED BY <5>1, <5>2
      <4> QED BY <1>1, <1>2, <1>4, <3>2, <3>3, <4>2
    <3>5. ~Drawn' /\ ~Drawn BY <3>3, <3>4 DEF Drawn
    <3>6. BlocksRead' = BlocksRead BY <1>2, <3>3, Geometry DEF BlocksRead
    <3> QED BY <3>5, <3>6
  <2>2. CASE beam[2] \in 0 .. 1
    <3>1. beam' = <<vpos, beam[2] + 1>> BY <1>1, <2>2 DEF NextPosition
    <3>2. vpos' = vpos /\ beam'[2] = beam[2] + 1 BY <3>1 DEF vpos
    <3>3. ~(vpos < ica_height) => (Unread' <=> Unread)
      BY <1>1, <1>3, <2>2, <3>1, <3>2 DEF Unread, Blank
    <3>4. "scan" \notin due' /\ "scan" \notin due
      BY <1>1, <1>4, <2>2, <3>2 DEF Start
    <3>5. BlocksRead' = BlocksRead BY <1>2, <3>2, <3>3 DEF BlocksRead
    <3>6. Drawn' <=> Drawn BY <1>2, <3>2, <3>3, <3>4, Geometry DEF Drawn
    <3> QED BY <3>2, <3>5, <3>6
  <2> QED BY <2>1, <2>2, Geometry
<1>9. BlockFollows' BY <1>1, <1>5, <1>7, <1>8 DEF BlockFollows
<1>10. AddressFollows' BY <1>1, <1>5, <1>6, <1>7, <1>8 DEF AddressFollows
<1> QED BY <1>9, <1>10

\* What the frontend does, it does at the top of a field.
LEMMA FrontendFollowed ==
    ASSUME TypeOK, ProgramIsFollowed, PictureIsKept, Frontend PROVE ProgramIsFollowed'
<1>1. /\ UNCHANGED <<registers, raster, due, field>> /\ due = {} /\ frontend
  BY DEF Frontend, retro_unserialize, retro_reset, retro_run, Idle
<1>2. CASE retro_reset
  BY <1>1, <1>2, StillFollowed DEF retro_reset, registers, raster
<1>3. CASE retro_unserialize \/ retro_run
  <2> SUFFICES ASSUME field'.whole, field'.steady PROVE BlockFollows' /\ AddressFollows'
    BY DEF ProgramIsFollowed
  <2>1. beam = Start(0) /\ vsr = field.picture /\ vsr_pos = field.picture
    BY <1>1 DEF PictureIsKept
  <2>2. vpos = 0 BY <2>1 DEF vpos, Start
  <2>3. vsr_pos' = field.picture
    BY <1>3, <2>1 DEF retro_unserialize, retro_run, device_post_load
  <2>4. BlocksRead = 0 /\ ~Drawn /\ AddressOf[0] = field.picture BY <2>2, AtTop
  <2>5. BlockOf' = BlockOf /\ AddressOf' = AddressOf
    BY <1>1, SameProgram DEF registers, raster
  <2>6. BlocksRead' = BlocksRead /\ (Drawn' <=> Drawn)
    BY <1>1 DEF raster, BlocksRead, Drawn, Unread, vpos, ica_height
  <2>7. BlockFollows BY <1>1 DEF ProgramIsFollowed
  <2>8. BlockFollows' BY <1>1, <2>5, <2>6, <2>7 DEF BlockFollows, registers
  <2>9. AddressFollows' BY <2>3, <2>4, <2>5, <2>6 DEF AddressFollows
  <2> QED BY <2>8, <2>9
<1> QED BY <1>2, <1>3 DEF Frontend

\* Nothing moves the pointer between the start of a field and retro_run().
LEMMA NextKept ==
    ASSUME TypeOK, ScanIsAhead, BeamIsMet, PictureIsKept, [Next]_vars
    PROVE  PictureIsKept'
<1> SUFFICES ASSUME frontend', field'.whole, "ica" \notin due'
             PROVE  /\ beam' = Start(0) /\ vsr' = field'.picture
                    /\ vsr_pos' = field'.picture
  BY DEF PictureIsKept, Start
<1>1. CASE vblank_begin
  <2>1. field.whole /\ "vblank" \in due /\ "ica" \notin due BY <1>1 DEF vblank_begin
  <2> QED BY <2>1 DEF ScanIsAhead
<1>2. CASE scan_tick
  <2>1. /\ UNCHANGED <<beam, vsr, field, frontend>> /\ "ica" \notin due
    BY <1>2 DEF scan_tick, Expire, host
  <2>2. beam = Start(0) /\ vsr = field.picture /\ vsr_pos = field.picture
    BY <2>1 DEF PictureIsKept
  <2>3. ~(vpos >= ica_height) BY <2>2, Geometry DEF vpos, Start
  <2>4. vsr_pos' = vsr_pos BY <1>2, <2>3 DEF scan_tick, screen_update
  <2> QED BY <2>1, <2>2, <2>4
<1>3. CASE ica_tick
  <2>1. vpos = 0 /\ field'.picture = vsr' BY <1>3 DEF ica_tick, FieldStarts
  <2>2. vsr_pos' = vsr' BY <1>3 DEF ica_tick, process_ica
  <2>3. beam = timers["ica"] /\ timers["ica"][2] = 0
    BY <1>3 DEF ica_tick, Expire, BeamIsMet
  <2>4. beam = Start(0) BY <2>1, <2>3, Geometry DEF Start
  <2>5. beam' = Start(0) BY <1>3, <2>4 DEF ica_tick, configure, Rescaled, Start
  <2> QED BY <2>1, <2>2, <2>5
<1>4. CASE dca_tick
  <2>1. UNCHANGED <<beam, field, frontend>> /\ "dca" \in due /\ "ica" \notin due
    BY <1>4 DEF dca_tick, Expire, host
  <2>2. beam = Start(0) BY <2>1 DEF PictureIsKept
  <2>3. beam[2] = 1 BY <2>1 DEF BeamIsMet
  <2> QED BY <2>2, <2>3 DEF Start
<1>5. CASE device_reset BY <1>5 DEF device_reset, FieldStarts
<1>6. CASE Advance BY <1>6 DEF Advance, host
<1>7. CASE Guest BY <1>7 DEF Guest, dcr_w, csr1_w, vsr_w, dca_w, Write, host
<1>8. CASE Frontend
  <2>1. UNCHANGED <<beam, vsr, field, due>> /\ frontend
    BY <1>8 DEF Frontend, retro_unserialize, retro_reset, retro_run, Idle, registers, raster
  <2>2. beam = Start(0) /\ vsr = field.picture /\ vsr_pos = field.picture
    BY <2>1 DEF PictureIsKept
  <2>3. vsr_pos' = field.picture
    BY <1>8, <2>2 DEF Frontend, retro_unserialize, retro_reset, retro_run, device_post_load
  <2> QED BY <2>1, <2>2, <2>3
<1>9. CASE UNCHANGED vars
  BY <1>9 DEF vars, registers, raster, host, PictureIsKept
<1> QED BY <1>1, <1>2, <1>3, <1>4, <1>5, <1>6, <1>7, <1>8, <1>9 DEF Next, Timer

\* No field is whole at power on.
LEMMA InitFollowed == Init => Followed
<1> SUFFICES ASSUME Init PROVE Followed OBVIOUS
<1>1. ProgramIsFollowed /\ PictureIsKept BY DEF Init, ProgramIsFollowed, PictureIsKept
<1> QED BY <1>1, InitTypes, InitAhead, InitMet DEF Followed

\* Every step keeps all of it.
LEMMA NextFollowed == ASSUME Followed, [Next]_vars PROVE Followed'
<1> USE DEF Followed
<1>1. TypeOK' /\ ScanIsAhead' BY NextTypes, NextAhead
<1>2. BeamIsMet' /\ DcaIsAhead' /\ LineIsAhead' BY NextMet, NextDca, NextLine
<1>3. PictureIsKept' BY NextKept
<1>4. ProgramIsFollowed'
  <2>1. CASE vblank_begin
    BY <2>1, StillFollowed DEF vblank_begin, registers, raster
  <2>2. CASE scan_tick BY <2>2, ScanFollowed
  <2>3. CASE ica_tick BY <2>3, IcaFollowed
  <2>4. CASE dca_tick BY <2>4, TickFollowed
  <2>5. CASE device_reset BY <2>5 DEF device_reset, FieldStarts, ProgramIsFollowed
  <2>6. CASE Advance BY <2>6, AdvanceFollowed
  <2>7. CASE Guest BY <2>7, GuestFollowed
  <2>8. CASE Frontend BY <2>8, FrontendFollowed
  <2>9. CASE UNCHANGED vars
    BY <2>9, StillFollowed DEF vars, registers, raster, host
  <2> QED BY <2>1, <2>2, <2>3, <2>4, <2>5, <2>6, <2>7, <2>8, <2>9 DEF Next, Timer
<1> QED BY <1>1, <1>2, <1>3, <1>4

\* In a field that starts with its scanline timer in place and that the guest then
\* leaves as it is, every line that is drawn comes from the address that the picture
\* and the DCA of the field's start give it, whatever is written to VSR meanwhile,
\* saved, loaded, or skipped (ica_tick, dca_tick, screen_update and device_post_load of
\* mcd212.cpp); and the status is that of StatusCorrect.
THEOREM FieldCorrect == Spec => []FieldFollowsGuest
<1>1. Followed => FieldFollowsGuest
  <2> SUFFICES ASSUME Followed PROVE FieldFollowsGuest OBVIOUS
  <2> USE DEF Followed
  <2>1. StatusFollowsBeam BY DEF ScanIsAhead, StatusFollowsBeam
  <2>2. LineFollowsProgram
    <3> SUFFICES ASSUME "scan" \in due, "vblank" \notin due, ~skip,
                        field.whole, field.steady, vpos >= ica_height
                 PROVE  vsr_pos = AddressOf[vpos - ica_height]
      BY DEF LineFollowsProgram
    <3>1. "ica" \notin due /\ timers["scan"] = Start(scanline) BY DEF ScanIsAhead
    <3>2. beam[2] = 0 BY <3>1 DEF BeamIsMet, Start
    <3>3. BlocksRead = vpos - ica_height /\ ~Drawn
      BY <3>2, Geometry DEF BlocksRead, Drawn, Unread
    <3> QED BY <3>1, <3>3 DEF ProgramIsFollowed, AddressFollows
  <2> QED BY <2>1, <2>2 DEF FieldFollowsGuest
<1> QED BY <1>1, InitFollowed, NextFollowed, PTL DEF Spec
=============================================================================
