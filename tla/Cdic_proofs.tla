----------------------------- MODULE Cdic_proofs -----------------------------
(***************************************************************************)
(* Proofs about the CD interface controller, for every set of discs,       *)
(* sectors, codings and bounds.                                            *)
(***************************************************************************)
EXTENDS Cdic, TLAPS

\* The last delivered bank is the one DBUF still names, unless the driver has
\* written the bank since; the map's next bank is never the one it last played.
BankInv ==
    /\ NoBankRepeated
    /\ bank_seq.last \in {NoBank, dbuf.bank}

MapInv ==
    /\ NoBufferRepeated
    /\ decoding /\ decode_addr # NoAddr /\ map_seq.last # NoBank
         => decode_addr = Other(map_seq.last)

DriveInv == DriveMatchesEnable /\ ReadsPresentMedium

LEMMA Counts ==
    ASSUME NEW c
    PROVE  get_sector_count_for_coding(c) \in Nat
  BY DEF get_sector_count_for_coding

\* One more bank in a history keeps its type and records a repetition.
LEMMA SeenBank ==
    ASSUME NEW seq \in [last : {0, 1, NoBank}, repeated : BOOLEAN],
           NEW bank \in 0..1
    PROVE  /\ Seen(seq, bank) \in [last : {0, 1, NoBank}, repeated : BOOLEAN]
           /\ Seen(seq, bank).last = bank
           /\ ~seq.repeated /\ seq.last # bank => ~Seen(seq, bank).repeated
  BY DEF Seen

LEMMA OtherBank ==
    ASSUME NEW bank \in 0..1
    PROVE  Other(bank) \in 0..1 /\ Other(bank) # bank /\ Other(Other(bank)) = bank
  BY DEF Other

-----------------------------------------------------------------------------
(* Types. *)

IrqTypeOK ==
    /\ xbuf \in BOOLEAN /\ abuf \in BOOLEAN /\ audctl \in BOOLEAN
    /\ dbuf \in [bank : 0..1, audio : BOOLEAN, enable : BOOLEAN]
    /\ intreq_line \in BOOLEAN

DriveTypeOK ==
    /\ disc_command \in CommandSet /\ disc_mode \in Modes
    /\ spinup \in 0..SpinupTicks /\ curr_lba \in Lbas
    /\ read_medium \in Media \cup {NoDisc}

MapTypeOK ==
    /\ sector_counter \in Nat /\ format_sectors \in Nat
    /\ decoding \in BOOLEAN /\ decode_addr \in {0, 1, NoAddr}
    /\ map_seq \in [last : {0, 1, NoBank}, repeated : BOOLEAN]

LEMMA IrqTypes ==
    ASSUME NEW x \in BOOLEAN, NEW a \in BOOLEAN, NEW z \in BOOLEAN,
           NEW d \in [bank : 0..1, audio : BOOLEAN, enable : BOOLEAN],
           update_interrupt_state(x, d, a, z)
    PROVE  IrqTypeOK' /\ RequestAnnounced'
  BY DEF update_interrupt_state, intreq, IrqTypeOK, RequestAnnounced

LEMMA CancelTypes == cancel_disc_read => DriveTypeOK'
  BY CdicConstants DEF cancel_disc_read, DriveTypeOK, CommandSet, Modes, Lbas

LEMMA InitReadTypes ==
    ASSUME TypeOK, NEW m \in Modes, init_disc_read(m)
    PROVE  DriveTypeOK'
  BY CdicConstants DEF TypeOK, init_disc_read, DriveTypeOK, Lbas

LEMMA SectorTypes ==
    ASSUME TypeOK, NEW s \in Sectors, process_disc_sector(s), UNCHANGED <<regs, cd>>
    PROVE  TypeOK' /\ (RequestAnnounced => RequestAnnounced')
  <1>1. MapTypeOK'
    <2>1. \/ \E n \in Nat : PlayFromDisc(n)
          \/ UNCHANGED map
      BY Counts DEF process_disc_sector
    <2>2. QED
      BY <2>1 DEF PlayFromDisc, map, MapTypeOK, TypeOK
  <1>2. /\ IrqTypeOK' /\ (RequestAnnounced => RequestAnnounced')
        /\ bank_coding' \in [0..1 -> Coding \cup {EndOfMap}]
        /\ bank_seq' \in [last : {0, 1, NoBank}, repeated : BOOLEAN]
    <2>1. CASE process_sector_data(s)
      <3>1. Other(dbuf.bank) \in 0..1
        BY OtherBank DEF TypeOK
      <3>2. s.coding \in Coding
        BY CdicConstants DEF SectorKind
      <3>3. IrqTypeOK' /\ RequestAnnounced'
        BY <2>1, <3>1 DEF process_sector_data, update_interrupt_state, intreq,
           IrqTypeOK, RequestAnnounced, TypeOK, is_mode2_audio_selected
      <3>4. bank_coding' \in [0..1 -> Coding \cup {EndOfMap}]
        BY <2>1, <3>1, <3>2 DEF process_sector_data, TypeOK
      <3>5. bank_seq' \in [last : {0, 1, NoBank}, repeated : BOOLEAN]
        BY <2>1, <3>1, SeenBank DEF process_sector_data, TypeOK
      <3>6. QED
        BY <3>3, <3>4, <3>5
    <2>2. CASE UNCHANGED <<irq, bank_coding, bank_seq>>
      BY <2>2 DEF irq, IrqTypeOK, RequestAnnounced, TypeOK
    <2>3. QED
      BY <2>1, <2>2 DEF process_disc_sector
  <1>3. DriveTypeOK'
    <2>1. CASE cancel_disc_read
      BY <2>1, CancelTypes
    <2>2. CASE /\ curr_lba' = IF curr_lba + 1 = DiscSize THEN 0 ELSE curr_lba + 1
               /\ UNCHANGED <<disc_command, disc_mode, spinup, read_medium>>
      BY <2>2, CdicConstants DEF DriveTypeOK, TypeOK, Lbas
    <2>3. QED
      BY <2>1, <2>2 DEF process_disc_sector
  <1>4. QED
    BY <1>1, <1>2, <1>3 DEF TypeOK, MapTypeOK, IrqTypeOK, DriveTypeOK, regs

\* Every step keeps the types, and leaves the announced request right.
LEMMA NextTypes ==
    ASSUME TypeOK, RequestAnnounced, [Next]_vars
    PROVE  TypeOK' /\ RequestAnnounced'
  <1> USE DEF TypeOK, IrqTypeOK, DriveTypeOK, MapTypeOK
  <1>1. CASE SectorTick
    <2>1. CASE \E s \in Sectors : process_disc_sector(s)
      BY <1>1, <2>1, SectorTypes DEF SectorTick
    <2>2. CASE UNCHANGED <<irq, map, bank_coding, bank_seq>>
      <3>1. DriveTypeOK'
        <4>1. CASE cancel_disc_read
          BY <4>1, CancelTypes
        <4>2. CASE /\ spinup # 0 /\ spinup' = spinup - 1
                   /\ UNCHANGED <<disc_command, disc_mode, curr_lba, read_medium>>
          BY <4>2, CdicConstants
        <4>3. QED
          BY <1>1, <4>1, <4>2, <2>1 DEF SectorTick, process_disc_sector
      <3>2. QED
        BY <1>1, <2>2, <3>1 DEF SectorTick, irq, map, regs, RequestAnnounced
    <2>3. QED
      BY <1>1, <2>1, <2>2 DEF SectorTick
  <1>2. CASE AudioTick
    <2>1. IrqTypeOK' /\ RequestAnnounced'
      <3>1. CASE UNCHANGED irq
        BY <3>1 DEF irq, RequestAnnounced
      <3>2. CASE update_interrupt_state(xbuf, dbuf, TRUE, audctl)
        BY <3>2, IrqTypes
      <3>3. QED
        BY <1>2, <3>1, <3>2 DEF AudioTick, process_audio_map, StopMap, NextBuffer, irq
    <2>2. MapTypeOK'
      <3>1. CASE sector_counter > 1
        BY <1>2, <3>1 DEF AudioTick
      <3>2. CASE sector_counter <= 1 /\ ~decoding
        BY <1>2, <3>2 DEF AudioTick
      <3>3. CASE StopMap
        BY <3>3 DEF StopMap
      <3>4. CASE decode_addr # NoAddr /\ NextBuffer
        <4>1. decode_addr \in 0..1
          BY <3>4
        <4>2. Other(decode_addr) \in 0..1
              /\ Seen(map_seq, decode_addr)
                   \in [last : {0, 1, NoBank}, repeated : BOOLEAN]
          BY <4>1, SeenBank, OtherBank
        <4>3. decode_addr' \in {0, 1, NoAddr} /\ decoding' \in BOOLEAN
              /\ map_seq' \in [last : {0, 1, NoBank}, repeated : BOOLEAN]
          BY <3>4, <4>2 DEF NextBuffer
        <4>4. sector_counter' \in Nat /\ format_sectors' \in Nat
          BY <3>4, Counts DEF NextBuffer
        <4>5. QED
          BY <4>3, <4>4
      <3>5. QED
        BY <1>2, <3>1, <3>2, <3>3, <3>4 DEF AudioTick, process_audio_map
    <2>3. QED
      BY <1>2, <2>1, <2>2 DEF AudioTick, regs, drive
  <1>3. CASE WriteCommand \/ WriteTime
    BY <1>3, CdicConstants DEF WriteCommand, WriteTime, irq, drive, map,
       RequestAnnounced
  <1>4. CASE ReadAbuf \/ ReadXbuf \/ WriteFlags
    <2>1. \E x, a \in BOOLEAN : update_interrupt_state(x, dbuf, a, audctl)
      BY <1>4 DEF ReadAbuf, ReadXbuf, WriteFlags
    <2>2. IrqTypeOK' /\ RequestAnnounced'
      BY <2>1, IrqTypes
    <2>3. UNCHANGED <<regs, drive, map, cd, bank_coding, bank_seq>>
      BY <1>4 DEF ReadAbuf, ReadXbuf, WriteFlags
    <2>4. QED
      BY <2>2, <2>3 DEF regs, drive, map
  <1>5. CASE SetAudctl
    <2>1. PICK run \in BOOLEAN, bank \in 0..1 : WriteAudctl(run, bank)
      BY <1>5, CdicConstants DEF SetAudctl
    <2>2. IrqTypeOK' /\ RequestAnnounced'
      BY <2>1, IrqTypes DEF WriteAudctl, ArmMap
    <2>3. MapTypeOK'
      <3>1. CASE run /\ ~decoding
        BY <2>1, <3>1 DEF WriteAudctl, ArmMap
      <3>2. CASE ~(run /\ ~decoding)
        BY <2>1, <3>2 DEF WriteAudctl, ArmMap, map
      <3>3. QED
        BY <3>1, <3>2
    <2>4. UNCHANGED <<regs, drive, cd, bank_coding, bank_seq>>
      BY <2>1 DEF WriteAudctl, ArmMap
    <2>5. QED
      BY <2>2, <2>3, <2>4 DEF regs, drive
  <1>6. CASE Strobe \/ SetDbuf
    <2>1. PICK strobe \in BOOLEAN, d \in Bufs : WriteDbuf(strobe, d)
      BY <1>6 DEF Strobe, SetDbuf
    <2>2. DriveTypeOK'
      <3>1. CASE cancel_disc_read
        BY <3>1, CancelTypes
      <3>2. CASE handle_cdic_command
        BY <3>2, CancelTypes, InitReadTypes DEF handle_cdic_command, Modes, drive
      <3>3. CASE UNCHANGED drive
        BY <3>3 DEF drive
      <3>4. QED
        BY <2>1, <3>1, <3>2, <3>3 DEF WriteDbuf
    <2>3. IrqTypeOK' /\ RequestAnnounced'
      <3> DEFINE new == [d EXCEPT !.bank = IF strobe THEN dbuf.bank ELSE d.bank]
      <3>1. new \in [bank : 0..1, audio : BOOLEAN, enable : BOOLEAN]
        BY DEF Bufs
      <3>2. update_interrupt_state(xbuf, new, abuf, audctl)
        BY <2>1 DEF WriteDbuf
      <3>3. QED
        BY <3>1, <3>2, IrqTypes
    <2>4. bank_seq' \in [last : {0, 1, NoBank}, repeated : BOOLEAN]
      BY <2>1 DEF WriteDbuf
    <2>5. QED
      BY <2>1, <2>2, <2>3, <2>4 DEF WriteDbuf, regs, map
  <1>7. CASE FillAudioBank
    BY <1>7, CdicConstants DEF FillAudioBank, regs, irq, drive, map,
       RequestAnnounced
  <1>8. CASE media_changed
    <2>1. DriveTypeOK'
      BY <1>8, CancelTypes DEF media_changed
    <2>2. QED
      BY <1>8, <2>1 DEF media_changed, regs, irq, map, RequestAnnounced
  <1>9. CASE device_reset
    <2>1. DriveTypeOK'
      BY <1>9, CancelTypes DEF device_reset
    <2>2. update_interrupt_state(FALSE,
             [bank |-> 0, audio |-> FALSE, enable |-> FALSE], FALSE, FALSE)
      BY <1>9 DEF device_reset
    <2>3. [bank |-> 0, audio |-> FALSE, enable |-> FALSE]
             \in [bank : 0..1, audio : BOOLEAN, enable : BOOLEAN]
      OBVIOUS
    <2>4. IrqTypeOK' /\ RequestAnnounced'
      BY <2>2, <2>3 DEF update_interrupt_state, intreq, RequestAnnounced
    <2>5. /\ command' \in CommandSet /\ time' \in Lbas
      <3>1. "None" \in CommandSet /\ 0 \in Lbas
        BY CdicConstants DEF CommandSet, Lbas
      <3>2. command' = "None" /\ time' = 0
        BY <1>9 DEF device_reset
      <3>3. QED
        BY <3>1, <3>2
    <2>6. /\ decode_addr' = 0 /\ sector_counter' = 0 /\ format_sectors' = 0
          /\ decoding' = FALSE
          /\ UNCHANGED <<cd, bank_coding>>
          /\ bank_seq' \in [last : {0, 1, NoBank}, repeated : BOOLEAN]
          /\ map_seq' \in [last : {0, 1, NoBank}, repeated : BOOLEAN]
      BY <1>9 DEF device_reset
    <2>7. QED
      BY <2>1, <2>4, <2>5, <2>6
  <1>10. CASE UNCHANGED vars
    BY <1>10 DEF vars, regs, irq, drive, map, RequestAnnounced
  <1>11. QED
    BY <1>1, <1>2, <1>3, <1>4, <1>5, <1>6, <1>7, <1>8, <1>9, <1>10 DEF Next
-----------------------------------------------------------------------------
(* The drive: a read implies its enable bit and the medium it began on. *)

\* A cancelled drive satisfies everything that is asked of an idle one.
LEMMA CancelIdle == cancel_disc_read => DriveInv'
  BY DEF cancel_disc_read, DriveInv, DriveMatchesEnable, ReadsPresentMedium

LEMMA NextDrive ==
    ASSUME TypeOK, DriveInv, [Next]_vars
    PROVE  DriveInv'
  <1> USE DEF DriveInv, DriveMatchesEnable, ReadsPresentMedium
  <1>1. CASE SectorTick
    <2>1. disc_command # "None" /\ cd' = cd
      BY <1>1 DEF SectorTick
    <2>2. dbuf' = dbuf \/ dbuf'.enable
      <3>1. CASE UNCHANGED irq
        BY <3>1 DEF irq
      <3>2. CASE \E s \in Sectors : process_sector_data(s)
        BY <3>2 DEF process_sector_data, update_interrupt_state
      <3>3. QED
        BY <1>1, <3>1, <3>2 DEF SectorTick, process_disc_sector, irq
    <2>3. \/ cancel_disc_read
          \/ UNCHANGED <<disc_command, disc_mode, read_medium>>
      BY <1>1 DEF SectorTick, process_disc_sector
    <2>4. CASE UNCHANGED <<disc_command, disc_mode, read_medium>>
      BY <2>1, <2>2, <2>4
    <2>5. QED
      BY <2>3, <2>4, CancelIdle
  <1>2. CASE Strobe \/ SetDbuf
    <2>1. PICK strobe \in BOOLEAN, d \in Bufs : WriteDbuf(strobe, d)
      BY <1>2 DEF Strobe, SetDbuf
    <2>2. dbuf'.enable = d.enable /\ cd' = cd
      BY <2>1 DEF WriteDbuf, update_interrupt_state, Bufs
    <2>3. CASE ~d.enable
      BY <2>1, <2>3, CancelIdle DEF WriteDbuf
    <2>4. CASE d.enable
      <3>1. ASSUME NEW m \in Modes \ {"None"}, init_disc_read(m),
                   command # "None"
            PROVE  DriveInv'
        BY <2>2, <2>4, <3>1 DEF init_disc_read
      <3>2. CASE handle_cdic_command
        <4>1. CASE UNCHANGED drive
          BY <2>2, <2>4, <4>1 DEF drive
        <4>2. CASE cancel_disc_read
          BY <4>2, CancelIdle
        <4>3. QED
          BY <3>1, <3>2, <4>1, <4>2 DEF handle_cdic_command, Modes
      <3>3. CASE UNCHANGED drive
        BY <2>2, <2>4, <3>3 DEF drive
      <3>4. QED
        BY <2>1, <2>4, <3>2, <3>3 DEF WriteDbuf
    <2>5. QED
      BY <2>3, <2>4 DEF Bufs
  <1>3. CASE media_changed \/ device_reset
    BY <1>3, CancelIdle DEF media_changed, device_reset
  <1>4. CASE AudioTick
    BY <1>4 DEF AudioTick, process_audio_map, StopMap, NextBuffer,
       update_interrupt_state, irq, drive
  <1>5. CASE ReadAbuf \/ ReadXbuf \/ WriteFlags
    BY <1>5 DEF ReadAbuf, ReadXbuf, WriteFlags, update_interrupt_state, drive
  <1>6. CASE SetAudctl
    BY <1>6 DEF SetAudctl, WriteAudctl, ArmMap, update_interrupt_state, drive
  <1>7. CASE WriteCommand \/ WriteTime \/ FillAudioBank \/ UNCHANGED vars
    BY <1>7 DEF WriteCommand, WriteTime, FillAudioBank, vars, irq, drive
  <1>8. QED
    BY <1>1, <1>2, <1>3, <1>4, <1>5, <1>6, <1>7 DEF Next

-----------------------------------------------------------------------------
(* The two bank sequences. *)

LEMMA NextBank ==
    ASSUME TypeOK, BankInv, [Next]_vars
    PROVE  BankInv'
  <1> USE DEF BankInv, NoBankRepeated
  <1>1. CASE \E s \in Sectors : process_sector_data(s)
    <2>1. Other(dbuf.bank) \in 0..1 /\ Other(dbuf.bank) # dbuf.bank
          /\ Other(dbuf.bank) # NoBank
      BY OtherBank DEF TypeOK, NoBank
    <2>2. dbuf'.bank = Other(dbuf.bank) /\ bank_seq' = Seen(bank_seq, Other(dbuf.bank))
      BY <1>1 DEF process_sector_data, update_interrupt_state
    <2>3. QED
      BY <2>1, <2>2, SeenBank DEF TypeOK
  <1>2. CASE bank_seq' = bank_seq /\ dbuf'.bank = dbuf.bank
    BY <1>2
  <1>3. CASE bank_seq' = [bank_seq EXCEPT !.last = NoBank]
    BY <1>3 DEF TypeOK
  <1>4. CASE SectorTick
    BY <1>1, <1>2, <1>4 DEF SectorTick, process_disc_sector, irq
  <1>5. CASE Strobe
    <2>1. PICK d \in Bufs : WriteDbuf(TRUE, d)
      BY <1>5 DEF Strobe
    <2>2. dbuf'.bank = dbuf.bank /\ bank_seq' = bank_seq
      BY <2>1 DEF WriteDbuf, update_interrupt_state, Bufs
    <2>3. QED
      BY <1>2, <2>2
  <1>6. CASE SetDbuf \/ device_reset
    BY <1>3, <1>6 DEF SetDbuf, WriteDbuf, device_reset
  <1>7. CASE AudioTick
    BY <1>2, <1>7 DEF AudioTick, process_audio_map, StopMap, NextBuffer,
       update_interrupt_state, irq
  <1>8. CASE ReadAbuf \/ ReadXbuf \/ WriteFlags \/ SetAudctl
    BY <1>2, <1>8 DEF ReadAbuf, ReadXbuf, WriteFlags, SetAudctl, WriteAudctl, ArmMap,
       update_interrupt_state
  <1>9. CASE \/ WriteCommand \/ WriteTime \/ FillAudioBank \/ media_changed
             \/ UNCHANGED vars
    BY <1>2, <1>9 DEF WriteCommand, WriteTime, FillAudioBank, media_changed,
       vars, irq
  <1>10. QED
    BY <1>4, <1>5, <1>6, <1>7, <1>8, <1>9 DEF Next

LEMMA NextMap ==
    ASSUME TypeOK, MapInv, [Next]_vars
    PROVE  MapInv'
  <1> USE DEF MapInv, NoBufferRepeated
  <1>1. CASE UNCHANGED map
    BY <1>1 DEF map
  <1>2. CASE \E n \in Nat : PlayFromDisc(n)
    BY <1>2 DEF PlayFromDisc
  <1>3. CASE SectorTick
    BY <1>1, <1>2, <1>3, Counts DEF SectorTick, process_disc_sector
  <1>4. CASE AudioTick
    <2>1. CASE StopMap
      BY <2>1 DEF StopMap
    <2>2. CASE decoding /\ decode_addr # NoAddr /\ NextBuffer
      <3>1. decode_addr \in 0..1
        BY <2>2 DEF TypeOK
      <3>2. CASE bank_coding[decode_addr] = EndOfMap
        BY <2>2, <3>2 DEF NextBuffer
      <3>3. CASE bank_coding[decode_addr] # EndOfMap
        <4>1. decode_addr' = Other(decode_addr)
              /\ map_seq' = Seen(map_seq, decode_addr)
          BY <2>2, <3>3 DEF NextBuffer
        <4>2. map_seq.last # decode_addr
          BY <2>2, <3>1, OtherBank DEF TypeOK, NoBank, Other
        <4>3. QED
          BY <3>1, <4>1, <4>2, SeenBank DEF TypeOK
      <3>4. QED
        BY <3>2, <3>3
    <2>3. CASE UNCHANGED <<decoding, decode_addr, map_seq>>
      BY <2>3
    <2>4. QED
      BY <1>4, <2>1, <2>2, <2>3 DEF AudioTick, process_audio_map
  <1>5. CASE SetAudctl
    <2>1. PICK run \in AudctlRuns, bank \in 0..1 : WriteAudctl(run, bank)
      BY <1>5 DEF SetAudctl
    <2>2. CASE run /\ ~decoding
      BY <2>1, <2>2 DEF WriteAudctl, ArmMap, TypeOK
    <2>3. QED
      BY <1>1, <2>1, <2>2 DEF WriteAudctl, ArmMap
  <1>6. CASE device_reset
    BY <1>6 DEF device_reset, TypeOK
  <1>7. CASE ReadAbuf \/ ReadXbuf \/ WriteFlags \/ Strobe \/ SetDbuf
    BY <1>1, <1>7 DEF ReadAbuf, ReadXbuf, WriteFlags, Strobe, SetDbuf, WriteDbuf
  <1>8. CASE \/ WriteCommand \/ WriteTime \/ FillAudioBank \/ media_changed
             \/ UNCHANGED vars
    BY <1>1, <1>8 DEF WriteCommand, WriteTime, FillAudioBank, media_changed,
       vars
  <1>9. QED
    BY <1>3, <1>4, <1>5, <1>6, <1>7, <1>8 DEF Next
-----------------------------------------------------------------------------
(* The theorems. *)

IInv == TypeOK /\ RequestAnnounced /\ DriveInv /\ BankInv /\ MapInv

LEMMA InitIInv == Init => IInv
  <1> SUFFICES ASSUME Init
               PROVE  IInv
    OBVIOUS
  <1> USE DEF Init
  <1>1. TypeOK
    <2>1. "None" \in CommandSet /\ "None" \in Modes /\ 0 \in Lbas
          /\ 0 \in 0..SpinupTicks
      BY CdicConstants DEF CommandSet, Modes, Lbas
    <2>2. bank_coding \in [0..1 -> Coding \cup {EndOfMap}]
      BY CdicConstants
    <2>3. /\ dbuf \in [bank : 0..1, audio : BOOLEAN, enable : BOOLEAN]
          /\ bank_seq \in [last : {0, 1, NoBank}, repeated : BOOLEAN]
          /\ map_seq \in [last : {0, 1, NoBank}, repeated : BOOLEAN]
      BY DEF Unseen
    <2>4. QED
      BY <2>1, <2>2, <2>3 DEF TypeOK
  <1>2. RequestAnnounced /\ DriveInv
    BY DEF RequestAnnounced, intreq, DriveInv, DriveMatchesEnable, ReadsPresentMedium
  <1>3. BankInv /\ MapInv
    BY DEF BankInv, MapInv, NoBankRepeated, NoBufferRepeated, Unseen
  <1>4. QED
    BY <1>1, <1>2, <1>3 DEF IInv

LEMMA NextIInv == IInv /\ [Next]_vars => IInv'
  BY NextTypes, NextDrive, NextBank, NextMap DEF IInv

\* The strengthened invariant holds in every reachable state.
THEOREM Inductive == Spec => []IInv
  BY InitIInv, NextIInv, PTL DEF Spec

\* Registers, drive and audio map keep their types.
THEOREM TypeCorrect == Spec => []TypeOK
  <1>1. IInv => TypeOK
    BY DEF IInv
  <1>2. QED
    BY <1>1, Inductive, PTL

\* The level last announced to the board is the one the registers define.
THEOREM RequestCorrect == Spec => []RequestAnnounced
  <1>1. IInv => RequestAnnounced
    BY DEF IInv
  <1>2. QED
    BY <1>1, Inductive, PTL

\* A read is in progress only while the driver has its interrupt enabled, in
\* a mode; an idle drive remembers nothing.
THEOREM DriveCorrect == Spec => []DriveMatchesEnable
  <1>1. IInv => DriveMatchesEnable
    BY DEF IInv, DriveInv
  <1>2. QED
    BY <1>1, Inductive, PTL

\* No read outlives the medium it was started on.
THEOREM MediumCorrect == Spec => []ReadsPresentMedium
  <1>1. IInv => ReadsPresentMedium
    BY DEF IInv, DriveInv
  <1>2. QED
    BY <1>1, Inductive, PTL

\* No two deliveries in a row use the same bank, unless the driver wrote it.
THEOREM BanksAlternate == Spec => []NoBankRepeated
  <1>1. IInv => NoBankRepeated
    BY DEF IInv, BankInv
  <1>2. QED
    BY <1>1, Inductive, PTL

\* From one arming to the next the audio map alternates between its banks.
THEOREM BuffersAlternate == Spec => []NoBufferRepeated
  <1>1. IInv => NoBufferRepeated
    BY DEF IInv, MapInv
  <1>2. QED
    BY <1>1, Inductive, PTL

\* Decoding stops only when the playing buffer is over, the disc takes the
\* output, or the chip is reset.
THEOREM StopIsLate == Spec => StopWaitsForBuffer
  <1>1. TypeOK /\ [Next]_vars
          => [decoding /\ ~decoding' =>
                 sector_counter <= 1 \/ SectorTick \/ device_reset]_vars
    <2> SUFFICES ASSUME TypeOK, Next, decoding, ~decoding', ~SectorTick,
                        ~device_reset
                 PROVE  sector_counter <= 1
      OBVIOUS
    <2>1. CASE AudioTick
      <3>1. ~(sector_counter > 1)
        BY <2>1 DEF AudioTick
      <3>2. sector_counter \in Nat
        BY DEF TypeOK
      <3>3. QED
        BY <3>1, <3>2
    <2>2. CASE SetAudctl
      BY <2>2 DEF SetAudctl, WriteAudctl, ArmMap, map
    <2>3. CASE \/ WriteCommand \/ WriteTime \/ FillAudioBank \/ media_changed
               \/ ReadAbuf \/ ReadXbuf \/ WriteFlags \/ Strobe \/ SetDbuf
      BY <2>3 DEF WriteCommand, WriteTime, FillAudioBank, media_changed, ReadAbuf,
         ReadXbuf, WriteFlags, Strobe, SetDbuf, WriteDbuf, map
    <2>4. QED
      BY <2>1, <2>2, <2>3 DEF Next
  <1>2. QED
    BY <1>1, TypeCorrect, PTL DEF Spec, StopWaitsForBuffer
=============================================================================
