------------------------------- MODULE Media -------------------------------
(***************************************************************************)
(* The disc as everybody sees it: the tray and the image device            *)
(* (DiskControl), the CDIC with its read in progress, channel 3 of the     *)
(* SLAVE, the guest that has read a disc's contents into its RAM, and the  *)
(* save states of the frontend, which carry all of it but the disc itself. *)
(***************************************************************************)
EXTENDS DiskControl

VARIABLES
    reading,  \* CDIC: the disc of the read in progress, {} without one
    banks,    \* CDIC: the disc whose sectors fill both data banks, or NoDisc
    packet,   \* SLAVE, channel 3: the disc status packet waiting to be read
    known,    \* guest: the disc whose contents it relies on, or NoDisc
    booting,  \* guest: it has not asked for the disc since the last reset
    saved,    \* a save state, {} before the first
    blind,    \* history: a state without identity hid that the disc differs
    moved     \* history: a disc left the drive since the guest last learnt

cdic == <<reading, banks>>
guest == <<known, booting>>
history == <<blind, moved>>
mediaVars == <<vars, cdic, packet, guest, saved, history>>

Discs == Paths \cup {NoDisc}
Packets == {"none", "removed", "inserted"}

-----------------------------------------------------------------------------
(* A change of medium. *)

\* Mutant: the disc that is in now replaces the packet of the one that left.
slave_media_changed_always(state, p) == IF state = 1 THEN "inserted" ELSE "removed"

\* The SLAVE's callback: a removal waits until the firmware has read it.
slave_media_changed(state, p) ==
    IF state = 0 THEN "removed"
    ELSE IF p = "removed" THEN p ELSE "inserted"

\* notify_media_change(): the callback with 0 and, if a disc is in, with 1.
notify_media_change(p) ==
    LET gone == slave_media_changed(0, p)
    IN IF mounted # NoDisc THEN slave_media_changed(1, gone) ELSE gone

\* Mutant: the CDIC goes on with its read.
media_changed_read_kept(state) ==
    /\ packet' = slave_media_changed(state, packet)
    /\ blind' = (blind /\ state = 1)
    /\ moved' = (moved \/ state = 0)
    /\ UNCHANGED reading

\* The callbacks of the image device: first the CDIC, then the SLAVE.
media_changed(state) ==
    /\ reading' = {}
    /\ packet' = slave_media_changed(state, packet)
    /\ blind' = (blind /\ state = 1)
    /\ moved' = (moved \/ state = 0)

\* set_eject_state() with the callbacks it brings about: call_unload() is
\* reached only with an image loaded, call_load() only for one that opens.
Tray ==
    /\ set_eject_state
    /\ \/ mounted' = mounted /\ UNCHANGED <<reading, packet, history>>
       \/ mounted' # mounted /\ mounted' = NoDisc /\ media_changed(0)
       \/ mounted' # mounted /\ mounted' # NoDisc /\ media_changed(1)
    /\ UNCHANGED <<banks, guest, saved>>

\* Edits of the list, and what the frontend remembers.
List ==
    /\ \/ \E v \in 0..MaxUnsigned, path \in Paths : set_initial_image(v, path)
       \/ \E v \in 0..MaxUnsigned : set_image_index(v)
       \/ \E v \in 0..MaxUnsigned, path \in Paths : replace_image(v, path)
       \/ \E v \in 0..MaxUnsigned : remove_image(v)
       \/ add_image_index
    /\ UNCHANGED <<cdic, packet, guest, saved, history>>

\* A game comes up on a new machine, or is taken down with it.  The image is
\* mounted before the machine runs, so the SLAVE says nothing of it.
Game ==
    /\ (\E content \in Playlists : retro_load_game(content)) \/ retro_unload_game
    /\ reading' = {} /\ banks' = NoDisc
    /\ packet' = "none"
    /\ known' = NoDisc /\ booting' = TRUE
    /\ blind' = FALSE /\ moved' = FALSE
    /\ UNCHANGED saved

Reset ==
    /\ loaded
    /\ reading' = {} /\ packet' = "none"
    /\ known' = NoDisc /\ booting' = TRUE
    /\ blind' = FALSE /\ moved' = FALSE
    /\ UNCHANGED <<vars, banks, saved>>

-----------------------------------------------------------------------------
(* The guest. *)

\* Mutant: the answer to a status command replaces a packet not yet read.
disc_status_always ==
    /\ loaded
    /\ packet' = IF mounted # NoDisc THEN "inserted" ELSE "removed"
    /\ booting' = FALSE
    /\ UNCHANGED <<vars, cdic, known, saved, history>>

\* The disc status command.
disc_status ==
    /\ loaded
    /\ packet' = IF packet # "none" THEN packet
                 ELSE IF mounted # NoDisc THEN "inserted" ELSE "removed"
    /\ booting' = FALSE
    /\ UNCHANGED <<vars, cdic, known, saved, history>>

\* A disc that appears is read if the guest had none; one that it takes for
\* still there is not read again.
Reread == IF known = NoDisc THEN mounted ELSE known

\* The guest that forgets its disc, or reads another, knows of what has moved.
Learns == moved' = (moved /\ known' = known)

\* Mutant: the insertion behind a removal is not reported.
slave_r_unchained ==
    /\ loaded /\ packet # "none"
    /\ known' = IF packet = "removed" THEN NoDisc ELSE Reread
    /\ packet' = "none"
    /\ booting' = FALSE
    /\ Learns
    /\ UNCHANGED <<vars, cdic, saved, blind>>

\* The firmware reads the packet.  A removal makes the guest forget the disc,
\* and is followed by the insertion of the disc that is in by now.
slave_r ==
    /\ loaded /\ packet # "none"
    /\ known' = IF packet = "removed" THEN NoDisc ELSE Reread
    /\ packet' = IF packet = "removed" /\ mounted # NoDisc THEN "inserted" ELSE "none"
    /\ booting' = FALSE
    /\ Learns
    /\ UNCHANGED <<vars, cdic, saved, blind>>

\* A read of the disc; one without a disc goes nowhere and is left out.
init_disc_read ==
    /\ loaded /\ mounted # NoDisc
    /\ reading' = {mounted}
    /\ UNCHANGED <<vars, banks, packet, guest, saved, history>>

cancel_disc_read ==
    /\ loaded
    /\ reading' = {}
    /\ UNCHANGED <<vars, banks, packet, guest, saved, history>>

\* Two sectors from the drive, one for each bank.
process_sector_data ==
    /\ loaded /\ reading # {} /\ mounted # NoDisc
    /\ banks' = mounted
    /\ UNCHANGED <<vars, reading, packet, guest, saved, history>>

-----------------------------------------------------------------------------
(* Save states. *)

retro_serialize ==
    /\ loaded
    /\ saved' = {[reading |-> reading, banks |-> banks, packet |-> packet,
                  known |-> known, booting |-> booting, blind |-> blind, moved |-> moved,
                  media |-> mounted]}
    /\ UNCHANGED <<vars, cdic, packet, guest, history>>

\* legacy_media_mismatch(): two sectors of one disc and none like them on this
\* one are evidence of another disc, unless the discs happen to agree there.
legacy_media_mismatch(s, unlike) ==
    mounted # NoDisc /\ s.banks \notin {NoDisc, mounted} /\ unlike

\* Mutants: an identity is not compared with an empty drive; a state without one
\* always counts as another disc's.
MediaMismatchIfLoaded(s, identified, unlike) ==
    IF identified THEN mounted # NoDisc /\ s.media # mounted
    ELSE legacy_media_mismatch(s, unlike)

MediaMismatchUnlessSure(s, identified, unlike) ==
    IF identified THEN s.media # mounted ELSE TRUE

\* restored(): states of older builds do not identify their disc.
MediaMismatch(s, identified, unlike) ==
    IF identified THEN s.media # mounted ELSE legacy_media_mismatch(s, unlike)

\* The drive does not hold the disc of the state, or nothing shows that it does.
Doubtful(s, identified) ==
    s.media # mounted \/ (~identified /\ s.banks \notin {NoDisc, mounted})

\* The devices and the RAM come back, and a guest whose disc is not the one in
\* the drive is told of a change.
Restore(s, identified, unlike) ==
    LET mismatch == MediaMismatch(s, identified, unlike) IN
    /\ banks' = s.banks
    /\ known' = s.known /\ booting' = s.booting
    /\ reading' = IF mismatch THEN {} ELSE s.reading
    /\ packet' = IF mismatch THEN notify_media_change(s.packet) ELSE s.packet
    /\ blind' = (~mismatch /\ (s.blind \/ (~identified /\ s.media # mounted)))
    /\ moved' = (s.moved \/ Doubtful(s, identified))

retro_unserialize ==
    /\ loaded
    /\ \E s \in saved, identified \in BOOLEAN, unlike \in BOOLEAN : Restore(s, identified, unlike)
    /\ UNCHANGED <<vars, saved>>

-----------------------------------------------------------------------------
MediaInit ==
    /\ Init
    /\ reading = {} /\ banks = NoDisc
    /\ packet = "none"
    /\ known = NoDisc /\ booting = TRUE
    /\ saved = {} /\ blind = FALSE /\ moved = FALSE

MediaNext ==
    \/ Tray \/ List \/ Game \/ Reset
    \/ disc_status \/ slave_r
    \/ init_disc_read \/ cancel_disc_read \/ process_sector_data
    \/ retro_serialize \/ retro_unserialize

MediaSpec == MediaInit /\ [][MediaNext]_mediaVars

-----------------------------------------------------------------------------
(* Properties. *)

SavedState ==
    [reading : SUBSET Paths, banks : Discs, packet : Packets, known : Discs,
     booting : BOOLEAN, blind : BOOLEAN, moved : BOOLEAN, media : Discs]

\* Type invariant of the devices, the guest and the save state.
MediaTypeOK ==
    /\ reading \in SUBSET Paths /\ banks \in Discs
    /\ packet \in Packets
    /\ known \in Discs /\ booting \in BOOLEAN
    /\ saved \in SUBSET SavedState
    /\ blind \in BOOLEAN /\ moved \in BOOLEAN

\* A guest that relies on the disc k, with the packet p to read and b for still
\* booting, finds out about a drive with the disc d: it relies on this one, will
\* read of a removal, or relies on none and will read of an insertion or ask.
FindsOut(k, p, b, d) ==
    \/ p = "removed"
    \/ k = d
    \/ k = NoDisc /\ (p = "inserted" \/ b)

\* The guest never goes on with a disc that is no longer there, nor without the
\* one that is: through swaps while the machine is paused, packets not yet read,
\* resets, and states restored over another disc or in another session.  Only a
\* state of an older build, without evidence in its banks, can hide a change.
GuestFindsOut == loaded /\ ~blind => FindsOut(known, packet, booting, mounted)

\* No read of one disc goes on, or comes back with a state, over another.
ReadsMountedDisc == loaded /\ ~blind => reading \subseteq {mounted}

\* No guest is told that its disc is gone while it has been in the drive all the
\* time: not by run-ahead, which restores a state over its own disc in every frame,
\* not by an answer to its status command nor by a packet from another session.
\* Only a disc that left the drive, a state of another disc, or a state without
\* identity whose banks hold other sectors is a reason.
NoFalseRemoval == loaded /\ packet = "removed" /\ known # NoDisc => moved
=============================================================================
