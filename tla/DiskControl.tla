---------------------------- MODULE DiskControl ----------------------------
(***************************************************************************)
(* The disc list and the tray that the core offers a libretro frontend     *)
(* (osd/libretro/libretro-internal/disk_control.h) and the image device    *)
(* behind them.  Indices count from 0 as in the interface; the index equal *)
(* to the length of the list means "no disc".                              *)
(***************************************************************************)
EXTENDS Naturals, Sequences, SequencesExt

CONSTANTS
    Paths,       \* the disc images a list may name
    NoPath,      \* an entry that was added and not yet filled
    NoDisc,      \* an empty drive
    MaxUnsigned  \* the most entries an unsigned can count

ASSUME DiskConstants ==
    /\ NoPath \notin Paths /\ NoDisc \notin Paths
    /\ MaxUnsigned \in Nat \ {0}

VARIABLES
    images,        \* the list
    index,         \* the selected entry
    ejected,       \* is the tray open
    loaded,        \* a game is running
    initial_index, \* the entry the frontend remembers from the last session
    initial_path,  \* and its path, NoPath for none
    mounted        \* the image the drive of the machine holds

list == <<images, index>>
initial == <<initial_index, initial_path>>
vars == <<list, ejected, loaded, initial, mounted>>

Selected == IF index < Len(images) THEN images[index + 1] ELSE NoPath

-----------------------------------------------------------------------------
(* Content. *)

clear ==
    /\ images' = <<>>
    /\ index' = 0
    /\ ejected' = FALSE
    /\ loaded' = FALSE
    /\ initial_index' = 0
    /\ initial_path' = NoPath

set_initial_image(v, path) ==
    /\ ~loaded
    /\ initial_index' = v
    /\ initial_path' = path
    /\ UNCHANGED <<list, ejected, loaded, mounted>>

\* prepare(): the list of the content, at the remembered entry if that entry
\* still names the remembered image.
prepare(content) ==
    /\ images' = content
    /\ index' = IF initial_index < Len(content) /\ content[initial_index + 1] = initial_path
                THEN initial_index ELSE 0
    /\ initial_index' = 0
    /\ initial_path' = NoPath

\* retro_load_game(): the machine comes up with the selected image mounted, or
\* the content is refused.
retro_load_game(content) ==
    /\ ~loaded
    /\ \/ /\ prepare(content)
          /\ ejected' = FALSE
          /\ loaded' = TRUE
          /\ mounted' = images'[index' + 1]
       \/ /\ clear
          /\ mounted' = NoDisc

\* retro_unload_game(), then the machine is taken down.
retro_unload_game ==
    /\ clear
    /\ mounted' = NoDisc

-----------------------------------------------------------------------------
(* The tray. *)

Open ==
    /\ loaded /\ ~ejected
    /\ ejected' = TRUE
    /\ mounted' = NoDisc
    /\ UNCHANGED <<list, loaded, initial>>

\* Mutant: the tray closes whether or not the image could be mounted.
CloseAnyway ==
    /\ loaded /\ ejected
    /\ ejected' = FALSE
    /\ mounted' \in {mounted, IF Selected = NoPath THEN NoDisc ELSE Selected}
    /\ UNCHANGED <<list, loaded, initial>>

\* A list without a selection closes on an empty tray; an image that cannot
\* be mounted leaves the tray open.
Close ==
    /\ loaded /\ ejected
    /\ \/ /\ index >= Len(images)
          /\ ejected' = FALSE
          /\ UNCHANGED mounted
       \/ /\ index < Len(images) /\ Selected # NoPath
          /\ ejected' = FALSE
          /\ mounted' = Selected
       \/ /\ index < Len(images)
          /\ UNCHANGED <<ejected, mounted>>
    /\ UNCHANGED <<list, loaded, initial>>

set_eject_state == Open \/ Close

-----------------------------------------------------------------------------
(* The list. *)

set_image_index(v) ==
    /\ loaded /\ ejected
    /\ index' = IF v < Len(images) THEN v ELSE Len(images)
    /\ UNCHANGED <<images, ejected, loaded, initial, mounted>>

\* replace_image_index() with an image; remove_image is the call without one.
replace_image(v, path) ==
    /\ loaded /\ ejected /\ v < Len(images)
    /\ images' = [images EXCEPT ![v + 1] = path]
    /\ UNCHANGED <<index, ejected, loaded, initial, mounted>>

\* Mutant: the neighbour of a removed entry is selected in its place.
remove_image_neighbour(v) ==
    /\ loaded /\ ejected /\ v < Len(images)
    /\ images' = RemoveAt(images, v + 1)
    /\ index' = IF index > v THEN index - 1 ELSE index
    /\ UNCHANGED <<ejected, loaded, initial, mounted>>

remove_image(v) ==
    /\ loaded /\ ejected /\ v < Len(images)
    /\ images' = RemoveAt(images, v + 1)
    /\ index' = IF index = v THEN Len(images) - 1
                ELSE IF index > v THEN index - 1 ELSE index
    /\ UNCHANGED <<ejected, loaded, initial, mounted>>

add_image_index ==
    /\ loaded /\ Len(images) # MaxUnsigned
    /\ images' = Append(images, NoPath)
    /\ index' = IF index = Len(images) THEN Len(images) + 1 ELSE index
    /\ UNCHANGED <<ejected, loaded, initial, mounted>>

-----------------------------------------------------------------------------
Init ==
    /\ images = <<>> /\ index = 0
    /\ ejected = FALSE /\ loaded = FALSE
    /\ initial_index = 0 /\ initial_path = NoPath
    /\ mounted = NoDisc

Playlists == UNION {[1..n -> Paths] : n \in 1..MaxUnsigned}

Next ==
    \/ \E v \in 0..MaxUnsigned, path \in Paths : set_initial_image(v, path)
    \/ \E content \in Playlists : retro_load_game(content)
    \/ retro_unload_game
    \/ set_eject_state
    \/ \E v \in 0..MaxUnsigned : set_image_index(v)
    \/ \E v \in 0..MaxUnsigned, path \in Paths : replace_image(v, path)
    \/ \E v \in 0..MaxUnsigned : remove_image(v)
    \/ add_image_index

Spec == Init /\ [][Next]_vars

-----------------------------------------------------------------------------
(* Properties. *)

\* Type invariant.  The index never leaves the list by more than the one place
\* that means "no disc", through removals below, at and above it.
TypeOK ==
    /\ images \in Seq(Paths \cup {NoPath}) /\ Len(images) <= MaxUnsigned
    /\ index \in 0..Len(images)
    /\ ejected \in BOOLEAN /\ loaded \in BOOLEAN
    /\ initial_index \in 0..MaxUnsigned
    /\ initial_path \in Paths \cup {NoPath}
    /\ mounted \in Paths \cup {NoDisc}

\* The drive holds what the frontend is shown: nothing while the tray is open,
\* also after an image that failed to mount; the selected image while it is
\* closed, also after the list has been edited around it.
TrayMatchesDrive ==
    loaded => mounted = IF ejected \/ index = Len(images) THEN NoDisc ELSE Selected

\* Editing the list does not change which image is selected: only choosing an
\* index, or replacing or removing the selected entry, does, and removing it
\* selects no disc rather than its neighbour.
SelectionIsKept ==
    [][ loaded /\ loaded' /\ Selected' # Selected
          => \/ \E v \in 0..MaxUnsigned : set_image_index(v)
             \/ \E path \in Paths : replace_image(index, path)
             \/ remove_image(index) /\ index' = Len(images') ]_vars
=============================================================================
