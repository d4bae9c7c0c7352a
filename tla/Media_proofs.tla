--------------------------- MODULE Media_proofs ---------------------------
(***************************************************************************)
(* Proofs about the disc list and the tray, for lists and indices of any   *)
(* length, and about the disc and its observers, for any set of discs.  A  *)
(* step of Media is a step of DiskControl or leaves it alone, so what is   *)
(* proved of the tray in the first half is used in the second.             *)
(***************************************************************************)
EXTENDS Media, SequenceTheorems, TLAPS

-----------------------------------------------------------------------------
(* The disc list and the tray. *)

\* A list loses one entry: those below keep their place, those above move down.
LEMMA Removed ==
    ASSUME NEW S, NEW s \in Seq(S), NEW v \in Nat, v < Len(s)
    PROVE  /\ RemoveAt(s, v + 1) \in Seq(S)
           /\ Len(RemoveAt(s, v + 1)) = Len(s) - 1
           /\ \A i \in 1..(Len(s) - 1) :
                 RemoveAt(s, v + 1)[i] = IF i <= v THEN s[i] ELSE s[i + 1]
  <1>1. PICK low \in Seq(S) :
           low = SubSeq(s, 1, v) /\ Len(low) = v /\ \A i \in 1..v : low[i] = s[i]
    <2>1. /\ SubSeq(s, 1, v) \in Seq(S) /\ Len(SubSeq(s, 1, v)) = v
          /\ \A i \in 1..v : SubSeq(s, 1, v)[i] = s[i]
      OBVIOUS
    <2>2. QED
      BY <2>1, Zenon
  <1>2. PICK high \in Seq(S) :
           /\ high = SubSeq(s, v + 2, Len(s)) /\ Len(high) = Len(s) - 1 - v
           /\ \A i \in 1..(Len(s) - 1 - v) : high[i] = s[v + 1 + i]
    <2>1. /\ SubSeq(s, v + 2, Len(s)) \in Seq(S)
          /\ Len(SubSeq(s, v + 2, Len(s))) = Len(s) - 1 - v
          /\ \A i \in 1..(Len(s) - 1 - v) :
                SubSeq(s, v + 2, Len(s))[i] = s[v + 1 + i]
      OBVIOUS
    <2>2. QED
      BY <2>1, Zenon
  <1>3. RemoveAt(s, v + 1) = low \o high
    <2>1. (v + 1) - 1 = v /\ (v + 1) + 1 = v + 2
      OBVIOUS
    <2>2. RemoveAt(s, v + 1)
            = SubSeq(s, 1, (v + 1) - 1) \o SubSeq(s, (v + 1) + 1, Len(s))
      BY Zenon DEF RemoveAt
    <2>3. QED
      BY <1>1, <1>2, <2>1, <2>2, Zenon
  <1>4. /\ low \o high \in Seq(S) /\ Len(low \o high) = Len(s) - 1
        /\ \A i \in 1..(Len(s) - 1) :
              (low \o high)[i] = IF i <= v THEN low[i] ELSE high[i - v]
    <2>1. /\ low \o high \in Seq(S)
          /\ Len(low \o high) = Len(low) + Len(high)
          /\ \A i \in 1..(Len(low) + Len(high)) : (low \o high)[i] =
                IF i <= Len(low) THEN low[i] ELSE high[i - Len(low)]
      BY ConcatProperties
    <2>2. Len(low) = v /\ Len(low) + Len(high) = Len(s) - 1
      <3>1. Len(s) \in Nat /\ Len(low) = v /\ Len(high) = Len(s) - 1 - v
        BY <1>1, <1>2
      <3>2. QED
        BY <3>1
    <2>3. QED
      BY <2>1, <2>2, Zenon
  <1>5. ASSUME NEW i \in 1..(Len(s) - 1)
        PROVE  (low \o high)[i] = IF i <= v THEN s[i] ELSE s[i + 1]
    <2>0. i \in Nat /\ i >= 1 /\ i <= Len(s) - 1 /\ Len(s) \in Nat
      OBVIOUS
    <2>1. CASE i <= v
      BY <1>1, <1>4, <2>0, <2>1
    <2>2. CASE i > v
      <3>1. (low \o high)[i] = high[i - v]
        BY <1>4, <2>0, <2>2
      <3>2. i - v \in 1..(Len(s) - 1 - v) /\ v + 1 + (i - v) = i + 1
        BY <2>0, <2>2
      <3>3. high[i - v] = s[i + 1]
        BY <1>2, <3>2
      <3>4. QED
        BY <2>0, <2>2, <3>1, <3>3
    <2>3. i <= v \/ i > v
      BY <2>0
    <2>4. QED
      BY <2>1, <2>2, <2>3, Zenon
  <1>6. QED
    BY <1>3, <1>4, <1>5, Zenon

-----------------------------------------------------------------------------
LEMMA NoImages == <<>> \in Seq(Paths \cup {NoPath}) /\ Len(<<>>) = 0
  BY EmptySeq, Zenon

\* The values a player without content returns to.
LEMMA ClearTypes == clear /\ mounted' = NoDisc => TypeOK'
  <1> SUFFICES ASSUME clear, mounted' = NoDisc
               PROVE  TypeOK'
    OBVIOUS
  <1>1. images' \in Seq(Paths \cup {NoPath}) /\ Len(images') = 0
    BY NoImages, Zenon DEF clear
  <1>2. Len(images') <= MaxUnsigned /\ index' \in 0..Len(images')
        /\ initial_index' \in 0..MaxUnsigned
    BY <1>1, DiskConstants DEF clear
  <1>3. ejected' \in BOOLEAN /\ loaded' \in BOOLEAN
        /\ initial_path' \in Paths \cup {NoPath} /\ mounted' \in Paths \cup {NoDisc}
    BY DEF clear
  <1>4. QED
    BY <1>1, <1>2, <1>3 DEF TypeOK

\* The types hold after content is loaded or refused.
LEMMA LoadTypes ==
    ASSUME TypeOK, NEW content \in Playlists, retro_load_game(content)
    PROVE  TypeOK'
  <1>1. PICK n \in 1..MaxUnsigned : content \in [1..n -> Paths]
    BY DEF Playlists
  <1>2. content \in Seq(Paths) /\ Len(content) = n
    BY <1>1, DiskConstants
  <1>3. CASE clear /\ mounted' = NoDisc
    BY <1>3, ClearTypes
  <1>4. CASE prepare(content) /\ ejected' = FALSE /\ loaded' = TRUE
             /\ mounted' = images'[index' + 1]
    <2>1. index' \in 0..(n - 1)
      BY <1>1, <1>2, <1>4, DiskConstants DEF prepare, TypeOK
    <2>2. images' = content /\ images' \in Seq(Paths \cup {NoPath})
      BY <1>1, <1>4, DiskConstants DEF prepare
    <2>3. mounted' \in Paths
      <3>1. index' + 1 \in 1..n
        <4>1. \A k \in 0..(n - 1) : k + 1 \in 1..n
          BY DiskConstants
        <4>2. QED
          BY <2>1, <4>1, Zenon
      <3>2. QED
        BY <1>1, <1>4, <2>2, <3>1
    <2>4. initial_index' = 0 /\ initial_path' = NoPath
      BY <1>4 DEF prepare
    <2>5. QED
      <3>1. Len(images') = n /\ n <= MaxUnsigned /\ index' \in 0..Len(images')
        BY <1>2, <2>1, <2>2, DiskConstants
      <3>2. QED
        <4>1. ejected' \in BOOLEAN /\ loaded' \in BOOLEAN
              /\ mounted' \in Paths \cup {NoDisc}
          BY <1>4, <2>3
        <4>2. initial_index' \in 0..MaxUnsigned
              /\ initial_path' \in Paths \cup {NoPath}
          BY <2>4, DiskConstants
        <4>3. QED
          BY <2>2, <3>1, <4>1, <4>2 DEF TypeOK
  <1>5. QED
    BY <1>3, <1>4 DEF retro_load_game

LEMMA NextTypes ==
    ASSUME TypeOK, [Next]_vars
    PROVE  TypeOK'
  <1>1. ASSUME NEW v \in 0..MaxUnsigned, NEW path \in Paths,
               set_initial_image(v, path)
        PROVE  TypeOK'
    BY <1>1 DEF set_initial_image, TypeOK, list
  <1>2. ASSUME NEW content \in Playlists, retro_load_game(content)
        PROVE  TypeOK'
    BY <1>2, LoadTypes
  <1>3. CASE retro_unload_game
    BY <1>3, ClearTypes DEF retro_unload_game
  <1>4. CASE set_eject_state
    <2>1. index < Len(images) => images[index + 1] \in Paths \cup {NoPath}
      BY DEF TypeOK
    <2>2. mounted' \in Paths \cup {NoDisc} /\ ejected' \in BOOLEAN
      BY <1>4, <2>1 DEF set_eject_state, Open, Close, Selected, TypeOK
    <2>3. UNCHANGED <<images, index, loaded, initial_index, initial_path>>
      BY <1>4 DEF set_eject_state, Open, Close, list, initial
    <2>4. QED
      BY <2>2, <2>3 DEF TypeOK
  <1>5. ASSUME NEW v \in 0..MaxUnsigned, set_image_index(v)
        PROVE  TypeOK'
    BY <1>5, DiskConstants DEF set_image_index, TypeOK, initial
  <1>6. ASSUME NEW v \in 0..MaxUnsigned, NEW path \in Paths,
               replace_image(v, path)
        PROVE  TypeOK'
    <2>1. images' \in Seq(Paths \cup {NoPath}) /\ Len(images') = Len(images)
      BY <1>6 DEF replace_image, TypeOK
    <2>2. QED
      BY <1>6, <2>1 DEF replace_image, TypeOK, initial
  <1>7. ASSUME NEW v \in 0..MaxUnsigned, remove_image(v)
        PROVE  TypeOK'
    <2>1. images' \in Seq(Paths \cup {NoPath}) /\ Len(images') = Len(images) - 1
      BY <1>7, Removed, DiskConstants DEF remove_image, TypeOK
    <2>2. index' \in 0..(Len(images) - 1)
      BY <1>7, DiskConstants DEF remove_image, TypeOK
    <2>3. QED
      BY <1>7, <2>1, <2>2, DiskConstants DEF remove_image, TypeOK, initial
  <1>8. CASE add_image_index
    <2>1. images' \in Seq(Paths \cup {NoPath}) /\ Len(images') = Len(images) + 1
      BY <1>8 DEF add_image_index, TypeOK
    <2>2. QED
      BY <1>8, <2>1, DiskConstants DEF add_image_index, TypeOK, initial
  <1>9. CASE UNCHANGED vars
    BY <1>9 DEF vars, list, initial, TypeOK
  <1>10. QED
    BY <1>1, <1>2, <1>3, <1>4, <1>5, <1>6, <1>7, <1>8, <1>9 DEF Next

-----------------------------------------------------------------------------
(* What the drive holds. *)

LEMMA NextTray ==
    ASSUME TypeOK, TrayMatchesDrive, [Next]_vars
    PROVE  TrayMatchesDrive'
  <1> USE DEF TrayMatchesDrive
  <1>1. ASSUME NEW v \in 0..MaxUnsigned, NEW path \in Paths,
               set_initial_image(v, path)
        PROVE  TrayMatchesDrive'
    BY <1>1 DEF set_initial_image, list, Selected
  <1>2. ASSUME NEW content \in Playlists, retro_load_game(content)
        PROVE  TrayMatchesDrive'
    <2>1. CASE clear
      BY <2>1 DEF clear
    <2>2. CASE prepare(content) /\ ejected' = FALSE /\ mounted' = images'[index' + 1]
      <3>1. PICK n \in 1..MaxUnsigned : content \in [1..n -> Paths]
        BY DEF Playlists
      <3>2. Len(content) = n
        BY <3>1, DiskConstants
      <3>3. images' = content /\ index' < n
        BY <2>2, <3>2, DiskConstants DEF prepare, TypeOK
      <3>4. index' # n
        BY <3>3, <3>2, <2>2, DiskConstants DEF prepare, TypeOK
      <3>5. QED
        BY <2>2, <3>2, <3>3, <3>4 DEF Selected
    <2>3. QED
      BY <1>2, <2>1, <2>2 DEF retro_load_game
  <1>3. CASE retro_unload_game
    BY <1>3 DEF retro_unload_game, clear
  <1>4. CASE set_eject_state
    <2>1. CASE Open
      BY <2>1 DEF Open, list
    <2>2. CASE Close
      <3>1. UNCHANGED <<images, index, loaded>> /\ Selected' = Selected
        BY <2>2 DEF Close, list, Selected
      <3>2. index \in Nat /\ Len(images) \in Nat /\ index <= Len(images)
        BY DEF TypeOK
      <3>3. \/ index = Len(images) /\ ejected' = FALSE /\ mounted' = mounted
            \/ index # Len(images) /\ ejected' = FALSE /\ mounted' = Selected
            \/ UNCHANGED <<ejected, mounted>>
        <4>1. index >= Len(images) => index = Len(images)
          BY <3>2
        <4>2. index < Len(images) => index # Len(images)
          BY <3>2
        <4>3. QED
          BY <2>2, <4>1, <4>2, Zenon DEF Close
      <3>4. loaded /\ ejected
        BY <2>2 DEF Close
      <3>5. QED
        BY <3>1, <3>3, <3>4
    <2>3. QED
      BY <1>4, <2>1, <2>2 DEF set_eject_state
  <1>5. ASSUME NEW v \in 0..MaxUnsigned, set_image_index(v)
        PROVE  TrayMatchesDrive'
    BY <1>5 DEF set_image_index
  <1>6. ASSUME NEW v \in 0..MaxUnsigned, NEW path \in Paths,
               replace_image(v, path)
        PROVE  TrayMatchesDrive'
    BY <1>6 DEF replace_image
  <1>7. ASSUME NEW v \in 0..MaxUnsigned, remove_image(v)
        PROVE  TrayMatchesDrive'
    BY <1>7 DEF remove_image
  <1>8. CASE add_image_index
    <2>1. /\ Len(images') = Len(images) + 1
          /\ \A i \in 1..Len(images) : images'[i] = images[i]
      BY <1>8 DEF add_image_index, TypeOK
    <2>2. CASE index = Len(images)
      BY <1>8, <2>1, <2>2 DEF add_image_index
    <2>3. CASE index # Len(images)
      <3>1. index \in Nat /\ index < Len(images) /\ Len(images) \in Nat
        BY <2>3 DEF TypeOK
      <3>2. Selected' = Selected /\ index' = index /\ index # Len(images')
        BY <1>8, <2>1, <2>3, <3>1 DEF add_image_index, Selected
      <3>3. QED
        BY <1>8, <2>3, <3>2 DEF add_image_index
    <2>4. QED
      BY <2>2, <2>3
  <1>9. CASE UNCHANGED vars
    BY <1>9 DEF vars, list, Selected
  <1>10. QED
    BY <1>1, <1>2, <1>3, <1>4, <1>5, <1>6, <1>7, <1>8, <1>9 DEF Next

-----------------------------------------------------------------------------
(* Which image is selected. *)

LEMMA RemovalKeeps ==
    ASSUME TypeOK, NEW v \in 0..MaxUnsigned, remove_image(v), v # index
    PROVE  Selected' = Selected
  <1>1. v \in Nat /\ v < Len(images) /\ Len(images) \in Nat /\ index \in Nat
        /\ index <= Len(images)
    BY DiskConstants DEF remove_image, TypeOK
  <1>2. /\ Len(images') = Len(images) - 1
        /\ \A i \in 1..(Len(images) - 1) :
              images'[i] = IF i <= v THEN images[i] ELSE images[i + 1]
    BY <1>1, Removed DEF remove_image, TypeOK
  <1>3. index' = IF index > v THEN index - 1 ELSE index
    BY DEF remove_image
  <1>4. CASE index > v /\ index < Len(images)
    <2>1. index' = index - 1 /\ index' < Len(images') /\ index' + 1 = index
      BY <1>1, <1>2, <1>3, <1>4
    <2>2. images'[index] = images[index + 1]
      BY <1>1, <1>2, <1>4
    <2>3. QED
      BY <1>4, <2>1, <2>2 DEF Selected
  <1>5. CASE index > v /\ index = Len(images)
    <2>1. ~(index' < Len(images')) /\ ~(index < Len(images))
      BY <1>1, <1>2, <1>3, <1>5
    <2>2. QED
      BY <2>1 DEF Selected
  <1>6. CASE index < v
    <2>1. index' = index /\ index' < Len(images') /\ index < Len(images)
      BY <1>1, <1>2, <1>3, <1>6
    <2>2. images'[index + 1] = images[index + 1]
      BY <1>1, <1>2, <1>6
    <2>3. QED
      BY <2>1, <2>2 DEF Selected
  <1>7. QED
    BY <1>1, <1>4, <1>5, <1>6

LEMMA SelectionStep ==
    ASSUME TypeOK, Next, loaded, loaded', Selected' # Selected
    PROVE  \/ \E v \in 0..MaxUnsigned : set_image_index(v)
           \/ \E path \in Paths : replace_image(index, path)
           \/ remove_image(index) /\ index' = Len(images')
  <1>1. ASSUME NEW v \in 0..MaxUnsigned, NEW path \in Paths, replace_image(v, path)
        PROVE  replace_image(index, path)
    <2>1. CASE v = index
      BY <1>1, <2>1
    <2>2. CASE v # index
      <3>1. images' = [images EXCEPT ![v + 1] = path] /\ index' = index
        BY <1>1 DEF replace_image
      <3>2. Len(images') = Len(images) /\ images \in Seq(Paths \cup {NoPath}) /\ index \in Nat
            /\ v \in Nat
        BY <3>1, DiskConstants DEF TypeOK
      <3>3. index < Len(images) => images'[index + 1] = images[index + 1]
        BY <2>2, <3>1, <3>2
      <3>4. QED
        BY <3>1, <3>2, <3>3 DEF Selected
    <2>3. QED
      BY <2>1, <2>2
  <1>2. ASSUME NEW v \in 0..MaxUnsigned, remove_image(v)
        PROVE  remove_image(index) /\ index' = Len(images')
    <2>1. v = index
      BY <1>2, RemovalKeeps
    <2>2. v < Len(images) /\ images' = RemoveAt(images, v + 1)
          /\ index' = Len(images) - 1
      BY <1>2, <2>1 DEF remove_image
    <2>3. Len(images') = Len(images) - 1
      BY <2>2, Removed, DiskConstants DEF TypeOK
    <2>4. QED
      BY <1>2, <2>1, <2>2, <2>3
  <1>3. ~add_image_index
    <2> SUFFICES ASSUME add_image_index
                 PROVE  Selected' = Selected
      OBVIOUS
    <2>1. /\ Len(images') = Len(images) + 1
          /\ \A i \in 1..Len(images) : images'[i] = images[i]
      BY DEF add_image_index, TypeOK
    <2>2. index \in Nat /\ Len(images) \in Nat /\ index <= Len(images)
      BY DEF TypeOK
    <2>3. CASE index = Len(images)
      BY <2>1, <2>2, <2>3 DEF add_image_index, Selected
    <2>4. CASE index < Len(images)
      BY <2>1, <2>2, <2>4 DEF add_image_index, Selected
    <2>5. QED
      BY <2>2, <2>3, <2>4
  <1>4. ~set_eject_state
    BY DEF set_eject_state, Open, Close, list, Selected
  <1>5. /\ ~retro_unload_game
        /\ \A content \in Playlists : ~retro_load_game(content)
        /\ \A v \in 0..MaxUnsigned, path \in Paths : ~set_initial_image(v, path)
    BY DEF retro_unload_game, clear, retro_load_game, set_initial_image
  <1>6. QED
    BY <1>1, <1>2, <1>3, <1>4, <1>5 DEF Next

-----------------------------------------------------------------------------
LEMMA InitTypes == Init => TypeOK
  <1> SUFFICES ASSUME Init
               PROVE  TypeOK
    OBVIOUS
  <1>1. images \in Seq(Paths \cup {NoPath}) /\ Len(images) = 0
    BY NoImages, Zenon DEF Init
  <1>2. Len(images) <= MaxUnsigned /\ index \in 0..Len(images)
        /\ initial_index \in 0..MaxUnsigned
    BY <1>1, DiskConstants DEF Init
  <1>3. ejected \in BOOLEAN /\ loaded \in BOOLEAN
        /\ initial_path \in Paths \cup {NoPath} /\ mounted \in Paths \cup {NoDisc}
    BY DEF Init
  <1>4. QED
    BY <1>1, <1>2, <1>3 DEF TypeOK

-----------------------------------------------------------------------------
(* The theorems. *)

\* The list, the index and the tray keep their types; the index stays inside
\* the list or on its "no disc" place.
THEOREM TypeCorrect == Spec => []TypeOK
  BY InitTypes, NextTypes, PTL DEF Spec

\* The drive of the machine holds what the frontend is shown.
THEOREM TrayCorrect == Spec => []TrayMatchesDrive
  <1>1. Init => TrayMatchesDrive
    BY DEF Init, TrayMatchesDrive
  <1>2. TypeOK /\ TrayMatchesDrive /\ [Next]_vars => TrayMatchesDrive'
    BY NextTray
  <1>3. QED
    BY <1>1, <1>2, TypeCorrect, PTL DEF Spec

\* Editing the list never changes the selected image behind the frontend.
THEOREM SelectionCorrect == Spec => SelectionIsKept
  <1>1. TypeOK /\ [Next]_vars =>
          [loaded /\ loaded' /\ Selected' # Selected
             => \/ \E v \in 0..MaxUnsigned : set_image_index(v)
                \/ \E path \in Paths : replace_image(index, path)
                \/ remove_image(index) /\ index' = Len(images')]_vars
    BY SelectionStep
  <1>2. QED
    BY <1>1, TypeCorrect, PTL DEF Spec, SelectionIsKept

-----------------------------------------------------------------------------
(* Media implements DiskControl. *)

LEMMA StepIsTrayStep == [MediaNext]_mediaVars => [Next]_vars
<1> SUFFICES ASSUME MediaNext \/ UNCHANGED mediaVars PROVE Next \/ UNCHANGED vars OBVIOUS
<1>1. CASE Tray BY <1>1 DEF Tray, Next
<1>2. CASE List BY <1>2, Zenon DEF List, Next
<1>3. CASE Game BY <1>3, Zenon DEF Game, Next
<1>4. CASE Reset BY <1>4 DEF Reset
<1>5. CASE disc_status BY <1>5 DEF disc_status
<1>6. CASE slave_r BY <1>6 DEF slave_r
<1>7. CASE init_disc_read BY <1>7 DEF init_disc_read
<1>8. CASE cancel_disc_read BY <1>8 DEF cancel_disc_read
<1>9. CASE process_sector_data BY <1>9 DEF process_sector_data
<1>10. CASE retro_serialize BY <1>10 DEF retro_serialize
<1>11. CASE retro_unserialize BY <1>11 DEF retro_unserialize
<1>12. CASE UNCHANGED mediaVars BY <1>12 DEF mediaVars
<1> QED
  BY <1>1, <1>2, <1>3, <1>4, <1>5, <1>6, <1>7, <1>8, <1>9, <1>10, <1>11, <1>12 DEF MediaNext

\* Every behaviour of the composed system is one of the disc list and the tray,
\* so the theorems about these hold of it.
THEOREM DiskRefined == MediaSpec => Spec
<1>1. MediaInit => Init BY DEF MediaInit
<1> QED BY <1>1, StepIsTrayStep, PTL DEF MediaSpec, Spec

-----------------------------------------------------------------------------
(* Types. *)

LEMMA PacketTypes ==
    ASSUME NEW state, NEW p \in Packets
    PROVE  slave_media_changed(state, p) \in Packets
BY DEF slave_media_changed, Packets

LEMMA NoticeTypes ==
    ASSUME NEW p \in Packets
    PROVE  notify_media_change(p) \in Packets
BY DEF notify_media_change, slave_media_changed, Packets

LEMMA MediaTypes ==
    ASSUME TypeOK, TypeOK', MediaTypeOK, [MediaNext]_mediaVars
    PROVE  MediaTypeOK'
<1> USE DEF Discs
<1>0. NoDisc \in Discs /\ "none" \in Packets BY DEF Packets
<1>1. CASE Tray
  <2>1. /\ UNCHANGED <<banks, guest, saved>> /\ reading' \in SUBSET Paths
        /\ blind' \in BOOLEAN /\ moved' \in BOOLEAN
    BY <1>1 DEF Tray, media_changed, history, MediaTypeOK
  <2>2. packet' \in Packets
    BY <1>1, PacketTypes DEF Tray, media_changed, MediaTypeOK
  <2> QED BY <2>1, <2>2 DEF MediaTypeOK, guest
<1>2. CASE List
  BY <1>2 DEF List, MediaTypeOK, cdic, guest, history
<1>3. CASE Game
  <2>1. /\ reading' = {} /\ banks' = NoDisc /\ packet' = "none"
        /\ known' = NoDisc /\ booting' = TRUE /\ blind' = FALSE /\ moved' = FALSE /\ saved' = saved
    BY <1>3 DEF Game
  <2> QED BY <2>1, <1>0 DEF MediaTypeOK
<1>4. CASE Reset BY <1>4, <1>0 DEF Reset, MediaTypeOK
<1>5. CASE disc_status BY <1>5 DEF disc_status, MediaTypeOK, Packets, cdic, history
<1>6. CASE slave_r
  <2>1. Reread \in Discs BY DEF Reread, TypeOK, MediaTypeOK
  <2>2. known' \in Discs /\ packet' \in Packets /\ booting' \in BOOLEAN /\ moved' \in BOOLEAN
    BY <1>6, <2>1 DEF slave_r, Learns, Packets, MediaTypeOK
  <2> QED BY <1>6, <2>2 DEF slave_r, MediaTypeOK, cdic
<1>7. CASE init_disc_read
  <2>1. {mounted} \in SUBSET Paths BY <1>7 DEF init_disc_read, TypeOK
  <2> QED BY <1>7, <2>1 DEF init_disc_read, MediaTypeOK, guest, history
<1>8. CASE cancel_disc_read BY <1>8 DEF cancel_disc_read, MediaTypeOK, guest, history
<1>9. CASE process_sector_data BY <1>9 DEF process_sector_data, MediaTypeOK, guest, history, TypeOK
<1>10. CASE retro_serialize
  <2> DEFINE s == [reading |-> reading, banks |-> banks, packet |-> packet,
                   known |-> known, booting |-> booting, blind |-> blind, moved |-> moved,
                   media |-> mounted]
  <2>1. mounted \in Discs BY DEF TypeOK
  <2>2. s \in SavedState BY <2>1 DEF SavedState, MediaTypeOK
  <2>3. saved' \in SUBSET SavedState BY <1>10, <2>2 DEF retro_serialize
  <2> QED BY <1>10, <2>3 DEF retro_serialize, MediaTypeOK, cdic, guest, history
<1>11. CASE retro_unserialize
  <2>1. PICK s \in saved, identified \in BOOLEAN, unlike \in BOOLEAN : Restore(s, identified, unlike)
    BY <1>11 DEF retro_unserialize
  <2>2. s \in SavedState BY DEF MediaTypeOK
  <2>3. /\ s.reading \in SUBSET Paths /\ s.banks \in Discs /\ s.packet \in Packets
        /\ s.known \in Discs /\ s.booting \in BOOLEAN /\ s.moved \in BOOLEAN
    BY <2>2 DEF SavedState
  <2>4. reading' \in SUBSET Paths /\ banks' \in Discs /\ known' \in Discs /\ booting' \in BOOLEAN
    BY <2>1, <2>3 DEF Restore
  <2>5. packet' \in Packets BY <2>1, <2>3, NoticeTypes DEF Restore
  <2>6. blind' \in BOOLEAN /\ moved' \in BOOLEAN BY <2>1, <2>3 DEF Restore, Doubtful
  <2>7. saved' = saved BY <1>11 DEF retro_unserialize
  <2> QED BY <2>4, <2>5, <2>6, <2>7 DEF MediaTypeOK
<1>12. CASE UNCHANGED mediaVars BY <1>12 DEF mediaVars, MediaTypeOK, cdic, guest, history
<1> QED
  BY <1>1, <1>2, <1>3, <1>4, <1>5, <1>6, <1>7, <1>8, <1>9, <1>10, <1>11, <1>12 DEF MediaNext

-----------------------------------------------------------------------------
(* What the guest finds out, and what is read. *)

\* The same of the state that was saved, over the disc it was saved with.
SavedIsSound ==
    \A s \in saved : ~s.blind => /\ FindsOut(s.known, s.packet, s.booting, s.media)
                                 /\ s.reading \subseteq {s.media}

\* A guest that relies on the disc k over a drive with d, with the packet p to
\* read, has a reason m: for what it will be told, and if asked could be told.
HasReason(k, p, d, m) ==
    /\ k \notin {NoDisc, d} => m
    /\ p = "removed" /\ k # NoDisc => m

\* No answer to a status command, and no state, may become a false removal.
ReasonInv ==
    /\ loaded => HasReason(known, packet, mounted, moved)
    /\ \A s \in saved : HasReason(s.known, s.packet, s.media, s.moved)

IInv == MediaTypeOK /\ GuestFindsOut /\ ReadsMountedDisc /\ SavedIsSound /\ ReasonInv

\* After a removal the guest finds out about any disc, also about one that is
\* announced behind it.
LEMMA RemovalTells ==
    ASSUME NEW k, NEW b, NEW d, NEW p
    PROVE  /\ FindsOut(k, slave_media_changed(0, p), b, d)
           /\ FindsOut(k, notify_media_change(p), b, d)
BY DEF FindsOut, slave_media_changed, notify_media_change

LEMMA SoundStep ==
    ASSUME TypeOK, TrayMatchesDrive, IInv, [MediaNext]_mediaVars
    PROVE  (GuestFindsOut /\ ReadsMountedDisc /\ SavedIsSound)'
<1> USE DEF IInv
<1>1. CASE Tray
  <2>0. UNCHANGED <<known, booting, saved>> BY <1>1 DEF Tray, guest
  <2>00. loaded' = loaded /\ loaded BY <1>1 DEF Tray, set_eject_state, Open, Close
  <2>1. CASE mounted' = mounted
    <3>1. UNCHANGED <<reading, packet, blind>> BY <1>1, <2>1 DEF Tray, history
    <3> QED BY <2>0, <2>00, <2>1, <3>1 DEF GuestFindsOut, ReadsMountedDisc, SavedIsSound
  <2>2. CASE mounted' # mounted /\ mounted' = NoDisc
    <3>1. reading' = {} /\ packet' = slave_media_changed(0, packet)
      BY <1>1, <2>2 DEF Tray, media_changed
    <3> QED BY <2>0, <3>1, RemovalTells DEF GuestFindsOut, ReadsMountedDisc, SavedIsSound
  <2>3. CASE mounted' # mounted /\ mounted' # NoDisc
    <3>1. reading' = {} /\ packet' = slave_media_changed(1, packet) /\ blind' = blind
      BY <1>1, <2>3 DEF Tray, media_changed, MediaTypeOK
    <3>2. ejected BY <1>1, <2>3 DEF Tray, set_eject_state, Open, Close
    <3>3. mounted = NoDisc BY <2>00, <3>2 DEF TrayMatchesDrive
    <3>4. ~blind => FindsOut(known, packet', booting, mounted')
      BY <2>00, <3>1, <3>3 DEF GuestFindsOut, FindsOut, slave_media_changed
    <3> QED BY <2>0, <2>00, <3>1, <3>4 DEF GuestFindsOut, ReadsMountedDisc, SavedIsSound
  <2> QED BY <2>1, <2>2, <2>3
<1>2. CASE List
  <2>1. UNCHANGED <<mounted, loaded>>
    BY <1>2 DEF List, set_initial_image, set_image_index, replace_image, remove_image, add_image_index
  <2>2. UNCHANGED <<reading, packet, known, booting, saved, blind>> BY <1>2 DEF List, cdic, guest, history
  <2> QED BY <2>1, <2>2 DEF GuestFindsOut, ReadsMountedDisc, SavedIsSound
<1>3. CASE Game
  <2>1. reading' = {} /\ known' = NoDisc /\ booting' = TRUE /\ saved' = saved BY <1>3 DEF Game
  <2> QED BY <2>1 DEF GuestFindsOut, ReadsMountedDisc, SavedIsSound, FindsOut
<1>4. CASE Reset
  BY <1>4 DEF Reset, GuestFindsOut, ReadsMountedDisc, SavedIsSound, FindsOut
<1>5. CASE disc_status
  <2>1. UNCHANGED <<loaded, mounted, reading, known, saved, blind>>
    BY <1>5 DEF disc_status, vars, cdic, history
  <2>2. packet' = IF packet # "none" THEN packet ELSE IF mounted # NoDisc THEN "inserted" ELSE "removed"
    BY <1>5 DEF disc_status
  <2>3. packet \in Packets BY DEF MediaTypeOK
  <2>4. loaded /\ ~blind => FindsOut(known, packet', booting', mounted)
    BY <1>5, <2>2, <2>3 DEF disc_status, GuestFindsOut, FindsOut, Packets
  <2> QED BY <2>1, <2>4 DEF GuestFindsOut, ReadsMountedDisc, SavedIsSound
<1>6. CASE slave_r
  <2>1. UNCHANGED <<loaded, mounted, reading, saved, blind>> BY <1>6 DEF slave_r, vars, cdic
  <2>2. packet \in Packets BY DEF MediaTypeOK
  <2>3. loaded /\ ~blind => FindsOut(known', packet', booting', mounted)
    BY <1>6, <2>2 DEF slave_r, Reread, GuestFindsOut, FindsOut, Packets
  <2> QED BY <2>1, <2>3 DEF GuestFindsOut, ReadsMountedDisc, SavedIsSound
<1>7. CASE init_disc_read
  BY <1>7 DEF init_disc_read, vars, guest, history, GuestFindsOut, ReadsMountedDisc,
                SavedIsSound
<1>8. CASE cancel_disc_read
  BY <1>8 DEF cancel_disc_read, vars, guest, history, GuestFindsOut, ReadsMountedDisc,
                SavedIsSound
<1>9. CASE process_sector_data
  BY <1>9 DEF process_sector_data, vars, guest, history, GuestFindsOut, ReadsMountedDisc,
                SavedIsSound
<1>10. CASE retro_serialize
  <2> DEFINE s == [reading |-> reading, banks |-> banks, packet |-> packet,
                   known |-> known, booting |-> booting, blind |-> blind, moved |-> moved,
                   media |-> mounted]
  <2>1. loaded /\ saved' = {s} BY <1>10 DEF retro_serialize
  <2>2. UNCHANGED <<loaded, mounted, reading, packet, known, booting, blind>>
    BY <1>10 DEF retro_serialize, vars, cdic, guest, history
  <2>3. ~s.blind => FindsOut(s.known, s.packet, s.booting, s.media) /\ s.reading \subseteq {s.media}
    BY <2>1 DEF GuestFindsOut, ReadsMountedDisc
  <2>4. SavedIsSound' BY <2>1, <2>3 DEF SavedIsSound
  <2> QED BY <2>2, <2>4 DEF GuestFindsOut, ReadsMountedDisc
<1>11. CASE retro_unserialize
  <2>1. PICK s \in saved, identified \in BOOLEAN, unlike \in BOOLEAN : Restore(s, identified, unlike)
    BY <1>11 DEF retro_unserialize
  <2>2. UNCHANGED <<loaded, mounted, saved>> BY <1>11 DEF retro_unserialize, vars
  <2>3. CASE MediaMismatch(s, identified, unlike)
    <3>1. reading' = {} /\ packet' = notify_media_change(s.packet) BY <2>1, <2>3 DEF Restore
    <3> QED BY <2>2, <3>1, RemovalTells DEF GuestFindsOut, ReadsMountedDisc, SavedIsSound
  <2>4. CASE ~MediaMismatch(s, identified, unlike)
    <3>1. /\ reading' = s.reading /\ packet' = s.packet
          /\ known' = s.known /\ booting' = s.booting
          /\ ~blind' => ~s.blind /\ (identified \/ s.media = mounted)
      BY <2>1, <2>4 DEF Restore
    <3>2. ~blind' => s.media = mounted BY <2>4, <3>1 DEF MediaMismatch
    <3>3. ~s.blind => FindsOut(s.known, s.packet, s.booting, s.media) /\ s.reading \subseteq {s.media}
      BY DEF SavedIsSound
    <3>4. ~blind' => FindsOut(known', packet', booting', mounted) /\ reading' \subseteq {mounted}
      BY <3>1, <3>2, <3>3
    <3> QED BY <2>2, <3>4 DEF GuestFindsOut, ReadsMountedDisc, SavedIsSound
  <2> QED BY <2>3, <2>4
<1>12. CASE UNCHANGED mediaVars
  BY <1>12 DEF mediaVars, vars, cdic, guest, history, GuestFindsOut, ReadsMountedDisc,
                SavedIsSound
<1> QED
  BY <1>1, <1>2, <1>3, <1>4, <1>5, <1>6, <1>7, <1>8, <1>9, <1>10, <1>11, <1>12 DEF MediaNext

\* Every removal that is announced has a reason: the disc left, or a state was
\* restored over a disc that is not, or not certainly, its own.
LEMMA ReasonStep ==
    ASSUME TypeOK, TrayMatchesDrive, IInv, [MediaNext]_mediaVars
    PROVE  ReasonInv'
<1> USE DEF IInv, ReasonInv
<1>1. CASE Tray
  <2>0. UNCHANGED <<known, saved>> /\ loaded' = loaded /\ loaded
    BY <1>1 DEF Tray, guest, set_eject_state, Open, Close
  <2>1. CASE mounted' = mounted
    <3>1. UNCHANGED <<packet, moved>> BY <1>1, <2>1 DEF Tray, history
    <3> QED BY <2>0, <2>1, <3>1
  <2>2. CASE mounted' # mounted /\ mounted' = NoDisc
    <3>1. moved' = TRUE BY <1>1, <2>2 DEF Tray, media_changed
    <3> QED BY <2>0, <3>1 DEF HasReason
  <2>3. CASE mounted' # mounted /\ mounted' # NoDisc
    <3>1. packet' = slave_media_changed(1, packet) /\ moved' = moved
      BY <1>1, <2>3 DEF Tray, media_changed, MediaTypeOK
    <3>2. ejected BY <1>1, <2>3 DEF Tray, set_eject_state, Open, Close
    <3>3. mounted = NoDisc BY <2>0, <3>2 DEF TrayMatchesDrive
    <3>4. HasReason(known, packet', mounted', moved)
      BY <2>0, <3>1, <3>3 DEF HasReason, slave_media_changed
    <3> QED BY <2>0, <3>1, <3>4
  <2> QED BY <2>1, <2>2, <2>3
<1>2. CASE List
  <2>1. UNCHANGED <<mounted, loaded>>
    BY <1>2 DEF List, set_initial_image, set_image_index, replace_image, remove_image, add_image_index
  <2>2. UNCHANGED <<packet, known, saved, moved>> BY <1>2 DEF List, guest, history
  <2> QED BY <2>1, <2>2
<1>3. CASE Game \/ Reset
  <2>1. known' = NoDisc /\ saved' = saved BY <1>3 DEF Game, Reset
  <2> QED BY <2>1 DEF HasReason
<1>4. CASE disc_status
  <2>1. UNCHANGED <<loaded, mounted, known, saved, moved>> /\ loaded
    BY <1>4 DEF disc_status, vars, history
  <2>2. packet' = IF packet # "none" THEN packet ELSE IF mounted # NoDisc THEN "inserted" ELSE "removed"
    BY <1>4 DEF disc_status
  <2> QED BY <2>1, <2>2 DEF HasReason
<1>5. CASE slave_r
  <2>1. UNCHANGED <<loaded, mounted, saved>> /\ loaded BY <1>5 DEF slave_r, vars
  <2>2. /\ known' = (IF packet = "removed" THEN NoDisc ELSE Reread) /\ packet' # "removed"
        /\ moved' = (moved /\ known' = known)
    BY <1>5 DEF slave_r, Learns
  <2>3. known' \in {NoDisc, mounted} \/ known' = known BY <2>2 DEF Reread
  <2>4. HasReason(known', packet', mounted, moved') BY <2>1, <2>2, <2>3 DEF HasReason
  <2> QED BY <2>1, <2>4
<1>6. CASE init_disc_read \/ cancel_disc_read \/ process_sector_data
  BY <1>6 DEF init_disc_read, cancel_disc_read, process_sector_data, vars, guest, history
<1>7. CASE retro_serialize
  <2> DEFINE s == [reading |-> reading, banks |-> banks, packet |-> packet,
                   known |-> known, booting |-> booting, blind |-> blind, moved |-> moved,
                   media |-> mounted]
  <2>1. loaded /\ saved' = {s} BY <1>7 DEF retro_serialize
  <2>2. UNCHANGED <<loaded, mounted, packet, known, moved>>
    BY <1>7 DEF retro_serialize, vars, guest, history
  <2>3. HasReason(s.known, s.packet, s.media, s.moved) BY <2>1
  <2> QED BY <2>1, <2>2, <2>3
<1>8. CASE retro_unserialize
  <2>1. PICK s \in saved, identified \in BOOLEAN, unlike \in BOOLEAN : Restore(s, identified, unlike)
    BY <1>8 DEF retro_unserialize
  <2>2. UNCHANGED <<loaded, mounted, saved>> BY <1>8 DEF retro_unserialize, vars
  <2>3. HasReason(s.known, s.packet, s.media, s.moved) OBVIOUS
  <2>4. known' = s.known /\ moved' = (s.moved \/ Doubtful(s, identified)) BY <2>1 DEF Restore
  <2>5. CASE Doubtful(s, identified)
    BY <2>2, <2>4, <2>5 DEF HasReason
  <2>6. CASE ~Doubtful(s, identified)
    <3>1. ~MediaMismatch(s, identified, unlike)
      BY <2>6 DEF Doubtful, MediaMismatch, legacy_media_mismatch
    <3>2. packet' = s.packet /\ s.media = mounted BY <2>1, <2>6, <3>1 DEF Restore, Doubtful
    <3> QED BY <2>2, <2>3, <2>4, <3>2 DEF HasReason
  <2> QED BY <2>5, <2>6
<1>9. CASE UNCHANGED mediaVars
  BY <1>9 DEF mediaVars, vars, guest, history
<1> QED
  BY <1>1, <1>2, <1>3, <1>4, <1>5, <1>6, <1>7, <1>8, <1>9 DEF MediaNext

LEMMA InitSound == MediaInit => IInv
BY DEF MediaInit, IInv, MediaTypeOK, GuestFindsOut, ReadsMountedDisc, SavedIsSound, FindsOut,
       ReasonInv, HasReason, Packets, Discs

\* The tray's invariants carry over and make the rest inductive.
LEMMA Invariant == MediaSpec => [](TypeOK /\ IInv)
<1>1. TypeOK /\ TypeOK' /\ TrayMatchesDrive /\ IInv /\ [MediaNext]_mediaVars => IInv'
  BY MediaTypes, SoundStep, ReasonStep DEF IInv
<1> QED BY <1>1, InitSound, DiskRefined, TypeCorrect, TrayCorrect, PTL DEF MediaSpec

-----------------------------------------------------------------------------
(* The theorems. *)

\* The devices, the guest and the save state keep their types.
THEOREM MediaTypeCorrect == MediaSpec => []MediaTypeOK
BY Invariant, PTL DEF IInv

\* For any discs and any list, over any number of states restored in any
\* session, the guest finds out about the disc that is in the drive.
THEOREM FindsOutCorrect == MediaSpec => []GuestFindsOut
BY Invariant, PTL DEF IInv

\* A read never goes on over another disc than the one it was begun on.
THEOREM ReadCorrect == MediaSpec => []ReadsMountedDisc
BY Invariant, PTL DEF IInv

\* A removal is announced only to a guest whose disc left the drive, or whose
\* state was restored over a disc that is not, or not certainly, its own.
THEOREM RemovalIsTrue == MediaSpec => []NoFalseRemoval
<1>1. IInv => NoFalseRemoval BY DEF IInv, ReasonInv, HasReason, NoFalseRemoval
<1> QED BY <1>1, Invariant, PTL
=============================================================================
