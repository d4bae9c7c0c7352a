--------------------------- MODULE DvcVideo_proofs ---------------------------
(***************************************************************************)
(* Proofs about DvcVideo, for every stream, command set and bound.         *)
(*                                                                         *)
(* A halt stays in force, the picture buffers fit their dimensions, and a  *)
(* clip that was torn down does not come back: IInv, which holds of the    *)
(* controls, the two buffers and the history alone.                        *)
(*                                                                         *)
(* Frames taken for complete are good, pictures are displayed in order, an *)
(* end is announced, running dry is reported once: VInv, which says where  *)
(* the decoder is in the stream it was given.  Both hold in the running    *)
(* machine and in what a save state carries of it.                         *)
(***************************************************************************)
EXTENDS DvcVideo, SequenceTheorems, WellFoundedInduction, TLAPS


\* The records have the fields the steps update; what is in them is open.
CtlShape(c) ==
    {"dsp_enable", "playback_active", "single_step_pending", "scan", "pausing",
     "start", "pause", "show", "slow_motion"} \subseteq DOMAIN c
HistShape(h) == {"running", "rearmed", "last", "ending"} \subseteq DOMAIN h
PictureShape(p) == {"len", "size", "nr", "cur", "updated"} \subseteq DOMAIN p
ShownShape(s) ==
    {"len", "size", "nr", "cur", "valid", "enabled"} \subseteq DOMAIN s

\* Playback is on, or latched to start, only after a command that starts it.
Control(c, h) ==
    /\ CtlShape(c) /\ HistShape(h)
    /\ c.playback_active \/ c.start > 0 => h.running

\* A buffer fits its dimensions; what it shows or offers is of this clip.
Back(p) == PictureShape(p) /\ p.len = p.size /\ (p.updated => p.cur)
Front(s) == ShownShape(s) /\ s.len = s.size /\ (s.valid => s.cur)

\* The saved number of pixels is 0 unless the picture was valid.
SavedInv ==
    saved # NoState =>
        /\ Control(saved.ctl, saved.hist)
        /\ Back(saved.m_picture)
        /\ Front(saved.shown)
        /\ saved.pixels # 0 => saved.shown.valid

IInv == Control(ctl, hist) /\ Back(m_picture) /\ Front(shown) /\ SavedInv

-----------------------------------------------------------------------------
(* The steps. *)

LEMMA InitIInv == Init => IInv
BY SMT DEF Init, IInv, Control, CtlShape, HistShape, Back, PictureShape, Front,
           ShownShape, SavedInv, CtlInit, HistoryInit, PictureInit, ShownInit

\* Commands change the controls and the history together; only decoder off
\* touches the buffers.
LEMMA CommandControl ==
    ASSUME Control(ctl, hist), write_syscmd
    PROVE  Control(ctl, hist)'
<1>1. CASE play
  BY <1>1, SMT DEF play, Control, CtlShape, HistShape
<1>2. CASE pause
  BY <1>2, SMT DEF pause, Control, CtlShape, HistShape
<1>3. CASE continue
  BY <1>3, SMT DEF continue, Control, CtlShape, HistShape
<1>4. CASE step
  BY <1>4, SMT DEF step, Control, CtlShape, HistShape
<1>5. CASE stop
  BY <1>5, SMT DEF stop, Control, CtlShape, HistShape
<1>6. CASE clear_fifo_cmd
  BY <1>6, SMT DEF clear_fifo_cmd, Control, CtlShape, HistShape
<1>7. CASE dec_on
  BY <1>7, SMT DEF dec_on, Control, CtlShape, HistShape
<1>8. CASE dec_off
  BY <1>8, SMT DEF dec_off, DecOff, Control, CtlShape, HistShape
<1> QED
  BY <1>1, <1>2, <1>3, <1>4, <1>5, <1>6, <1>7, <1>8, Zenon DEF write_syscmd

LEMMA CommandBuffers ==
    ASSUME Back(m_picture), Front(shown), write_syscmd
    PROVE  Back(m_picture)' /\ Front(shown)'
<1>1. CASE dec_off
  BY <1>1, SMT DEF dec_off, DecOff, Disowned, Back, Front, PictureShape, ShownShape
<1>2. CASE UNCHANGED <<m_picture, shown>>
  BY <1>2, SMT DEF Back, Front, PictureShape, ShownShape
<1> QED
  BY <1>1, <1>2, Zenon DEF write_syscmd, play, pause, continue, step, stop,
                           clear_fifo_cmd, dec_on

\* The clock starts playback only if a start was latched.
LEMMA TickedControl ==
    ASSUME Control(ctl, hist)
    PROVE  /\ CtlShape(Ticked)
           /\ Ticked.playback_active \/ Ticked.start > 0 => hist.running
<1>1. /\ CtlShape(Ticked) /\ Ticked.start = Sooner(ctl.start)
      /\ Ticked.playback_active = Playing
  BY SMT DEF Ticked, Control, CtlShape
<1>2. Sooner(ctl.start) > 0 => ctl.start > 0
  BY SMT DEF Sooner
<1>3. StartsNow => ctl.start > 0
  BY SMT DEF StartsNow
<1> QED
  BY <1>1, <1>2, <1>3, Zenon DEF Playing, Control

LEMMA TickControl ==
    ASSUME Control(ctl, hist), dclk_tick
    PROVE  Control(ctl, hist)'
<1>0. CtlShape(Ticked) /\ (Ticked.playback_active \/ Ticked.start > 0 => hist.running)
  BY TickedControl
<1>1. CASE DecoderOff
  BY <1>0, <1>1, Zenon DEF DecoderOff, Control
<1>2. CASE NoPicture
  <2>1. hist'.running = hist.running /\ HistShape(hist')
    BY <1>2, SMT DEF NoPicture, Control, HistShape
  <2> QED
    BY <1>0, <1>2, <2>1, SMT DEF NoPicture, Control, CtlShape, HistShape
<1>3. CASE HoldPicture
  BY <1>0, <1>3, Zenon DEF HoldPicture, Control
<1>4. CASE SkipPicture
  BY <1>0, <1>4, Zenon DEF SkipPicture, Control
<1>5. CASE ShowPicture
  <2>1. hist'.running = hist.running /\ HistShape(hist')
    BY <1>5, SMT DEF ShowPicture, Control, HistShape
  <2>2. /\ CtlShape(ctl')
        /\ ctl'.playback_active = Ticked.playback_active
        /\ ctl'.start = Ticked.start
    BY <1>0, <1>5, SMT DEF ShowPicture, CtlShape
  <2> QED
    BY <1>0, <2>1, <2>2, SMT DEF Control
<1> QED
  BY <1>1, <1>2, <1>3, <1>4, <1>5, Zenon DEF dclk_tick

\* A picture that starts display finds or makes a buffer of its size.
LEMMA TickBuffers ==
    ASSUME Back(m_picture), Front(shown), dclk_tick
    PROVE  Back(m_picture)' /\ Front(shown)'
<1>1. CASE ShowPicture
  BY <1>1, SMT DEF ShowPicture, dclk_tick, Back, Front, PictureShape, ShownShape
<1>2. CASE UNCHANGED <<m_picture, shown>>
  BY <1>2, SMT DEF Back, Front, PictureShape, ShownShape
<1> QED
  BY <1>1, <1>2, Zenon DEF dclk_tick, DecoderOff, NoPicture, HoldPicture, SkipPicture

LEMMA FeedIInv ==
    ASSUME IInv, NEW u, Feed(u)
    PROVE  IInv'
<1>1. /\ CtlShape(ctl') /\ HistShape(hist')
      /\ ctl'.playback_active = ctl.playback_active
      /\ ctl'.start = ctl.start /\ hist'.running = hist.running
  BY SMT DEF Feed, IInv, Control, CtlShape, HistShape
<1>2. Control(ctl, hist)'
  BY <1>1, SMT DEF IInv, Control
<1>3. UNCHANGED <<m_picture, shown, saved>>
  BY DEF Feed
<1> QED
  BY <1>2, <1>3, SMT DEF IInv, Back, Front, PictureShape, ShownShape, SavedInv,
                         Control, CtlShape, HistShape

LEMMA VblankIInv ==
    ASSUME IInv, vblank_update
    PROVE  IInv'
<1>1. Back(m_picture)' /\ Front(shown)'
  BY SMT DEF vblank_update, IInv, Back, Front, PictureShape, ShownShape
<1> QED
  BY <1>1, SMT DEF vblank_update, IInv, SavedInv, Control, CtlShape, HistShape,
                   Back, Front, PictureShape, ShownShape

\* What a state carries is what holds of the machine, and comes back.
LEMMA SaveIInv ==
    ASSUME IInv, device_pre_save
    PROVE  IInv'
<1>1. /\ saved'.ctl = ctl /\ saved'.hist = hist /\ saved'.m_picture = m_picture
      /\ saved'.shown = shown /\ saved'.pixels = Pixels
      /\ UNCHANGED <<ctl, hist, m_picture, shown>>
  BY SMT DEF device_pre_save
<1>2. Pixels # 0 => shown.valid
  BY SMT DEF Pixels
<1> QED
  BY <1>1, <1>2, Zenon DEF IInv, SavedInv

LEMMA LoadIInv ==
    ASSUME IInv, device_post_load
    PROVE  IInv'
<1>1. /\ Control(saved.ctl, saved.hist) /\ Back(saved.m_picture)
      /\ Front(saved.shown) /\ (saved.pixels # 0 => saved.shown.valid)
      /\ saved' = saved /\ ctl' = saved.ctl /\ hist' = saved.hist
  BY Zenon DEF IInv, SavedInv, device_post_load
<1>2. Back(m_picture)'
  <2>1. m_picture' = LoadedPicture(saved.m_picture)
    BY DEF device_post_load
  <2> DEFINE p == saved.m_picture
             refill == p.updated /\ p.size # 0 /\ LoadedVideo.display # None
             q == LoadedPicture(p)
  <2>2. /\ PictureShape(q) /\ q.len = q.size
        /\ q.updated = refill /\ q.cur = IF refill THEN TRUE ELSE p.cur
    BY SMT DEF LoadedPicture, PictureShape
  <2>3. q.updated => q.cur
    <3> HIDE DEF q
    <3> QED
      BY <2>2, Zenon
  <2> QED
    BY <2>1, <2>2, <2>3, Zenon DEF Back
<1>3. Front(shown)'
  <2> DEFINE nr == IF saved.pixels # 0 THEN saved.shown.nr ELSE 0
  <2>1. shown' = [saved.shown EXCEPT !.len = saved.shown.size, !.nr = nr,
                                     !.valid = saved.pixels # 0]
    BY DEF device_post_load
  <2>2. /\ ShownShape(shown') /\ shown'.len = shown'.size
        /\ shown'.valid = (saved.pixels # 0) /\ shown'.cur = saved.shown.cur
    <3> HIDE DEF nr
    <3> QED
      BY <1>1, <2>1, SMT DEF Front, ShownShape
  <2>3. shown'.valid => shown'.cur
    BY <1>1, <2>2, Zenon DEF Front
  <2> QED
    BY <2>2, <2>3, Zenon DEF Front
<1> QED
  BY <1>1, <1>2, <1>3, Zenon DEF IInv, SavedInv

LEMMA ResetIInv ==
    ASSUME IInv, device_reset
    PROVE  IInv'
<1>1. Control(ctl, hist)' /\ Back(m_picture)' /\ Front(shown)'
  BY SMT DEF device_reset, Control, CtlShape, HistShape, Back, PictureShape, Front,
             ShownShape, CtlInit, HistoryInit, PictureInit, ShownInit
<1> QED
  BY <1>1, Zenon DEF IInv, SavedInv, device_reset

LEMMA NextIInv ==
    ASSUME IInv, [Next]_vars
    PROVE  IInv'
<1>1. CASE write_syscmd
  <2>1. saved' = saved
    BY <1>1 DEF write_syscmd
  <2> QED
    BY <1>1, <2>1, CommandControl, CommandBuffers, Zenon DEF IInv, SavedInv
<1>2. CASE WriteDecCmd
  <2>1. Control(ctl, hist)'
    BY <1>2, SMT DEF WriteDecCmd, IInv, Control, CtlShape, HistShape
  <2> QED
    BY <1>2, <2>1, Zenon DEF WriteDecCmd, IInv, SavedInv
<1>3. CASE write_vidcmd
  <2>1. Control(ctl, hist)'
    BY <1>3, SMT DEF write_vidcmd, IInv, Control, CtlShape, HistShape
  <2> QED
    BY <1>3, <2>1, Zenon DEF write_vidcmd, IInv, SavedInv
<1>4. CASE ReadIsr
  BY <1>4, Zenon DEF ReadIsr, IInv, SavedInv
<1>5. CASE FeedSequence \/ FeedAnchor \/ FeedB \/ FeedEnd
  BY <1>5, FeedIInv, Zenon DEF FeedSequence, FeedAnchor, FeedB, FeedEnd
<1>6. CASE dclk_tick
  <2>1. saved' = saved
    BY <1>6 DEF dclk_tick
  <2> QED
    BY <1>6, <2>1, TickControl, TickBuffers, Zenon DEF IInv, SavedInv
<1>7. CASE vblank_update
  BY <1>7, VblankIInv
<1>8. CASE device_reset
  BY <1>8, ResetIInv
<1>9. CASE device_pre_save
  BY <1>9, SaveIInv
<1>10. CASE device_post_load
  BY <1>10, LoadIInv
<1>11. CASE UNCHANGED vars
  BY <1>11, Zenon DEF vars, IInv, SavedInv
<1> QED
  BY <1>1, <1>2, <1>3, <1>4, <1>5, <1>6, <1>7, <1>8, <1>9, <1>10, <1>11, Zenon
     DEF Next

\* The invariant holds in every reachable state.
THEOREM Invariant == Spec => []IInv
BY InitIInv, NextIInv, PTL DEF Spec

-----------------------------------------------------------------------------
(* The properties. *)

\* No start latched before a pause, a stop, a seek or a decoder off comes into
\* force after it, also over save states.
THEOREM HaltCorrect == Spec => []HaltIsKept
<1>1. IInv => HaltIsKept
  BY DEF IInv, Control, HaltIsKept
<1> QED
  BY <1>1, Invariant, PTL

\* Both picture buffers fit their dimensions, for any sizes of pictures and
\* whichever of them a state carries.
THEOREM BuffersCorrect == Spec => []BuffersMatchDimensions
<1>1. IInv => BuffersMatchDimensions
  BY DEF IInv, Back, Front, BuffersMatchDimensions
<1> QED
  BY <1>1, Invariant, PTL

\* No picture of a clip that was torn down is displayed or waits to be.
THEOREM ClipCorrect == Spec => []NoStaleClip
<1>1. IInv => NoStaleClip
  BY DEF IInv, Back, Front, NoStaleClip
<1> QED
  BY <1>1, Invariant, PTL

-----------------------------------------------------------------------------
(* Numbers, and the types of a decoder. *)

\* The order of the natural numbers.
Before == {ss \in Nat \X Nat : ss[1] < ss[2]}

\* A set of natural numbers that is not empty has a least element.
LEMMA Least ==
    ASSUME NEW T, T \subseteq Nat, T # {}
    PROVE  \E x \in T : \A y \in T : x <= y
<1>1. IsWellFoundedOn(Before, Nat)
  BY NatLessThanWellFounded DEF OpToRel, Before
<1>2. \E x \in T : \A y \in T : ~ (<<y, x>> \in Before)
  BY <1>1, WFMin, Zenon
<1>3. PICK x \in T : \A y \in T : ~ (<<y, x>> \in Before)
  BY <1>2, Zenon
<1>4. ASSUME NEW y \in T
      PROVE  x <= y
  <2>1. y \in Nat /\ x \in Nat
    OBVIOUS
  <2>2. <<y, x>> \in Nat \X Nat /\ <<y, x>>[1] = y /\ <<y, x>>[2] = x
    BY <2>1
  <2>3. ~(y < x)
    BY <1>3, <2>2, Zenon DEF Before
  <2> QED
    BY <2>1, <2>3
<1> QED
  BY <1>4

\* One that is bounded has a greatest.
LEMMA Greatest ==
    ASSUME NEW n \in Nat, NEW T, T \subseteq 0..n, T # {}
    PROVE  \E x \in T : \A y \in T : y <= x
<1> DEFINE U == {m \in Nat : \E y \in T : m = n - y}
<1>1. U \subseteq Nat
  BY Zenon
<1>2. U # {}
  <2>1. PICK y \in T : TRUE
    OBVIOUS
  <2>2. y \in 0..n /\ n - y \in Nat
    OBVIOUS
  <2> QED
    BY <2>2, Zenon
<1>3. PICK u \in U : \A v \in U : u <= v
  <2> HIDE DEF U
  <2> QED
    BY <1>1, <1>2, Least
<1>4. PICK x \in T : u = n - x
  BY <1>3
<1>5. ASSUME NEW y \in T
      PROVE  y <= x
  <2>1. y \in 0..n /\ x \in 0..n /\ n - y \in Nat
    OBVIOUS
  <2>2. n - y \in U
    BY <2>1, Zenon
  <2>3. n - x <= n - y
    BY <1>3, <1>4, <2>2, Zenon
  <2> QED
    BY <2>1, <2>3
<1> QED
  BY <1>5

\* Types of pictures.
Types == {"none", "I", "P", "B"}

\* The decoders, and those whose three buffers are distinct.
Decoders ==
    [fifo : Seq(Units(MaxNr)), size : Sizes \cup {0}, ended : BOOLEAN, type : Types,
     frames : [Slots -> Frames(MaxNr)], past : Slots, future : Slots, work : Slots,
     display : Slots \cup {None}]

Decoder(d) ==
    /\ d \in Decoders /\ Len(d.fifo) <= Limit
    /\ {d.past, d.future, d.work} = Slots

\* What is in a decoder.
LEMMA DecoderFields ==
    ASSUME NEW d \in Decoders
    PROVE  /\ d.fifo \in Seq(Units(MaxNr)) /\ Len(d.fifo) \in Nat
           /\ d.size \in Sizes \cup {0} /\ d.size \in Nat /\ d.ended \in BOOLEAN
           /\ d.type \in Types /\ d.frames \in [Slots -> Frames(MaxNr)]
           /\ d.past \in Slots /\ d.future \in Slots /\ d.work \in Slots
           /\ d.display \in Slots \cup {None}
           /\ \A i \in 1..Len(d.fifo) : d.fifo[i] \in Units(MaxNr)
           /\ DOMAIN d.fifo = 1..Len(d.fifo)
<1>1. /\ d.fifo \in Seq(Units(MaxNr)) /\ d.size \in Sizes \cup {0}
      /\ d.ended \in BOOLEAN /\ d.type \in Types /\ d.frames \in [Slots -> Frames(MaxNr)]
      /\ d.past \in Slots /\ d.future \in Slots /\ d.work \in Slots
      /\ d.display \in Slots \cup {None}
  BY Zenon DEF Decoders
<1>2. d.size \in Nat
  <2>1. Sizes \cup {0} \subseteq Nat
    BY VideoConstants
  <2> QED
    BY <1>1, <2>1, Zenon
<1> DEFINE S == Units(MaxNr)
<1>3. /\ Len(d.fifo) \in Nat /\ DOMAIN d.fifo = 1..Len(d.fifo)
      /\ \A i \in 1..Len(d.fifo) : d.fifo[i] \in S
  <2>1. d.fifo \in Seq(S)
    BY <1>1
  <2> HIDE DEF S
  <2> QED
    BY <2>1
<1> QED
  BY <1>1, <1>2, <1>3, Zenon

\* What is in a unit of the stream.
LEMMA UnitFields ==
    ASSUME NEW u \in Units(MaxNr)
    PROVE  /\ u.code \in {"seq", "end", "pic"}
           /\ u.code = "seq" => u.size \in Sizes
           /\ u.code = "pic" => /\ u.type \in {"I", "P", "B"} /\ u.nr \in 0..MaxNr
                                /\ u.fwd \in 0..MaxNr /\ u.bwd \in 0..MaxNr
                                /\ u.needs \in SUBSET {"fwd", "bwd"}
BY SMT DEF Units

\* What the headers before the first picture, n units, make of a decoder.
HeadersOf(d, h, n) ==
    /\ n \in 0..Len(d.fifo)
    /\ h.fifo = SubSeq(d.fifo, n + 1, Len(d.fifo))
    /\ h.ended = (d.ended \/ \E i \in 1..n : d.fifo[i].code = "end")
    /\ h.type = d.type /\ h.past = d.past /\ h.future = d.future /\ h.work = d.work
    /\ \/ h.size = d.size /\ h.frames = d.frames /\ h.display = d.display
       \/ h.size \in Sizes /\ h.frames = [i \in Slots |-> EmptyFrame] /\ h.display = None
    /\ d.size # 0 => \A i \in 1..n : d.fifo[i].code # "pic"
    /\ n < Len(d.fifo) => h.size # 0

\* Sequence headers leave the frames alone, or empty them.
LEMMA SequenceHeadersFields ==
    ASSUME NEW d \in Decoders, NEW n \in 0..Len(d.fifo)
    PROVE  LET h == SequenceHeaders(d, n) IN
           /\ h \in Decoders
           /\ h.ended = d.ended /\ h.fifo = d.fifo
           /\ h.type = d.type /\ h.past = d.past /\ h.future = d.future /\ h.work = d.work
           /\ \/ h.size = d.size /\ h.frames = d.frames /\ h.display = d.display
              \/ h.size \in Sizes /\ h.frames = [i \in Slots |-> EmptyFrame] /\ h.display = None
           /\ (d.size # 0 \/ \E i \in 1..n : d.fifo[i].code = "seq") => h.size # 0
<1> DEFINE seqs == {i \in 1..n : d.fifo[i].code = "seq"}
           last == CHOOSE i \in seqs : \A j \in seqs : j <= i
<1>1. ASSUME NEW i \in seqs
      PROVE  d.fifo[i].size \in Sizes
  BY DecoderFields, UnitFields
<1>2. CASE \E i \in seqs : d.fifo[i].size # d.size
  <2>1. last \in seqs
    <3>1. seqs \subseteq 0..Len(d.fifo) /\ seqs # {} /\ Len(d.fifo) \in Nat
      BY <1>2, DecoderFields
    <3>2. \E x \in seqs : \A y \in seqs : y <= x
      <4> HIDE DEF seqs
      <4> QED
        BY <3>1, Greatest
    <3> HIDE DEF seqs
    <3> QED
      BY <3>2
  <2>2. d.fifo[last].size \in Sizes
    <3> HIDE DEF last
    <3> QED
      BY <1>1, <2>1, Zenon
  <2> DEFINE size == d.fifo[last].size
  <2>3. SequenceHeaders(d, n) = allocate_frames(d, size)
    BY <1>2, Zenon DEF SequenceHeaders
  <2> HIDE DEF size
  <2>4. EmptyFrame \in Frames(MaxNr)
    BY DvcVideoConstants, SMT DEF EmptyFrame, Frames
  <2>5. size \in Sizes /\ size # 0
    BY <2>2, VideoConstants DEF size
  <2>6. [i \in Slots |-> EmptyFrame] \in [Slots -> Frames(MaxNr)]
    BY <2>4
  <2> DEFINE empty == [i \in Slots |-> EmptyFrame]
  <2>7. allocate_frames(d, size)
          = [d EXCEPT !.size = size, !.frames = empty, !.display = None]
    BY DEF allocate_frames
  <2> HIDE DEF empty
  <2>8. empty \in [Slots -> Frames(MaxNr)]
    BY <2>6 DEF empty
  <2>9. LET h == allocate_frames(d, size) IN
        /\ h \in Decoders
        /\ h.ended = d.ended /\ h.fifo = d.fifo
        /\ h.type = d.type /\ h.past = d.past /\ h.future = d.future /\ h.work = d.work
        /\ h.size = size /\ h.frames = empty /\ h.display = None
    <3> DEFINE h == [d EXCEPT !.size = size, !.frames = empty, !.display = None]
    <3>1. h \in Decoders
      BY <2>5, <2>8, Zenon DEF Decoders
    <3>2. /\ h.ended = d.ended /\ h.fifo = d.fifo
          /\ h.type = d.type /\ h.past = d.past /\ h.future = d.future /\ h.work = d.work
          /\ h.size = size /\ h.frames = empty /\ h.display = None
      BY SMT DEF Decoders
    <3> QED
      BY <2>7, <3>1, <3>2, Zenon
  <2> QED
    BY <2>3, <2>5, <2>9, Zenon DEF empty
<1>3. CASE ~ \E i \in seqs : d.fifo[i].size # d.size
  <2>1. SequenceHeaders(d, n) = d
    BY <1>3, Zenon DEF SequenceHeaders
  <2>2. (\E i \in 1..n : d.fifo[i].code = "seq") => d.size # 0
    BY <1>1, <1>3, VideoConstants
  <2> QED
    BY <2>1, <2>2, Zenon
<1> QED
  BY <1>2, <1>3, Zenon

\* The units before a picture are found and read.
LEMMA HeadersFields ==
    ASSUME NEW d, Decoder(d)
    PROVE  Decoder(Headers(d)) /\ \E n \in 0..Len(d.fifo) : HeadersOf(d, Headers(d), n)
<1>0. d \in Decoders /\ Len(d.fifo) <= Limit /\ Len(d.fifo) \in Nat /\ Limit \in Nat
  BY DecoderFields, VideoConstants, Zenon DEF Decoder
<1> DEFINE Stops(k) == StopsAt(d, k) /\ \A j \in 0..(k - 1) : ~StopsAt(d, j)
           n == CHOOSE k \in 0..Len(d.fifo) : Stops(k)
           s == SequenceHeaders(d, n)
           ended == d.ended \/ \E i \in 1..n : d.fifo[i].code = "end"
           fifo == SubSeq(d.fifo, n + 1, Len(d.fifo))
           h == Headers(d)
<1>1. n \in 0..Len(d.fifo) /\ Stops(n)
  <2> DEFINE T == {k \in 0..Len(d.fifo) : StopsAt(d, k)}
  <2>1. T \subseteq Nat
    BY <1>0
  <2>2. T # {}
    BY <1>0 DEF StopsAt
  <2>3. PICK k \in T : \A j \in T : k <= j
    <3> HIDE DEF T
    <3> QED
      BY <2>1, <2>2, Least
  <2>4. ASSUME NEW j \in 0..(k - 1)
        PROVE  ~StopsAt(d, j)
    <3>1. j \in 0..Len(d.fifo) /\ ~(k <= j)
      BY <1>0
    <3> QED
      BY <2>3, <3>1, Zenon
  <2>5. k \in 0..Len(d.fifo) /\ Stops(k)
    BY <2>4
  <2> HIDE DEF Stops
  <2> QED
    BY <2>5, Zenon
<1>2. /\ s \in Decoders /\ s.ended = d.ended /\ s.fifo = d.fifo
      /\ s.type = d.type /\ s.past = d.past /\ s.future = d.future /\ s.work = d.work
      /\ \/ s.size = d.size /\ s.frames = d.frames /\ s.display = d.display
         \/ s.size \in Sizes /\ s.frames = [i \in Slots |-> EmptyFrame] /\ s.display = None
      /\ (d.size # 0 \/ \E i \in 1..n : d.fifo[i].code = "seq") => s.size # 0
  <2> HIDE DEF n
  <2> QED
    BY <1>0, <1>1, SequenceHeadersFields, Zenon
<1>3. h = [s EXCEPT !.ended = ended, !.fifo = fifo]
  <2>1. h = [s EXCEPT !.ended = @ \/ \E i \in 1..n : d.fifo[i].code = "end", !.fifo = fifo]
    BY Zenon DEF Headers
  <2> HIDE DEF n, s
  <2> QED
    BY <1>2, <2>1, SMT DEF Decoders
<1>4. ended \in BOOLEAN /\ fifo \in Seq(Units(MaxNr)) /\ Len(fifo) <= Limit
  <2>1. ended \in BOOLEAN
    OBVIOUS
  <2> DEFINE U == Units(MaxNr)
  <2>2. d.fifo \in Seq(U) /\ n \in 0..Len(d.fifo) /\ Len(d.fifo) \in Nat
    BY <1>0, <1>1, DecoderFields
  <2> HIDE DEF n, U
  <2>3. fifo \in Seq(U) /\ Len(fifo) = Len(d.fifo) - n
    BY <2>2
  <2> QED
    BY <1>0, <2>1, <2>2, <2>3 DEF U
<1> HIDE DEF n, s, ended, fifo, h
<1>5. h \in Decoders
  BY <1>2, <1>3, <1>4, Zenon DEF Decoders
<1>6. /\ h.ended = ended /\ h.fifo = fifo /\ h.size = s.size /\ h.frames = s.frames
      /\ h.display = s.display /\ h.type = s.type /\ h.past = s.past
      /\ h.future = s.future /\ h.work = s.work
  BY <1>2, <1>3, SMT DEF Decoders
<1>7. Decoder(h)
  BY <1>2, <1>4, <1>5, <1>6, Zenon DEF Decoder
<1>8. d.size # 0 => \A i \in 1..n : d.fifo[i].code # "pic"
  <2> SUFFICES ASSUME d.size # 0, NEW i \in 1..n
               PROVE  d.fifo[i].code # "pic"
    OBVIOUS
  <2>1. i - 1 \in 0..(n - 1) /\ (i - 1) + 1 = i
    BY <1>0, <1>1
  <2>2. ~StopsAt(d, i - 1)
    BY <1>1, <2>1
  <2> QED
    BY <2>1, <2>2 DEF StopsAt, HasSequenceAt
<1>9. n < Len(d.fifo) => h.size # 0
  <2> SUFFICES ASSUME n < Len(d.fifo)
               PROVE  s.size # 0
    BY <1>6
  <2>1. n # Len(d.fifo)
    BY <1>0, <1>1
  <2> QED
    BY <1>1, <1>2, <2>1, Zenon DEF StopsAt, HasSequenceAt
<1>10. HeadersOf(d, h, n)
  BY <1>1, <1>2, <1>6, <1>8, <1>9, Zenon DEF HeadersOf, ended, fifo
<1> QED
  BY <1>1, <1>7, <1>10, Zenon DEF h

\* What decoding the picture at the head of its FIFO makes of a decoder.
PictureOf(h, d) ==
    LET u == h.fifo[1]
        frames == [h.frames EXCEPT ![h.work] = Decoded(h, u)]
    IN  /\ d.fifo = Tail(h.fifo) /\ d.frames = frames
        /\ d.size = h.size /\ d.ended = h.ended /\ d.type = u.type
        /\ u.type = "B" => /\ d.past = h.past /\ d.future = h.future /\ d.work = h.work
                           /\ d.display = IF frames[h.work].valid THEN h.work ELSE None
        /\ u.type # "B" => /\ d.past = h.future /\ d.future = h.work /\ d.work = h.past
                           /\ d.display = IF frames[h.future].valid THEN h.future ELSE None

\* The work buffer holds a frame after a picture was decoded.
LEMMA DecodedType ==
    ASSUME NEW h \in Decoders, NEW u \in Units(MaxNr), u.code = "pic"
    PROVE  Decoded(h, u) \in Frames(MaxNr)
<1>1. u.nr \in 0..MaxNr /\ u.type \in {"I", "P", "B"}
  BY UnitFields
<1>2. ForwardRef(h, u.type) \in Slots /\ h.future \in Slots /\ h.frames \in [Slots -> Frames(MaxNr)]
  BY DecoderFields, Zenon DEF ForwardRef
<1> DEFINE fwd == h.frames[ForwardRef(h, u.type)]
           bwd == h.frames[h.future]
<1>3. fwd \in Frames(MaxNr) /\ bwd \in Frames(MaxNr)
  BY <1>2
<1>4. fwd.valid \in BOOLEAN /\ bwd.valid \in BOOLEAN
  BY <1>3, Zenon DEF Frames
<1> DEFINE valid == ("fwd" \in u.needs => fwd.valid) /\ ("bwd" \in u.needs => bwd.valid)
           good == /\ "fwd" \in u.needs => fwd.good /\ fwd.nr = u.fwd
                   /\ "bwd" \in u.needs => bwd.good /\ bwd.nr = u.bwd
<1>5. Decoded(h, u) = [nr |-> u.nr, type |-> u.type, valid |-> valid, good |-> good]
  BY Zenon DEF Decoded
<1>6. valid \in BOOLEAN /\ good \in BOOLEAN
  OBVIOUS
<1>7. u.type \in {"none", "I", "P", "B"}
  BY <1>1
<1> HIDE DEF valid, good
<1> QED
  BY <1>1, <1>5, <1>6, <1>7, SMT DEF Frames

\* A picture that is complete is decoded.
LEMMA PictureFields ==
    ASSUME NEW h, Decoder(h), Complete(h.fifo)
    PROVE  LET d == [decode_picture(h, h.fifo[1]) EXCEPT !.fifo = Tail(@)] IN
           Decoder(d) /\ PictureOf(h, d)
<1> DEFINE u == h.fifo[1]
           frames == [h.frames EXCEPT ![h.work] = Decoded(h, u)]
           visible(slot) == IF frames[slot].valid THEN slot ELSE None
           b == u.type = "B"
           p == decode_picture(h, u)
           d == [p EXCEPT !.fifo = Tail(@)]
           past == IF b THEN h.past ELSE h.future
           future == IF b THEN h.future ELSE h.work
           work == IF b THEN h.work ELSE h.past
           display == IF b THEN visible(h.work) ELSE visible(h.future)
<1>1. /\ h \in Decoders /\ h.fifo \in Seq(Units(MaxNr)) /\ Len(h.fifo) >= 2
      /\ Len(h.fifo) <= Limit /\ u \in Units(MaxNr) /\ u.code = "pic"
      /\ h.past \in Slots /\ h.future \in Slots /\ h.work \in Slots
      /\ h.frames \in [Slots -> Frames(MaxNr)]
  <2>1. h \in Decoders /\ Len(h.fifo) <= Limit /\ Len(h.fifo) >= 2 /\ h.fifo[1].code = "pic"
    BY Zenon DEF Decoder, Complete
  <2>2. 1 \in 1..Len(h.fifo)
    BY <2>1, DecoderFields
  <2> QED
    BY <2>1, <2>2, DecoderFields, Zenon
<1>2. u.type \in {"I", "P", "B"}
  BY <1>1, UnitFields, Zenon
<1>3. frames \in [Slots -> Frames(MaxNr)]
  BY <1>1, DecodedType, Zenon
<1>4. ASSUME NEW slot \in Slots
      PROVE  visible(slot) \in Slots \cup {None}
  BY Zenon
<1>5. past \in Slots /\ future \in Slots /\ work \in Slots /\ display \in Slots \cup {None}
  BY <1>1, <1>4, Zenon
<1>6. {past, future, work} = Slots
  <2>1. {h.past, h.future, h.work} = Slots
    BY DEF Decoder
  <2> QED
    BY <2>1
<1>7. u.type \in Types
  BY <1>2 DEF Types
<1>8. /\ p \in Decoders /\ p.fifo = h.fifo /\ p.frames = frames /\ p.type = u.type
      /\ p.size = h.size /\ p.ended = h.ended /\ p.past = past /\ p.future = future
      /\ p.work = work /\ p.display = display
  <2>1. CASE b
    <3>1. p = [h EXCEPT !.frames = frames, !.type = u.type, !.display = visible(h.work)]
      BY <2>1, Zenon DEF decode_picture
    <3>2. past = h.past /\ future = h.future /\ work = h.work /\ display = visible(h.work)
      BY <2>1
    <3> HIDE DEF p, u, frames, visible, past, future, work, display
    <3>3. p \in Decoders
      BY <1>1, <1>3, <1>5, <1>7, <3>1, <3>2, Zenon DEF Decoders
    <3> QED
      BY <1>1, <3>1, <3>2, <3>3, SMT DEF Decoders
  <2>2. CASE ~b
    <3>1. p = [h EXCEPT !.frames = frames, !.type = u.type, !.past = h.future,
                        !.future = h.work, !.work = h.past, !.display = visible(h.future)]
      BY <2>2, Zenon DEF decode_picture
    <3>2. past = h.future /\ future = h.work /\ work = h.past /\ display = visible(h.future)
      BY <2>2
    <3> HIDE DEF p, u, frames, visible, past, future, work, display
    <3>3. p \in Decoders
      BY <1>1, <1>3, <1>5, <1>7, <3>1, <3>2, Zenon DEF Decoders
    <3> QED
      BY <1>1, <3>1, <3>2, <3>3, SMT DEF Decoders
  <2> QED
    BY <2>1, <2>2
<1>9. Tail(h.fifo) \in Seq(Units(MaxNr)) /\ Len(Tail(h.fifo)) <= Limit
  <2> DEFINE U == Units(MaxNr)
  <2>1. h.fifo \in Seq(U) /\ h.fifo # <<>> /\ Len(h.fifo) \in Nat /\ Limit \in Nat
    BY <1>1, VideoConstants
  <2> HIDE DEF U
  <2>2. Tail(h.fifo) \in Seq(U) /\ Len(Tail(h.fifo)) = Len(h.fifo) - 1
    BY <2>1
  <2> QED
    BY <1>1, <2>1, <2>2 DEF U
<1>10. /\ d \in Decoders /\ d.fifo = Tail(h.fifo) /\ d.frames = frames /\ d.type = u.type
       /\ d.size = h.size /\ d.ended = h.ended /\ d.past = past /\ d.future = future
       /\ d.work = work /\ d.display = display
  <2> HIDE DEF p, u, frames, past, future, work, display
  <2>1. d = [p EXCEPT !.fifo = Tail(h.fifo)]
    BY <1>8
  <2> HIDE DEF d
  <2>2. d \in Decoders
    BY <1>8, <1>9, <2>1, Zenon DEF Decoders
  <2> QED
    BY <1>8, <2>1, <2>2, SMT DEF Decoders
<1>11. Decoder(d)
  <2> HIDE DEF d, past, future, work, display
  <2> QED
    BY <1>6, <1>9, <1>10, Zenon DEF Decoder
<1>12. PictureOf(h, d)
  <2> HIDE DEF d
  <2> QED
    BY <1>10, Zenon DEF PictureOf
<1> QED
  BY <1>11, <1>12, Zenon

\* What decode() makes of a decoder.
LEMMA DecodeFields ==
    ASSUME NEW d, Decoder(d)
    PROVE  LET h == Headers(d)
               r == decode(d)
           IN  /\ Decoder(h) /\ Decoder(r.d) /\ r.got \in BOOLEAN
               /\ \E n \in 0..Len(d.fifo) : HeadersOf(d, h, n)
               /\ ~r.got => r.d = h
               /\ r.got => Complete(h.fifo) /\ PictureOf(h, r.d)
<1> DEFINE h == Headers(d)
           p == [decode_picture(h, h.fifo[1]) EXCEPT !.fifo = Tail(@)]
<1>1. Decoder(h) /\ \E n \in 0..Len(d.fifo) : HeadersOf(d, h, n)
  BY HeadersFields, Zenon
<1>2. decode(d) = IF Complete(h.fifo) THEN [d |-> p, got |-> TRUE] ELSE [d |-> h, got |-> FALSE]
  BY Zenon DEF decode
<1>3. Complete(h.fifo) => Decoder(p) /\ PictureOf(h, p)
  BY <1>1, PictureFields, Zenon
<1> HIDE DEF h, p
<1>4. CASE Complete(h.fifo)
  <2>1. decode(d).d = p /\ decode(d).got = TRUE
    BY <1>2, <1>4
  <2> QED
    BY <1>1, <1>3, <1>4, <2>1, Zenon DEF h
<1>5. CASE ~Complete(h.fifo)
  <2>1. decode(d).d = h /\ decode(d).got = FALSE
    BY <1>2, <1>5
  <2> QED
    BY <1>1, <2>1, Zenon DEF h
<1> QED
  BY <1>4, <1>5

-----------------------------------------------------------------------------
(* The stream, and what it makes of the decoder. *)

\* Where the stream stands in display order: the two anchors pictures refer to,
\* and the last picture that is displayed for what came so far.
Contexts ==
    {c \in [before : 0..MaxNr, anchor : 0..MaxNr, done : (-1)..MaxNr] : c.done < c.anchor}

SourceContext(s) == [before |-> s.before, anchor |-> s.anchor, done |-> s.anchor - s.owed - 1]

UnitContext(u) ==
    [before |-> u.fwd,
     anchor |-> IF u.type = "B" THEN u.bwd ELSE u.nr,
     done |-> IF u.type = "B" THEN u.nr ELSE u.fwd]

\* Picture u may follow where the stream stands at c.
Continues(c, u) ==
    IF u.type = "B"
    THEN u.fwd = c.before /\ u.bwd = c.anchor /\ c.done < u.nr /\ u.nr < c.anchor
    ELSE u.fwd = c.anchor /\ u.fwd < u.nr /\ "bwd" \notin u.needs

\* context[i] is where the stream stands after the first i units of a FIFO, and
\* the disc goes on from the last.
Stream(fifo, s, context) ==
    /\ context \in [0..Len(fifo) -> Contexts]
    /\ context[Len(fifo)] = SourceContext(s)
    /\ \A i \in 1..Len(fifo) :
          IF fifo[i].code = "pic"
          THEN Continues(context[i - 1], fifo[i]) /\ context[i] = UnitContext(fifo[i])
          ELSE context[i] = context[i - 1]

\* Valid frames are good, and the references are the anchors of c.
Fits(d, c) ==
    /\ \A i \in Slots : d.frames[i].valid => d.frames[i].good /\ d.size # 0
    /\ d.frames[d.past].valid => d.frames[d.past].nr = c.before
    /\ d.frames[d.future].valid => d.frames[d.future].nr = c.anchor

\* What was displayed last comes before all that follows; "waits": a picture
\* was decoded and is not displayed yet.
Ordered(d, waits, last, c) ==
    /\ last = 0 \/ last <= c.done
    /\ waits /\ d.display # None =>
          /\ d.frames[d.display].nr <= c.done
          /\ last = 0 \/ last < d.frames[d.display].nr

Following(d, s, waits, last) ==
    \E context \in [0..Len(d.fifo) -> Contexts] :
        /\ Stream(d.fifo, s, context)
        /\ Fits(d, context[0])
        /\ Ordered(d, waits, last, context[0])

\* What is in a context.
LEMMA ContextFields ==
    ASSUME NEW c \in Contexts
    PROVE  /\ c.before \in 0..MaxNr /\ c.anchor \in 0..MaxNr
           /\ c.done \in (-1)..MaxNr /\ c.done < c.anchor
BY SMT DEF Contexts

\* A stream goes on in display order: what is displayed last for its first n
\* units is not before what was displayed at its start.
LEMMA Grows ==
    ASSUME NEW fifo \in Seq(Units(MaxNr)), NEW s, NEW context, Stream(fifo, s, context),
           NEW n \in 0..Len(fifo)
    PROVE  /\ context[0].done <= context[n].done
           /\ (\A i \in 1..n : fifo[i].code # "pic") => context[n] = context[0]
<1> DEFINE P(k) == /\ context[0].done <= context[k].done
                   /\ (\A i \in 1..k : fifo[i].code # "pic") => context[k] = context[0]
           T == {k \in 0..Len(fifo) : ~P(k)}
<1>0. Len(fifo) \in Nat /\ \A k \in 0..Len(fifo) : context[k] \in Contexts
  <2>1. Len(fifo) \in Nat
    OBVIOUS
  <2> QED
    BY <2>1, Zenon DEF Stream
<1>1. ASSUME T # {}
      PROVE  FALSE
  <2>1. T \subseteq Nat
    BY <1>0
  <2>2. PICK k \in T : \A j \in T : k <= j
    <3> HIDE DEF T
    <3> QED
      BY <1>1, <2>1, Least
  <2>3. k \in 0..Len(fifo) /\ ~P(k)
    OBVIOUS
  <2>4. k # 0
    <3>1. context[0].done \in Int
      BY <1>0, ContextFields
    <3>2. context[0].done <= context[0].done
      BY <3>1
    <3> QED
      BY <2>3, <3>2, Zenon
  <2>5. k - 1 \in 0..Len(fifo) /\ ~(k <= k - 1) /\ k \in 1..Len(fifo)
    BY <1>0, <2>3, <2>4
  <2>6. P(k - 1)
    <3> HIDE DEF P
    <3>1. k - 1 \notin T
      <4> HIDE DEF T
      <4> QED
        BY <2>2, <2>5, Zenon
    <3> QED
      BY <2>5, <3>1, Zenon
  <2>7. /\ context[0] \in Contexts /\ context[k] \in Contexts /\ context[k - 1] \in Contexts
    BY <1>0, <2>5
  <2>8. CASE fifo[k].code # "pic"
    <3>1. context[k] = context[k - 1]
      BY <2>5, <2>8, Zenon DEF Stream
    <3>2. (\A i \in 1..k : fifo[i].code # "pic") => \A i \in 1..(k - 1) : fifo[i].code # "pic"
      <4>1. 1..(k - 1) \subseteq 1..k
        BY <1>0, <2>5
      <4> QED
        BY <4>1, Zenon
    <3> QED
      BY <2>3, <2>6, <3>1, <3>2, Zenon
  <2>9. CASE fifo[k].code = "pic"
    <3>1. Continues(context[k - 1], fifo[k]) /\ context[k] = UnitContext(fifo[k])
      BY <2>5, <2>9, Zenon DEF Stream
    <3> DEFINE u == fifo[k]
               c == context[k - 1]
    <3>2. /\ u.type = "B" => context[k].done = u.nr
          /\ u.type # "B" => context[k].done = u.fwd
      BY <3>1 DEF UnitContext
    <3>3. c.done <= context[k].done
      <4>1. c.done \in Int /\ c.anchor \in Int /\ c.done < c.anchor /\ u.nr \in Int
        <5>1. u \in Units(MaxNr)
          <6> DEFINE U == Units(MaxNr)
          <6>1. fifo \in Seq(U)
            OBVIOUS
          <6> HIDE DEF U
          <6>2. u \in U
            BY <2>5, <6>1
          <6> QED
            BY <6>2 DEF U
        <5>2. u.nr \in 0..MaxNr
          BY <2>9, <5>1, UnitFields
        <5> QED
          BY <2>7, <5>2, ContextFields, DvcVideoConstants
      <4>2. CASE u.type = "B"
        <5>1. c.done < u.nr
          BY <3>1, <4>2, Zenon DEF Continues
        <5> HIDE DEF c, u
        <5> QED
          BY <3>2, <4>1, <4>2, <5>1
      <4>3. CASE u.type # "B"
        <5>1. u.fwd = c.anchor
          BY <3>1, <4>3, Zenon DEF Continues
        <5> HIDE DEF c, u
        <5> QED
          BY <3>2, <4>1, <4>3, <5>1
      <4> QED
        BY <4>2, <4>3
    <3>4. context[0].done <= context[k].done
      <4>1. context[0].done \in Int /\ c.done \in Int /\ context[k].done \in Int
        BY <2>7, ContextFields
      <4>2. context[0].done <= c.done
        BY <2>6, Zenon
      <4> HIDE DEF c
      <4> QED
        BY <3>3, <4>1, <4>2
    <3>5. k \in 1..k
      BY <2>5
    <3> QED
      BY <2>3, <2>9, <3>4, <3>5, Zenon
  <2> QED
    BY <2>8, <2>9
<1> QED
  BY <1>1

\* A stream whose first n units are gone.
LEMMA Dropped ==
    ASSUME NEW fifo \in Seq(Units(MaxNr)), NEW s, NEW context, Stream(fifo, s, context),
           NEW n \in 0..Len(fifo),
           NEW rest, rest = SubSeq(fifo, n + 1, Len(fifo)),
           NEW later, later = [i \in 0..Len(rest) |-> context[i + n]]
    PROVE  Stream(rest, s, later) /\ later[0] = context[n]
<1> DEFINE U == Units(MaxNr)
<1>1. fifo \in Seq(U) /\ Len(fifo) \in Nat
  OBVIOUS
<1> HIDE DEF U
<1>2. /\ Len(rest) = Len(fifo) - n
      /\ \A i \in 1..Len(rest) : rest[i] = fifo[i + n]
  <2>1. rest \in Seq(U) /\ Len(rest) = Len(fifo) - n
    BY <1>1
  <2>2. \A i \in 1..(Len(fifo) - n) : rest[i] = fifo[(n + 1) + i - 1]
    BY <1>1
  <2>3. \A i \in 1..(Len(fifo) - n) : (n + 1) + i - 1 = i + n
    BY <1>1
  <2> QED
    BY <2>1, <2>2, <2>3
<1>3. Len(rest) \in Nat /\ n \in Nat
  BY <1>1, <1>2
<1>4. \A i \in 0..Len(rest) : i + n \in 0..Len(fifo) /\ later[i] = context[i + n]
  BY <1>1, <1>2, <1>3
<1>5. later \in [0..Len(rest) -> Contexts]
  <2>1. \A j \in 0..Len(fifo) : context[j] \in Contexts
    BY DEF Stream
  <2> QED
    BY <1>4, <2>1
<1>6. later[Len(rest)] = SourceContext(s)
  <2>1. Len(rest) \in 0..Len(rest) /\ Len(rest) + n = Len(fifo)
    BY <1>1, <1>2, <1>3
  <2> QED
    BY <1>4, <2>1, Zenon DEF Stream
<1>7. ASSUME NEW i \in 1..Len(rest)
      PROVE  IF rest[i].code = "pic"
             THEN Continues(later[i - 1], rest[i]) /\ later[i] = UnitContext(rest[i])
             ELSE later[i] = later[i - 1]
  <2>0. Len(fifo) \in Nat /\ Len(rest) = Len(fifo) - n /\ Len(rest) \in Nat /\ n \in Nat
    BY <1>1, <1>2, <1>3
  <2>1. /\ i \in 0..Len(rest) /\ i - 1 \in 0..Len(rest) /\ i + n \in 1..Len(fifo)
        /\ (i + n) - 1 = (i - 1) + n
    BY <2>0
  <2>2. later[i] = context[i + n] /\ later[i - 1] = context[(i + n) - 1] /\ rest[i] = fifo[i + n]
    BY <1>2, <1>4, <2>1, Zenon
  <2> QED
    BY <2>1, <2>2, Zenon DEF Stream
<1>8. later[0] = context[n]
  <2>1. 0 \in 0..Len(rest) /\ 0 + n = n
    BY <1>3
  <2> QED
    BY <1>4, <2>1, Zenon
<1>9. Stream(rest, s, later)
  BY <1>5, <1>6, <1>7, Zenon DEF Stream
<1> QED
  BY <1>8, <1>9, Zenon

\* The disc stands at t once unit u is read from s.
Advances(s, u, t) ==
    IF u.code = "pic"
    THEN Continues(SourceContext(s), u) /\ SourceContext(t) = UnitContext(u)
    ELSE SourceContext(t) = SourceContext(s)

\* A stream that got a unit, after which the disc stands at t.
LEMMA Appended ==
    ASSUME NEW fifo \in Seq(Units(MaxNr)), NEW s, NEW t, NEW context,
           Stream(fifo, s, context), SourceContext(t) \in Contexts,
           NEW u \in Units(MaxNr),
           Advances(s, u, t),
           NEW more, more = Append(fifo, u)
    PROVE  \E longer \in [0..Len(more) -> Contexts] :
               Stream(more, t, longer) /\ longer[0] = context[0]
<1> DEFINE U == Units(MaxNr)
           n == Len(fifo)
           longer == [i \in 0..(n + 1) |->
                         IF i = n + 1 THEN SourceContext(t) ELSE context[i]]
<1>1. fifo \in Seq(U) /\ n \in Nat /\ u \in U
  OBVIOUS
<1> HIDE DEF U
<1>2. Len(more) = n + 1 /\ more[n + 1] = u /\ \A i \in 1..n : more[i] = fifo[i]
  BY <1>1
<1> HIDE DEF n
<1>3. /\ longer[n + 1] = SourceContext(t)
      /\ \A i \in 0..n : longer[i] = context[i]
  BY <1>1
<1>4. \A i \in 0..n : context[i] \in Contexts
  BY DEF Stream, n
<1>5. longer \in [0..Len(more) -> Contexts]
  BY <1>1, <1>2, <1>4
<1> HIDE DEF longer
<1>6. longer[Len(more)] = SourceContext(t)
  BY <1>2, <1>3, Zenon
<1>7. ASSUME NEW i \in 1..Len(more)
      PROVE  IF more[i].code = "pic"
             THEN Continues(longer[i - 1], more[i]) /\ longer[i] = UnitContext(more[i])
             ELSE longer[i] = longer[i - 1]
  <2>1. CASE i = n + 1
    <3>1. i - 1 = n /\ n \in 0..n
      BY <1>1, <2>1
    <3>2. longer[i - 1] = SourceContext(s) /\ longer[i] = SourceContext(t) /\ more[i] = u
      BY <1>2, <1>3, <2>1, <3>1, Zenon DEF Stream, n
    <3> QED
      BY <3>2, Zenon DEF Advances
  <2>2. CASE i # n + 1
    <3>1. i \in 1..n /\ i \in 0..n /\ i - 1 \in 0..n
      BY <1>1, <1>2, <2>2
    <3>2. longer[i - 1] = context[i - 1] /\ longer[i] = context[i] /\ more[i] = fifo[i]
      BY <1>2, <1>3, <3>1, Zenon
    <3> QED
      BY <3>1, <3>2, Zenon DEF Stream, n
  <2> QED
    BY <2>1, <2>2
<1>8. longer[0] = context[0]
  <2>1. 0 \in 0..n
    BY <1>1
  <2> QED
    BY <1>3, <2>1, Zenon
<1>9. Stream(more, t, longer)
  BY <1>5, <1>6, <1>7, Zenon DEF Stream
<1> QED
  BY <1>5, <1>8, <1>9, Zenon

\* An empty stream, and no frame that is valid.
LEMMA Emptied ==
    ASSUME NEW d, d.fifo = <<>>, \A i \in Slots : ~d.frames[i].valid,
           d.past \in Slots, d.future \in Slots,
           NEW s, SourceContext(s) \in Contexts,
           NEW last, last = 0 \/ last <= SourceContext(s).done
    PROVE  Following(d, s, FALSE, last)
<1> DEFINE context == [i \in 0..Len(d.fifo) |-> SourceContext(s)]
<1>1. Len(d.fifo) = 0 /\ 0 \in 0..Len(d.fifo) /\ 1..Len(d.fifo) = {}
  OBVIOUS
<1>2. context \in [0..Len(d.fifo) -> Contexts] /\ context[0] = SourceContext(s)
  BY <1>1
<1> HIDE DEF context
<1>3. Stream(d.fifo, s, context)
  BY <1>1, <1>2 DEF Stream
<1>4. Fits(d, context[0])
  BY Zenon DEF Fits
<1>5. Ordered(d, FALSE, last, context[0])
  BY <1>2, Zenon DEF Ordered
<1> QED
  BY <1>2, <1>3, <1>4, <1>5, Zenon DEF Following

\* The headers before a picture.
LEMMA HeadersFollow ==
    ASSUME NEW d, Decoder(d), NEW h, NEW n, HeadersOf(d, h, n),
           NEW s, NEW last \in Nat, Following(d, s, FALSE, last)
    PROVE  Following(h, s, FALSE, last)
<1>1. PICK context \in [0..Len(d.fifo) -> Contexts] :
         /\ Stream(d.fifo, s, context)
         /\ Fits(d, context[0])
         /\ Ordered(d, FALSE, last, context[0])
  BY DEF Following
<1>2. /\ d \in Decoders /\ d.fifo \in Seq(Units(MaxNr)) /\ Len(d.fifo) \in Nat
      /\ n \in 0..Len(d.fifo) /\ d.past \in Slots /\ d.future \in Slots
  BY DecoderFields, Zenon DEF Decoder, HeadersOf
<1> DEFINE fifo == d.fifo
           rest == SubSeq(fifo, n + 1, Len(fifo))
           later == [i \in 0..Len(rest) |-> context[i + n]]
<1>3. Stream(rest, s, later) /\ later[0] = context[n]
  <2>1. fifo \in Seq(Units(MaxNr)) /\ Stream(fifo, s, context) /\ n \in 0..Len(fifo)
    BY <1>1, <1>2, Zenon
  <2> HIDE DEF fifo
  <2> QED
    BY <2>1, Dropped, SMTT(30)
<1>4. /\ context[0].done <= context[n].done
      /\ (\A i \in 1..n : d.fifo[i].code # "pic") => context[n] = context[0]
  BY <1>1, <1>2, Grows
<1>5. h.fifo = rest
  BY DEF HeadersOf
<1> HIDE DEF rest, later
<1>6. later \in [0..Len(h.fifo) -> Contexts] /\ Stream(h.fifo, s, later)
  BY <1>3, <1>5, Zenon DEF Stream
<1>7. Fits(h, later[0])
  <2>1. h.past = d.past /\ h.future = d.future
    BY DEF HeadersOf
  <2>2. CASE h.size = d.size /\ h.frames = d.frames
    <3>1. CASE d.size = 0
      <4>1. \A i \in Slots : ~h.frames[i].valid
        BY <1>1, <2>2, <3>1, Zenon DEF Fits
      <4> QED
        BY <1>2, <2>1, <4>1, Zenon DEF Fits
    <3>2. CASE d.size # 0
      <4>1. later[0] = context[0]
        BY <1>3, <1>4, <3>2, Zenon DEF HeadersOf
      <4> QED
        BY <1>1, <2>1, <2>2, <4>1, Zenon DEF Fits
    <3> QED
      BY <3>1, <3>2
  <2>3. CASE h.frames = [i \in Slots |-> EmptyFrame]
    <3>1. \A i \in Slots : ~h.frames[i].valid
      BY <2>3 DEF EmptyFrame
    <3> QED
      BY <1>2, <2>1, <3>1, Zenon DEF Fits
  <2> QED
    BY <2>2, <2>3, Zenon DEF HeadersOf
<1>8. Ordered(h, FALSE, last, later[0])
  <2>1. context[0] \in Contexts /\ context[n] \in Contexts
    BY <1>1, <1>2
  <2>2. context[0].done \in Int /\ context[n].done \in Int
    BY <2>1, ContextFields
  <2>3. last = 0 \/ last <= context[0].done
    BY <1>1, Zenon DEF Ordered
  <2>4. last = 0 \/ last <= context[n].done
    BY <1>4, <2>2, <2>3
  <2> QED
    BY <1>3, <2>4, Zenon DEF Ordered
<1> QED
  BY <1>6, <1>7, <1>8, Zenon DEF Following

\* A picture that follows where the stream stands is predicted from the frames
\* it was encoded with, if they are valid.
LEMMA DecodedGood ==
    ASSUME NEW h, NEW c, Fits(h, c), NEW u, Continues(c, u),
           h.past \in Slots, h.future \in Slots
    PROVE  /\ Decoded(h, u).nr = u.nr
           /\ Decoded(h, u).valid => Decoded(h, u).good
<1> DEFINE fwd == h.frames[ForwardRef(h, u.type)]
           bwd == h.frames[h.future]
           valid == ("fwd" \in u.needs => fwd.valid) /\ ("bwd" \in u.needs => bwd.valid)
           good == /\ "fwd" \in u.needs => fwd.good /\ fwd.nr = u.fwd
                   /\ "bwd" \in u.needs => bwd.good /\ bwd.nr = u.bwd
<1>1. Decoded(h, u) = [nr |-> u.nr, type |-> u.type, valid |-> valid, good |-> good]
  BY Zenon DEF Decoded
<1>2. fwd.valid => fwd.good /\ fwd.nr = u.fwd
  BY Zenon DEF Fits, Continues, ForwardRef
<1>3. "bwd" \in u.needs => (bwd.valid => bwd.good /\ bwd.nr = u.bwd)
  BY Zenon DEF Fits, Continues
<1>4. valid => good
  BY <1>2, <1>3, Zenon
<1> HIDE DEF valid, good
<1> QED
  BY <1>1, <1>4, SMT

\* The picture after the headers: it is in a frame that is good if it is valid,
\* and what becomes displayable is next in display order.
LEMMA PictureFollows ==
    ASSUME NEW h, Decoder(h), Complete(h.fifo), h.size # 0, NEW d, PictureOf(h, d),
           NEW s, NEW last \in Nat, Following(h, s, FALSE, last)
    PROVE  Following(d, s, TRUE, last)
<1>1. PICK context \in [0..Len(h.fifo) -> Contexts] :
         /\ Stream(h.fifo, s, context)
         /\ Fits(h, context[0])
         /\ Ordered(h, FALSE, last, context[0])
  BY DEF Following
<1> DEFINE fifo == h.fifo
           u == fifo[1]
           rest == SubSeq(fifo, 1 + 1, Len(fifo))
           later == [i \in 0..Len(rest) |-> context[i + 1]]
           c == context[0]
           e == context[1]
           f == Decoded(h, u)
<1>2. /\ h \in Decoders /\ fifo \in Seq(Units(MaxNr)) /\ Len(fifo) \in Nat /\ Len(fifo) >= 2
      /\ h.past \in Slots /\ h.future \in Slots /\ h.work \in Slots
      /\ h.frames \in [Slots -> Frames(MaxNr)] /\ u.code = "pic"
  BY DecoderFields, Zenon DEF Decoder, Complete
<1>3. 1 \in 0..Len(fifo) /\ 1 \in 1..Len(fifo) /\ 0 \in 0..Len(fifo)
  BY <1>2
<1>4. Stream(rest, s, later) /\ later[0] = e
  <2> HIDE DEF fifo
  <2> QED
    BY <1>1, <1>2, <1>3, Dropped DEF fifo
<1>5. d.fifo = rest
  <2> DEFINE U == Units(MaxNr)
  <2>1. fifo \in Seq(U) /\ fifo # <<>>
    BY <1>2
  <2> HIDE DEF fifo, U
  <2>2. Tail(fifo) = SubSeq(fifo, 1 + 1, Len(fifo))
    BY <2>1
  <2> QED
    BY <2>2, Zenon DEF PictureOf, fifo
<1>6. Continues(c, u) /\ e = UnitContext(u)
  <2>1. 1 - 1 = 0
    OBVIOUS
  <2> QED
    BY <1>1, <1>2, <1>3, <2>1, Zenon DEF Stream
<1>7. f.nr = u.nr /\ (f.valid => f.good)
  BY <1>1, <1>2, <1>6, DecodedGood, Zenon
<1>8. /\ h.past # h.work /\ h.future # h.work
      /\ d.frames[h.past] = h.frames[h.past] /\ d.frames[h.future] = h.frames[h.future]
      /\ d.frames[h.work] = f
      /\ \A i \in Slots : i # h.work => d.frames[i] = h.frames[i]
  <2>1. h.past # h.work /\ h.future # h.work
    BY <1>2 DEF Decoder, Slots
  <2>2. d.frames = [h.frames EXCEPT ![h.work] = f]
    BY DEF PictureOf
  <2> HIDE DEF f
  <2> QED
    BY <1>2, <2>1, <2>2
<1>9. d.size # 0
  BY DEF PictureOf
<1>10. \A i \in Slots : d.frames[i].valid => d.frames[i].good /\ d.size # 0
  BY <1>1, <1>7, <1>8, <1>9, Zenon DEF Fits
<1>11. /\ c.done \in Int /\ c.anchor \in Int /\ c.done < c.anchor /\ c \in Contexts
       /\ u.nr \in Int
  <2>1. c \in Contexts
    BY <1>1, <1>3
  <2>2. u \in Units(MaxNr)
    <3> DEFINE U == Units(MaxNr)
    <3>1. fifo \in Seq(U)
      BY <1>2
    <3> HIDE DEF U, fifo
    <3>2. u \in U
      BY <1>3, <3>1
    <3> QED
      BY <3>2 DEF U
  <2>3. u.nr \in 0..MaxNr
    BY <1>2, <2>2, UnitFields
  <2> HIDE DEF c, u
  <2> QED
    BY <2>1, <2>3, ContextFields, DvcVideoConstants
<1>12. last = 0 \/ last <= c.done
  BY <1>1, Zenon DEF Ordered
<1>13. h.frames[h.future].valid => h.frames[h.future].nr = c.anchor
  BY <1>1, Zenon DEF Fits
<1>14. CASE u.type = "B"
  <2>1. e.before = c.before /\ e.anchor = c.anchor /\ e.done = u.nr
    BY <1>6, <1>14 DEF UnitContext, Continues
  <2>2. d.past = h.past /\ d.future = h.future
        /\ d.display = IF d.frames[h.work].valid THEN h.work ELSE None
    BY <1>14, Zenon DEF PictureOf
  <2>3. Fits(d, e)
    BY <1>1, <1>8, <1>10, <2>1, <2>2, Zenon DEF Fits
  <2>4. d.display # None => d.frames[d.display] = f
    BY <1>8, <2>2, Zenon
  <2>5. c.done < u.nr
    BY <1>6, <1>14, Zenon DEF Continues
  <2>6. /\ last = 0 \/ last <= e.done
        /\ f.nr <= e.done /\ (last = 0 \/ last < f.nr)
    <3> HIDE DEF c, e, u, f
    <3> QED
      BY <1>7, <1>11, <1>12, <2>1, <2>5
  <2>7. Ordered(d, TRUE, last, e)
    BY <2>4, <2>6, Zenon DEF Ordered
  <2> HIDE DEF rest, later, e
  <2> QED
    BY <1>4, <1>5, <2>3, <2>7, Zenon DEF Following, Stream
<1>15. CASE u.type # "B"
  <2>1. e.before = c.anchor /\ e.anchor = u.nr /\ e.done = c.anchor
    BY <1>6, <1>15 DEF UnitContext, Continues
  <2>2. d.past = h.future /\ d.future = h.work
        /\ d.display = IF d.frames[h.future].valid THEN h.future ELSE None
    BY <1>15, Zenon DEF PictureOf
  <2>3. Fits(d, e)
    BY <1>7, <1>8, <1>10, <1>13, <2>1, <2>2, Zenon DEF Fits
  <2>4. d.display # None => d.frames[d.display].nr = c.anchor
    BY <1>8, <1>13, <2>2, Zenon
  <2>5. /\ last = 0 \/ last <= e.done
        /\ c.anchor <= e.done /\ (last = 0 \/ last < c.anchor)
    <3> HIDE DEF c, e, u, f
    <3> QED
      BY <1>11, <1>12, <2>1
  <2>6. Ordered(d, TRUE, last, e)
    BY <2>4, <2>5, Zenon DEF Ordered
  <2> HIDE DEF rest, later, e
  <2> QED
    BY <1>4, <1>5, <2>3, <2>6, Zenon DEF Following, Stream
<1> QED
  BY <1>14, <1>15

-----------------------------------------------------------------------------
(* Ends of sequences. *)

\* The decoder knows of an end of the sequence, or will when it gets there.
Remembers(d) == d.ended \/ \E i \in DOMAIN d.fifo : d.fifo[i].code = "end"

\* An end code among the headers is remembered.
LEMMA HeadersRemember ==
    ASSUME NEW d, Decoder(d), NEW h, NEW n, HeadersOf(d, h, n), Remembers(d)
    PROVE  Remembers(h)
<1> DEFINE U == Units(MaxNr)
           fifo == d.fifo
           rest == SubSeq(fifo, n + 1, Len(fifo))
<1>1. fifo \in Seq(U) /\ Len(fifo) \in Nat /\ DOMAIN fifo = 1..Len(fifo)
  BY DecoderFields, Zenon DEF Decoder
<1>2. /\ h.fifo = rest /\ n \in 0..Len(fifo)
      /\ h.ended = (d.ended \/ \E i \in 1..n : fifo[i].code = "end")
  BY Zenon DEF HeadersOf
<1>3. CASE d.ended
  BY <1>2, <1>3, Zenon DEF Remembers
<1>4. CASE ~d.ended
  <2>1. PICK i \in 1..Len(fifo) : fifo[i].code = "end"
    BY <1>1, <1>4, Zenon DEF Remembers
  <2>2. CASE i \in 1..n
    BY <1>2, <2>1, <2>2, Zenon DEF Remembers
  <2>3. CASE i \notin 1..n
    <3> HIDE DEF U, fifo
    <3>n. fifo \in Seq(U) /\ n \in 0..Len(fifo) /\ Len(fifo) \in Nat
      BY <1>1, <1>2, Zenon
    <3>0. rest \in Seq(U) /\ Len(rest) = Len(fifo) - n
      BY <3>n
    <3>1. Len(rest) = Len(fifo) - n /\ DOMAIN rest = 1..Len(rest)
      <4> HIDE DEF rest
      <4> QED
        BY <3>0
    <3>2. i - n \in 1..(Len(fifo) - n)
      BY <1>1, <1>2, <2>3
    <3>3. rest[i - n] = fifo[(n + 1) + (i - n) - 1]
      BY <1>1, <1>2, <3>2
    <3>4. (n + 1) + (i - n) - 1 = i
      BY <1>1, <1>2
    <3>5. i - n \in DOMAIN rest /\ rest[i - n].code = "end"
      BY <2>1, <3>1, <3>2, <3>3, <3>4
    <3> HIDE DEF rest
    <3> QED
      BY <1>2, <3>5, Zenon DEF Remembers
  <2> QED
    BY <2>2, <2>3
<1> QED
  BY <1>3, <1>4

\* A picture is no end code.
LEMMA PictureRemembers ==
    ASSUME NEW h, Decoder(h), Complete(h.fifo), NEW d, PictureOf(h, d), Remembers(h)
    PROVE  Remembers(d)
<1> DEFINE U == Units(MaxNr)
           fifo == h.fifo
<1>1. fifo \in Seq(U) /\ Len(fifo) \in Nat /\ Len(fifo) >= 2 /\ fifo[1].code = "pic"
      /\ DOMAIN fifo = 1..Len(fifo)
  BY DecoderFields, Zenon DEF Decoder, Complete
<1>2. d.fifo = Tail(fifo) /\ d.ended = h.ended
  BY Zenon DEF PictureOf
<1>3. CASE h.ended
  BY <1>2, <1>3, Zenon DEF Remembers
<1>4. CASE ~h.ended
  <2>1. PICK i \in 1..Len(fifo) : fifo[i].code = "end"
    BY <1>1, <1>4, Zenon DEF Remembers
  <2> HIDE DEF U, fifo
  <2>2. i # 1
    BY <1>1, <2>1
  <2>3. i - 1 \in DOMAIN Tail(fifo) /\ Tail(fifo)[i - 1] = fifo[(i - 1) + 1] /\ (i - 1) + 1 = i
    BY <1>1, <2>2
  <2>4. Tail(fifo)[i - 1].code = "end"
    BY <2>1, <2>3
  <2> QED
    BY <1>2, <2>3, <2>4, Zenon DEF Remembers
<1> QED
  BY <1>3, <1>4

\* A decoder, the disc that feeds it and the history of what it displays and
\* reports, whether they are the machine's or a state's.
Clip(d, s, p, h) ==
    /\ Decoder(d)
    /\ Following(d, s, p.pending, h.last)
    /\ h.ending => Remembers(d)
    /\ ~h.rearmed => p.underflow

\* The picture at hand, if there is one, is the next in display order.
LEMMA AtHandFollows ==
    ASSUME Clip(m_video, src, pace, hist), pace.pending \in BOOLEAN, hist.last \in 0..MaxNr
    PROVE  /\ Decoder(AtHand.d) /\ AtHand.got \in BOOLEAN
           /\ Following(AtHand.d, src, AtHand.got, hist.last)
           /\ hist.ending => Remembers(AtHand.d)
<1>0. hist.last \in Nat
  BY DvcVideoConstants
<1>1. CASE pace.pending
  <2>1. AtHand = [d |-> m_video, got |-> TRUE]
    BY <1>1 DEF AtHand
  <2>2. AtHand.d = m_video /\ AtHand.got = TRUE
    BY <2>1
  <2>3. pace.pending = TRUE
    BY <1>1
  <2> QED
    BY <2>2, <2>3, Zenon DEF Clip
<1>2. CASE ~pace.pending
  <2> DEFINE h == Headers(m_video)
             r == decode(m_video)
  <2>1. AtHand = r
    BY <1>2 DEF AtHand
  <2>2. pace.pending = FALSE
    BY <1>2
  <2>3. /\ Decoder(h) /\ Decoder(r.d) /\ r.got \in BOOLEAN
        /\ \E n \in 0..Len(m_video.fifo) : HeadersOf(m_video, h, n)
        /\ ~r.got => r.d = h
        /\ r.got => Complete(h.fifo) /\ PictureOf(h, r.d)
    <3>1. Decoder(m_video)
      BY DEF Clip
    <3> QED
      BY <3>1, DecodeFields
  <2> HIDE DEF h, r
  <2>4. PICK n \in 0..Len(m_video.fifo) : HeadersOf(m_video, h, n)
    BY <2>3
  <2>5. Following(h, src, FALSE, hist.last) /\ (hist.ending => Remembers(h))
    BY <1>0, <2>2, <2>4, HeadersFollow, HeadersRemember, Zenon DEF Clip
  <2>6. CASE ~r.got
    BY <2>1, <2>3, <2>5, <2>6
  <2>7. CASE r.got
    <3>1. h.size # 0
      <4> DEFINE U == Units(MaxNr)
                 fifo == m_video.fifo
      <4>1. fifo \in Seq(U)
        BY DecoderFields, Zenon DEF Clip, Decoder
      <4>2. h.fifo = SubSeq(fifo, n + 1, Len(fifo)) /\ n \in 0..Len(fifo)
        BY <2>4, Zenon DEF HeadersOf
      <4>3. Len(h.fifo) >= 2
        BY <2>3, <2>7 DEF Complete
      <4> HIDE DEF fifo, U
      <4>4. Len(h.fifo) = Len(fifo) - n /\ Len(fifo) \in Nat
        BY <4>1, <4>2
      <4>5. n < Len(fifo)
        BY <4>2, <4>3, <4>4
      <4> QED
        BY <2>4, <4>5, Zenon DEF HeadersOf, fifo
    <3>2. Following(r.d, src, TRUE, hist.last)
      BY <1>0, <2>3, <2>5, <2>7, <3>1, PictureFollows, Zenon
    <3>3. hist.ending => Remembers(r.d)
      BY <2>3, <2>5, <2>7, PictureRemembers, Zenon
    <3>4. r.got = TRUE
      BY <2>3, <2>7
    <3> QED
      BY <2>1, <2>3, <3>2, <3>3, <3>4, Zenon
  <2> QED
    BY <2>6, <2>7
<1> QED
  BY <1>1, <1>2

-----------------------------------------------------------------------------
(* The invariant of the machine and of a save state. *)

\* The types of the controls, the pace, the buffers and the history.
Controls ==
    [dsp_enable : BOOLEAN, playback_active : BOOLEAN, single_step_pending : BOOLEAN,
     scan : BOOLEAN, pausing : BOOLEAN, start : 0..StartDelay, pause : 0..PauseDelay,
     show : BOOLEAN, slow_motion : Slows]
Paces ==
    [pending : BOOLEAN, seen_first : BOOLEAN, underflow : BOOLEAN,
     due : (-MaxTicks)..MaxTicks]
Pictures ==
    [len : Sizes \cup {0}, size : Sizes \cup {0}, nr : 0..MaxNr, cur : BOOLEAN,
     updated : BOOLEAN]
Displays ==
    [len : Sizes \cup {0}, size : Sizes \cup {0}, nr : 0..MaxNr, cur : BOOLEAN,
     valid : BOOLEAN, enabled : BOOLEAN]
Histories ==
    [running : BOOLEAN, rearmed : BOOLEAN, last : 0..MaxNr, ending : BOOLEAN]

\* The disc: B pictures that are owed lie between the last two anchors.
Disc(s) ==
    /\ s \in [open : BOOLEAN, intra : BOOLEAN, owed : 0..MaxNr, anchor : 0..MaxNr,
              before : 0..MaxNr]
    /\ s.owed > 0 => s.before < s.anchor - s.owed

\* The invariant, in parts.
Controlled(c, p, isr) == c \in Controls /\ p \in Paces /\ isr \subseteq Watched
Buffers(pic, sh) == pic \in Pictures /\ sh \in Displays
Told(v, s, p, h) == Disc(s) /\ h \in Histories /\ Clip(v, s, p, h)

\* Of the machine, and of what a save state carries.
VInv ==
    /\ Controlled(ctl, pace, m_fmv_isr)
    /\ Buffers(m_picture, shown)
    /\ Told(m_video, src, pace, hist)
    /\ saved # NoState =>
          /\ Controlled(saved.ctl, saved.pace, saved.m_fmv_isr)
          /\ Buffers(saved.m_picture, saved.shown)
          /\ Told(saved.m_video, saved.src, saved.pace, saved.hist)

\* Where the disc stands.
LEMMA DiscContext ==
    ASSUME NEW s, Disc(s)
    PROVE  /\ SourceContext(s) \in Contexts
           /\ s.before \in 0..MaxNr /\ s.anchor \in 0..MaxNr /\ s.owed \in 0..MaxNr
           /\ s.open \in BOOLEAN /\ s.intra \in BOOLEAN
           /\ SourceContext(s).before = s.before /\ SourceContext(s).anchor = s.anchor
           /\ SourceContext(s).done = s.anchor - s.owed - 1
<1> DEFINE done == s.anchor - s.owed - 1
<1>1. /\ s.before \in 0..MaxNr /\ s.anchor \in 0..MaxNr /\ s.owed \in 0..MaxNr
      /\ s.open \in BOOLEAN /\ s.intra \in BOOLEAN
      /\ s.owed > 0 => s.before < s.anchor - s.owed
  BY Zenon DEF Disc
<1>2. done \in (-1)..MaxNr /\ done < s.anchor
  BY <1>1, DvcVideoConstants
<1>3. SourceContext(s) = [before |-> s.before, anchor |-> s.anchor, done |-> done]
  BY DEF SourceContext
<1> HIDE DEF done
<1>4. /\ SourceContext(s).before = s.before /\ SourceContext(s).anchor = s.anchor
      /\ SourceContext(s).done = done
  BY <1>3
<1>5. SourceContext(s) \in Contexts
  BY <1>1, <1>2, <1>3, SMT DEF Contexts
<1> QED
  BY <1>1, <1>4, <1>5 DEF done

\* The greatest of the values of m_fmv_slow_motion, and the longest time.
LEMMA SlowTicks ==
    /\ MaxTicks \in Nat
    /\ \A slow \in Slows : slow \in Nat /\ Period * (slow + 1) \in 1..MaxTicks
<1> DEFINE top == CHOOSE slow \in Slows : \A s \in Slows : s <= slow
<1>1. top \in Slows /\ \A s \in Slows : s <= top
  <2>1. Slows \subseteq 0..7 /\ Slows # {} /\ 7 \in Nat
    BY DvcVideoConstants
  <2>2. \E slow \in Slows : \A s \in Slows : s <= slow
    BY <2>1, Greatest
  <2> QED
    BY <2>2
<1>2. MaxTicks = Period * (1 + top)
  BY DEF MaxTicks
<1>3. Slows \subseteq Nat /\ Period \in Nat \ {0}
  BY DvcVideoConstants
<1> HIDE DEF top
<1>4. MaxTicks \in Nat
  BY <1>1, <1>2, <1>3
<1>5. ASSUME NEW slow \in Slows
      PROVE  Period * (slow + 1) \in 1..MaxTicks
  <2>1. slow \in Nat /\ top \in Nat /\ slow <= top
    BY <1>1, <1>3
  <2>2. PICK k \in Nat : top = slow + k
    BY <2>1
  <2>3. Period * (1 + top) = Period * (slow + 1) + Period * k
    BY <1>3, <2>1, <2>2
  <2>4. Period * k \in Nat /\ Period * (slow + 1) \in Nat /\ Period * slow \in Nat
        /\ Period * (slow + 1) = Period * slow + Period
    BY <1>3, <2>1
  <2> QED
    BY <1>2, <1>3, <2>3, <2>4
<1> QED
  BY <1>3, <1>4, <1>5

\* A decoder with the same stream, some frames of which are not valid any more.
LEMMA Reframed ==
    ASSUME NEW d, NEW s, NEW waits, NEW last, Following(d, s, waits, last),
           NEW e, e.fifo = d.fifo, e.past = d.past, e.future = d.future,
           d.past \in Slots, d.future \in Slots,
           \A i \in Slots : e.frames[i].valid =>
               e.frames[i] = d.frames[i] /\ d.frames[i].valid /\ e.size # 0,
           NEW waiting,
           waiting /\ e.display # None =>
               /\ waits /\ e.display = d.display
               /\ e.frames[e.display] = d.frames[d.display]
    PROVE  Following(e, s, waiting, last)
<1>1. PICK context \in [0..Len(d.fifo) -> Contexts] :
         /\ Stream(d.fifo, s, context)
         /\ Fits(d, context[0])
         /\ Ordered(d, waits, last, context[0])
  BY DEF Following
<1>2. Fits(e, context[0])
  BY <1>1, Zenon DEF Fits
<1>3. Ordered(e, waiting, last, context[0])
  BY <1>1, Zenon DEF Ordered
<1> QED
  BY <1>1, <1>2, <1>3, Zenon DEF Following

\* The picture that waits is displayed, or one out of order (nr is 0).
LEMMA Displayed ==
    ASSUME NEW d, NEW s, NEW waits, NEW last, Following(d, s, waits, last)
    PROVE  /\ Following(d, s, FALSE, 0)
           /\ waits /\ d.display # None =>
                 /\ Following(d, s, FALSE, d.frames[d.display].nr)
                 /\ last = 0 \/ last < d.frames[d.display].nr
<1>1. PICK context \in [0..Len(d.fifo) -> Contexts] :
         /\ Stream(d.fifo, s, context)
         /\ Fits(d, context[0])
         /\ Ordered(d, waits, last, context[0])
  BY DEF Following
<1>2. Ordered(d, FALSE, 0, context[0])
  BY Zenon DEF Ordered
<1>3. waits /\ d.display # None =>
         /\ Ordered(d, FALSE, d.frames[d.display].nr, context[0])
         /\ last = 0 \/ last < d.frames[d.display].nr
  BY <1>1, Zenon DEF Ordered
<1> QED
  BY <1>1, <1>2, <1>3, Zenon DEF Following

\* What was displayed comes before all the disc has left.
LEMMA DisplayedBefore ==
    ASSUME NEW d, Decoder(d), NEW s, Disc(s), NEW waits, NEW last \in 0..MaxNr,
           Following(d, s, waits, last)
    PROVE  last = 0 \/ last <= SourceContext(s).done
<1>1. PICK context \in [0..Len(d.fifo) -> Contexts] :
         /\ Stream(d.fifo, s, context)
         /\ Ordered(d, waits, last, context[0])
  BY DEF Following
<1> DEFINE n == Len(d.fifo)
<1>2. d.fifo \in Seq(Units(MaxNr)) /\ n \in Nat
  BY DecoderFields, Zenon DEF Decoder
<1>3. n \in 0..n /\ 0 \in 0..n
  BY <1>2
<1>4. context[0].done <= context[n].done
  BY <1>1, <1>2, <1>3, Grows, Zenon
<1>5. context[n] = SourceContext(s)
  BY <1>1 DEF Stream
<1>6. context[0].done \in Int /\ context[n].done \in Int
  BY <1>3, ContextFields
<1>7. last = 0 \/ last <= context[0].done
  BY <1>1, Zenon DEF Ordered
<1> HIDE DEF n
<1>8. last \in Int
  BY DvcVideoConstants
<1> QED
  BY <1>4, <1>5, <1>6, <1>7, <1>8

-----------------------------------------------------------------------------
(* What the methods of the decoder return. *)

\* Nothing is in the decoder: no data, no frame that is valid.
Vacant(d) ==
    /\ Decoder(d) /\ d.fifo = <<>> /\ ~d.ended
    /\ d.past \in Slots /\ d.future \in Slots
    /\ \A i \in Slots : ~d.frames[i].valid

\* Frames made anew are not valid.
LEMMA Allocated ==
    ASSUME NEW d, Decoder(d), NEW size \in Sizes,
           NEW e, e = allocate_frames(d, size)
    PROVE  /\ Decoder(e)
           /\ e.fifo = d.fifo /\ e.ended = d.ended /\ e.past = d.past
           /\ e.future = d.future /\ e.work = d.work /\ e.type = d.type
           /\ e.size = size /\ \A i \in Slots : ~e.frames[i].valid
<1> DEFINE empty == [i \in Slots |-> EmptyFrame]
<1>1. EmptyFrame \in Frames(MaxNr) /\ ~EmptyFrame.valid
  BY DvcVideoConstants, SMT DEF EmptyFrame, Frames
<1>2. empty \in [Slots -> Frames(MaxNr)] /\ \A i \in Slots : ~empty[i].valid
  BY <1>1
<1>3. e = [d EXCEPT !.size = size, !.frames = empty, !.display = None]
  BY DEF allocate_frames
<1> HIDE DEF empty
<1>4. d \in Decoders /\ Len(d.fifo) <= Limit /\ {d.past, d.future, d.work} = Slots
  BY DEF Decoder
<1>5. e \in Decoders
  BY <1>2, <1>3, <1>4, Zenon DEF Decoders
<1>6. /\ e.fifo = d.fifo /\ e.ended = d.ended /\ e.past = d.past
      /\ e.future = d.future /\ e.work = d.work /\ e.type = d.type
      /\ e.size = size /\ e.frames = empty
  BY <1>3, <1>4, SMT DEF Decoders
<1> QED
  BY <1>2, <1>4, <1>5, <1>6, Zenon DEF Decoder

\* A reset leaves the decoder vacant.
LEMMA FreshVacant == Vacant(Fresh) /\ Fresh.size = 0
<1> DEFINE empty == [i \in Slots |-> EmptyFrame]
<1>1. EmptyFrame \in Frames(MaxNr) /\ ~EmptyFrame.valid
  BY DvcVideoConstants, SMT DEF EmptyFrame, Frames
<1>2. empty \in [Slots -> Frames(MaxNr)] /\ \A i \in Slots : ~empty[i].valid
  BY <1>1
<1>3. Fresh = [fifo |-> <<>>, size |-> 0, ended |-> FALSE, type |-> "none",
               frames |-> empty, past |-> 1, future |-> 2, work |-> 0, display |-> None]
  BY DEF Fresh
<1>4. <<>> \in Seq(Units(MaxNr)) /\ Len(<<>>) = 0 /\ 0 <= Limit
  <2> DEFINE U == Units(MaxNr)
  <2>1. 0 <= Limit
    BY VideoConstants
  <2> HIDE DEF U
  <2>2. <<>> \in Seq(U) /\ Len(<<>>) = 0
    OBVIOUS
  <2> QED
    BY <2>1, <2>2 DEF U
<1>5. 0 \in Slots /\ 1 \in Slots /\ 2 \in Slots /\ {1, 2, 0} = Slots
  BY DEF Slots
<1> HIDE DEF empty
<1>6. /\ Fresh.fifo = <<>> /\ Fresh.size = 0 /\ Fresh.ended = FALSE /\ Fresh.past = 1
      /\ Fresh.future = 2 /\ Fresh.work = 0 /\ Fresh.frames = empty
  BY <1>3
<1>7. Fresh \in Decoders
  BY <1>2, <1>3, <1>4, <1>5, SMT DEF Decoders, Types
<1> QED
  BY <1>2, <1>4, <1>5, <1>6, <1>7, Zenon DEF Vacant, Decoder

\* A seek leaves the decoder vacant.
LEMMA ClearedVacant ==
    ASSUME NEW d, Decoder(d)
    PROVE  Vacant(clear_fifo(d))
<1> DEFINE size == d.size
           e == allocate_frames(Fresh, size)
<1>1. size \in Sizes \cup {0}
  BY DecoderFields, Zenon DEF Decoder
<1> HIDE DEF size
<1>2. clear_fifo(d) = IF size # 0 /\ size # Fresh.size THEN e ELSE Fresh
  BY Zenon DEF clear_fifo, set_sequence_state, size
<1>3. CASE size = 0
  BY <1>2, <1>3, FreshVacant
<1>4. CASE size # 0
  <2>1. size \in Sizes
    BY <1>1, <1>4
  <2>2. Vacant(Fresh) /\ Decoder(Fresh)
    BY FreshVacant DEF Vacant
  <2>e. e = allocate_frames(Fresh, size)
    OBVIOUS
  <2> HIDE DEF e
  <2>3. /\ Decoder(e) /\ e.fifo = Fresh.fifo /\ e.ended = Fresh.ended
        /\ e.past = Fresh.past /\ e.future = Fresh.future
        /\ \A i \in Slots : ~e.frames[i].valid
    BY <2>1, <2>2, <2>e, Allocated
  <2>4. Vacant(e)
    BY <2>2, <2>3, Zenon DEF Vacant
  <2> QED
    BY <1>2, <1>4, <2>2, <2>4, FreshVacant, Zenon
<1> QED
  BY <1>3, <1>4

\* The end of a sequence was announced.
LEMMA AnnouncedFields ==
    ASSUME NEW d, Decoder(d), NEW e, e = clear_sequence_ended(d)
    PROVE  /\ Decoder(e) /\ ~e.ended /\ e.fifo = d.fifo /\ e.frames = d.frames
           /\ e.past = d.past /\ e.future = d.future /\ e.size = d.size
           /\ e.display = d.display
<1>1. d \in Decoders /\ Len(d.fifo) <= Limit /\ {d.past, d.future, d.work} = Slots
  BY DEF Decoder
<1>2. e = [d EXCEPT !.ended = FALSE]
  BY DEF clear_sequence_ended
<1>3. e \in Decoders
  BY <1>1, <1>2, Zenon DEF Decoders
<1>4. /\ e.ended = FALSE /\ e.fifo = d.fifo /\ e.frames = d.frames
      /\ e.past = d.past /\ e.future = d.future /\ e.size = d.size
      /\ e.display = d.display /\ e.work = d.work
  BY <1>1, <1>2, SMT DEF Decoders
<1> QED
  BY <1>1, <1>3, <1>4, Zenon DEF Decoder

\* A scan changes what is on display, and nothing else.
LEMMA ScannedFields ==
    ASSUME NEW d, Decoder(d), NEW e, e = display_decoded_frame(d)
    PROVE  /\ Decoder(e) /\ e.ended = d.ended /\ e.fifo = d.fifo /\ e.frames = d.frames
           /\ e.past = d.past /\ e.future = d.future /\ e.size = d.size
<1> DEFINE slot == IF d.type = "B" THEN d.work ELSE d.future
           display == IF d.frames[slot].valid THEN slot ELSE None
<1>1. d \in Decoders /\ Len(d.fifo) <= Limit /\ {d.past, d.future, d.work} = Slots
  BY DEF Decoder
<1>2. e = [d EXCEPT !.display = display]
  BY Zenon DEF display_decoded_frame
<1>3. display \in Slots \cup {None}
  BY <1>1, DecoderFields, Zenon
<1> HIDE DEF display
<1>4. e \in Decoders
  BY <1>1, <1>2, <1>3, Zenon DEF Decoders
<1>5. /\ e.ended = d.ended /\ e.fifo = d.fifo /\ e.frames = d.frames
      /\ e.past = d.past /\ e.future = d.future /\ e.size = d.size /\ e.work = d.work
  BY <1>1, <1>2, SMT DEF Decoders
<1> QED
  BY <1>1, <1>4, <1>5, Zenon DEF Decoder

\* Decoder e holds what s had, less the frames that are not carried over.
Carries(e, s) ==
    /\ e.ended = s.ended /\ e.fifo = s.fifo /\ e.past = s.past /\ e.future = s.future
    /\ \A i \in Slots : e.frames[i].valid =>
          e.frames[i] = s.frames[i] /\ s.frames[i].valid /\ e.size # 0
    /\ e.display # None =>
          e.display = s.display /\ e.frames[e.display] = s.frames[s.display]

\* The decoder of a loaded state.
LEMMA LoadedFields ==
    ASSUME NEW d, Decoder(d), NEW s, Decoder(s),
           NEW e, e = set_decoder_state(set_sequence_state(d, s.size), s)
    PROVE  Decoder(e) /\ Carries(e, s)
<1> DEFINE size == s.size
           q == set_sequence_state(d, size)
<1>1. /\ s \in Decoders /\ Len(s.fifo) <= Limit /\ {s.past, s.future, s.work} = Slots
      /\ s.frames \in [Slots -> Frames(MaxNr)] /\ size \in Sizes \cup {0}
      /\ s.display \in Slots \cup {None}
  BY DecoderFields, Zenon DEF Decoder
<1> HIDE DEF size
<1>2. q.size \in Sizes \cup {0}
  <2>1. CASE size # 0 /\ size # d.size
    <3>1. size \in Sizes
      BY <1>1, <2>1
    <3>2. q = allocate_frames(d, size)
      BY <2>1 DEF set_sequence_state
    <3> HIDE DEF q
    <3>3. q.size = size
      BY <3>1, <3>2, Allocated
    <3> QED
      BY <1>1, <3>3
  <2>2. CASE ~(size # 0 /\ size # d.size)
    <3>1. q = d
      BY <2>2, Zenon DEF set_sequence_state
    <3> HIDE DEF q
    <3> QED
      BY <3>1, DecoderFields, Zenon DEF Decoder
  <2> QED
    BY <2>1, <2>2
<1> DEFINE carried == size # 0 /\ size \notin BigSizes /\ q.size # 0
           dropped == [i \in Slots |-> [s.frames[i] EXCEPT !.valid = FALSE]]
           frames == IF carried THEN s.frames ELSE dropped
           display == IF s.display # None /\ frames[s.display].valid
                      THEN s.display ELSE None
<1>3. e = [s EXCEPT !.size = q.size, !.frames = frames, !.display = display]
  <2>1. e = [s EXCEPT !.size = q.size, !.frames = frames,
                !.display = IF @ # None /\ frames[@].valid THEN @ ELSE None]
    BY Zenon DEF set_decoder_state, size
  <2> HIDE DEF q, frames
  <2> QED
    BY <1>1, <2>1, SMT DEF Decoders
<1>4. \A i \in Slots : dropped[i] \in Frames(MaxNr) /\ ~dropped[i].valid
  <2> SUFFICES ASSUME NEW i \in Slots
               PROVE  dropped[i] \in Frames(MaxNr) /\ ~dropped[i].valid
    OBVIOUS
  <2> DEFINE f == s.frames[i]
             g == [f EXCEPT !.valid = FALSE]
  <2>1. f \in Frames(MaxNr) /\ dropped[i] = g
    BY <1>1
  <2> HIDE DEF f, dropped
  <2>2. g \in Frames(MaxNr)
    BY <2>1, Zenon DEF Frames
  <2>3. g.valid = FALSE
    BY <2>1, SMT DEF Frames
  <2> HIDE DEF g
  <2> QED
    BY <2>1, <2>2, <2>3
<1>5. frames \in [Slots -> Frames(MaxNr)]
  <2>1. dropped \in [Slots -> Frames(MaxNr)]
    BY <1>4
  <2> QED
    BY <1>1, <2>1
<1>6. \A i \in Slots : frames[i].valid =>
         frames[i] = s.frames[i] /\ s.frames[i].valid /\ q.size # 0
  BY <1>4, Zenon
<1>7. /\ display \in Slots \cup {None}
      /\ display # None => display = s.display /\ display \in Slots /\ frames[display].valid
  BY <1>1, Zenon
<1> HIDE DEF q, frames, display
<1>8. e \in Decoders
  BY <1>1, <1>2, <1>3, <1>5, <1>7, Zenon DEF Decoders
<1>9. /\ e.ended = s.ended /\ e.fifo = s.fifo /\ e.past = s.past /\ e.future = s.future
      /\ e.work = s.work /\ e.size = q.size /\ e.frames = frames /\ e.display = display
  BY <1>1, <1>3, SMT DEF Decoders
<1>10. Decoder(e)
  BY <1>1, <1>8, <1>9, Zenon DEF Decoder
<1> QED
  BY <1>6, <1>7, <1>9, <1>10, Zenon DEF Carries

-----------------------------------------------------------------------------
(* The steps: commands. *)

\* Commands.
LEMMA CommandTypes ==
    ASSUME Controlled(ctl, pace, m_fmv_isr), Buffers(m_picture, shown), write_syscmd
    PROVE  Controlled(ctl, pace, m_fmv_isr)' /\ Buffers(m_picture, shown)'
<1>1. ctl \in Controls /\ pace \in Paces /\ m_fmv_isr' \subseteq Watched
  BY Zenon DEF Controlled, write_syscmd
<1>2. /\ StartDelay \in 0..StartDelay /\ 0 \in 0..StartDelay /\ PauseDelay \in 0..PauseDelay
  BY DvcVideoConstants
<1>3. ctl' \in Controls
  <2>1. CASE play
    BY <1>1, <1>2, <2>1, Zenon DEF play, Controls
  <2>2. CASE pause
    BY <1>1, <1>2, <2>2, Zenon DEF pause, Controls
  <2>3. CASE continue
    BY <1>1, <1>2, <2>3, Zenon DEF continue, Controls
  <2>4. CASE step
    BY <1>1, <1>2, <2>4, Zenon DEF step, Controls
  <2>5. CASE stop
    BY <1>1, <1>2, <2>5, Zenon DEF stop, Controls
  <2>6. CASE clear_fifo_cmd
    BY <1>1, <1>2, <2>6, Zenon DEF clear_fifo_cmd, Controls
  <2>7. CASE dec_on
    BY <1>1, <1>2, <2>7, Zenon DEF dec_on, Controls
  <2>8. CASE dec_off
    BY <1>1, <1>2, <2>8, Zenon DEF dec_off, DecOff, Controls
  <2> QED
    BY <2>1, <2>2, <2>3, <2>4, <2>5, <2>6, <2>7, <2>8, Zenon DEF write_syscmd
<1>4. pace' \in Paces
  <2>1. CASE play
    BY <1>1, <2>1, Zenon DEF play, Paces
  <2>2. CASE clear_fifo_cmd \/ dec_off
    BY <1>1, <2>2, Zenon DEF clear_fifo_cmd, dec_off, DecOff, ClearPace, Paces
  <2>3. CASE UNCHANGED pace
    BY <1>1, <2>3, Zenon
  <2> QED
    BY <2>1, <2>2, <2>3, Zenon DEF write_syscmd, pause, continue, step, stop, dec_on
<1>5. Buffers(m_picture, shown)'
  <2>1. CASE dec_off
    <3> DEFINE p == [m_picture EXCEPT !.updated = FALSE]
               s == [shown EXCEPT !.valid = FALSE]
    <3>1. p \in Pictures /\ s \in Displays
      BY Zenon DEF Buffers, Pictures, Displays
    <3>2. m_picture' = [p EXCEPT !.cur = FALSE] /\ shown' = [s EXCEPT !.cur = FALSE]
      BY <2>1, Zenon DEF dec_off, DecOff, Disowned
    <3> HIDE DEF p, s
    <3>3. m_picture' \in Pictures /\ shown' \in Displays
      BY <3>1, <3>2, Zenon DEF Pictures, Displays
    <3> QED
      BY <3>3 DEF Buffers
  <2>2. CASE UNCHANGED <<m_picture, shown>>
    BY <2>2, Zenon DEF Buffers
  <2> QED
    BY <2>1, <2>2, Zenon DEF write_syscmd, play, pause, continue, step, stop,
                             clear_fifo_cmd, dec_on
<1> QED
  BY <1>1, <1>3, <1>4, <1>5, Zenon DEF Controlled

\* A decoder that was emptied follows a disc that did not go back.
LEMMA VacantTold ==
    ASSUME Told(m_video, src, pace, hist), Vacant(m_video'),
           Disc(src'), SourceContext(src).done <= SourceContext(src').done,
           pace'.pending = FALSE, hist' \in Histories,
           hist'.last \in {0, hist.last}, ~hist'.ending, hist'.rearmed
    PROVE  Told(m_video, src, pace, hist)'
<1>1. Decoder(m_video) /\ Disc(src) /\ hist.last \in 0..MaxNr
  BY Zenon DEF Told, Clip, Histories
<1>2. hist.last = 0 \/ hist.last <= SourceContext(src).done
  BY <1>1, DisplayedBefore, Zenon DEF Told, Clip
<1>3. SourceContext(src).done \in Int /\ SourceContext(src').done \in Int /\ hist.last \in Int
  BY <1>1, DiscContext, ContextFields, DvcVideoConstants
<1>4. hist'.last = 0 \/ hist'.last <= SourceContext(src').done
  BY <1>2, <1>3
<1>5. SourceContext(src') \in Contexts
  BY DiscContext, Zenon
<1>6. Following(m_video', src', FALSE, hist'.last)
  BY <1>4, <1>5, Emptied, Zenon DEF Vacant
<1>7. Decoder(m_video')
  BY DEF Vacant
<1> QED
  BY <1>6, <1>7, Zenon DEF Told, Clip

\* What the disc has left when it goes on at an intra picture.
LEMMA DiscRestarts ==
    ASSUME Disc(src),
           \/ src' = [src EXCEPT !.intra = TRUE, !.owed = 0]
           \/ src' = [src EXCEPT !.open = FALSE, !.intra = TRUE, !.owed = 0]
    PROVE  Disc(src') /\ SourceContext(src).done <= SourceContext(src').done
<1>1. /\ src.before \in 0..MaxNr /\ src.anchor \in 0..MaxNr /\ src.owed \in 0..MaxNr
      /\ SourceContext(src).done = src.anchor - src.owed - 1
  BY DiscContext
<1>2. 0 \in 0..MaxNr
  BY DvcVideoConstants
<1>3. src' \in [open : BOOLEAN, intra : BOOLEAN, owed : 0..MaxNr, anchor : 0..MaxNr,
                before : 0..MaxNr]
  BY <1>2, Zenon DEF Disc
<1>4. src'.owed = 0 /\ src'.anchor = src.anchor
  <2>1. CASE src' = [src EXCEPT !.intra = TRUE, !.owed = 0]
    BY <2>1, SMT DEF Disc
  <2>2. CASE src' = [src EXCEPT !.open = FALSE, !.intra = TRUE, !.owed = 0]
    BY <2>2, SMT DEF Disc
  <2> QED
    BY <2>1, <2>2, Zenon
<1>5. Disc(src')
  BY <1>3, <1>4 DEF Disc
<1>6. SourceContext(src').done = src'.anchor - src'.owed - 1
  BY <1>5, DiscContext
<1> QED
  BY <1>1, <1>4, <1>5, <1>6, DvcVideoConstants

\* A command drops the stream with the frames, or neither.
LEMMA CommandTold ==
    ASSUME Told(m_video, src, pace, hist), pace \in Paces, write_syscmd
    PROVE  Told(m_video, src, pace, hist)'
<1>0. /\ Decoder(m_video) /\ Disc(src) /\ hist \in Histories
      /\ Following(m_video, src, pace.pending, hist.last)
      /\ hist.ending => Remembers(m_video)
      /\ ~hist.rearmed => pace.underflow
      /\ src.open \in BOOLEAN
  BY DiscContext, Zenon DEF Told, Clip
<1>1. CASE play
  <2>1. pace' = [pace EXCEPT !.seen_first = FALSE, !.underflow = FALSE]
        /\ hist' = [hist EXCEPT !.running = TRUE, !.rearmed = TRUE]
        /\ UNCHANGED <<m_video, src>>
    BY <1>1, Zenon DEF play
  <2>2. pace'.pending = pace.pending
    BY <2>1, SMT DEF Paces
  <2>3. hist' \in Histories
    BY <1>0, <2>1, Zenon DEF Histories
  <2>4. hist'.last = hist.last /\ hist'.rearmed = TRUE /\ hist'.ending = hist.ending
    BY <1>0, <2>1, SMT DEF Histories
  <2>5. Told(m_video, src, pace', hist')
    BY <1>0, <2>2, <2>3, <2>4, Zenon DEF Told, Clip
  <2> QED
    BY <2>1, <2>5, Zenon
<1>2. CASE pause \/ stop \/ continue
  <2>1. PICK running \in BOOLEAN : hist' = [hist EXCEPT !.running = running]
    BY <1>2, Zenon DEF pause, stop, continue
  <2>2. UNCHANGED <<m_video, src, pace>>
    BY <1>2, Zenon DEF pause, stop, continue
  <2>3. hist' \in Histories
    BY <1>0, <2>1, Zenon DEF Histories
  <2>4. hist'.last = hist.last /\ hist'.rearmed = hist.rearmed /\ hist'.ending = hist.ending
    BY <1>0, <2>1, SMT DEF Histories
  <2>5. Told(m_video, src, pace, hist')
    BY <1>0, <2>3, <2>4, Zenon DEF Told, Clip
  <2> QED
    BY <2>2, <2>5, Zenon
<1>3. CASE step \/ dec_on
  <2>1. UNCHANGED <<m_video, src, pace, hist>>
    BY <1>3, Zenon DEF step, dec_on
  <2> QED
    BY <2>1, Zenon
<1>4. CASE clear_fifo_cmd
  <2>1. /\ m_video' = clear_fifo(m_video) /\ pace' = ClearPace
        /\ src' = [src EXCEPT !.intra = TRUE, !.owed = 0]
        /\ hist' = [hist EXCEPT !.running = FALSE, !.rearmed = TRUE, !.ending = FALSE]
    BY <1>4, Zenon DEF clear_fifo_cmd
  <2>2. Vacant(m_video')
    BY <1>0, <2>1, ClearedVacant, Zenon
  <2>4. Disc(src') /\ SourceContext(src).done <= SourceContext(src').done
    BY <1>0, <2>1, DiscRestarts
  <2>5. pace'.pending = FALSE
    BY <2>1, SMT DEF ClearPace, Paces
  <2>6. hist' \in Histories
    BY <1>0, <2>1, Zenon DEF Histories
  <2>7. hist'.last = hist.last /\ hist'.rearmed = TRUE /\ hist'.ending = FALSE
    BY <1>0, <2>1, SMT DEF Histories
  <2> QED
    BY <2>2, <2>4, <2>5, <2>6, <2>7, VacantTold, Zenon
<1>5. CASE dec_off
  <2>1. /\ m_video' = Fresh /\ pace' = ClearPace
        /\ src' = [src EXCEPT !.open = FALSE, !.intra = TRUE, !.owed = 0]
        /\ hist' = [hist EXCEPT !.running = FALSE, !.rearmed = TRUE, !.ending = FALSE,
                                !.last = 0]
    BY <1>5, Zenon DEF dec_off, DecOff
  <2>2. Vacant(m_video')
    BY <2>1, FreshVacant, Zenon
  <2>4. Disc(src') /\ SourceContext(src).done <= SourceContext(src').done
    BY <1>0, <2>1, DiscRestarts
  <2>5. pace'.pending = FALSE
    BY <2>1, SMT DEF ClearPace, Paces
  <2>6. hist' \in Histories
    <3>1. 0 \in 0..MaxNr
      BY DvcVideoConstants
    <3> QED
      BY <1>0, <2>1, <3>1, Zenon DEF Histories
  <2>7. hist'.last = 0 /\ hist'.rearmed = TRUE /\ hist'.ending = FALSE
    BY <1>0, <2>1, SMT DEF Histories
  <2> QED
    BY <2>2, <2>4, <2>5, <2>6, <2>7, VacantTold, Zenon
<1> QED
  BY <1>1, <1>2, <1>3, <1>4, <1>5, Zenon DEF write_syscmd

-----------------------------------------------------------------------------
(* The steps: data. *)

\* A unit is never lost: there is room for it.
LEMMA WrittenFields ==
    ASSUME NEW d, Decoder(d), ~buffer_full(d), NEW u \in Units(MaxNr),
           NEW e, e = write(d, u)
    PROVE  /\ Decoder(e) /\ e.fifo = Append(d.fifo, u) /\ e.frames = d.frames
           /\ e.ended = d.ended /\ e.past = d.past /\ e.future = d.future
           /\ e.size = d.size /\ e.display = d.display
<1>1. /\ d \in Decoders /\ Len(d.fifo) \in Nat /\ {d.past, d.future, d.work} = Slots
      /\ d.fifo \in Seq(Units(MaxNr))
  BY DecoderFields, Zenon DEF Decoder
<1>2. Len(d.fifo) < Limit
  BY <1>1, VideoConstants DEF buffer_full
<1> DEFINE more == Append(d.fifo, u)
<1>3. e = [d EXCEPT !.fifo = more]
  BY <1>1, <1>2 DEF write, Decoders
<1>4. more \in Seq(Units(MaxNr)) /\ Len(more) <= Limit
  <2> DEFINE U == Units(MaxNr)
  <2>1. d.fifo \in Seq(U) /\ u \in U /\ Len(d.fifo) \in Nat
    BY <1>1
  <2> HIDE DEF U
  <2>2. more \in Seq(U) /\ Len(more) = Len(d.fifo) + 1
    BY <2>1
  <2> QED
    BY <1>2, <2>1, <2>2, VideoConstants DEF U
<1> HIDE DEF more
<1>5. e \in Decoders
  BY <1>1, <1>3, <1>4, Zenon DEF Decoders
<1>6. /\ e.fifo = more /\ e.frames = d.frames /\ e.ended = d.ended /\ e.past = d.past
      /\ e.future = d.future /\ e.work = d.work /\ e.size = d.size /\ e.display = d.display
  BY <1>1, <1>3, SMT DEF Decoders
<1>7. Decoder(e)
  BY <1>1, <1>4, <1>5, <1>6, Zenon DEF Decoder
<1> QED
  BY <1>6, <1>7 DEF more

\* The stream goes on with the unit.
LEMMA WrittenFollow ==
    ASSUME NEW d, Decoder(d), NEW s, NEW t, NEW waits, NEW last, Following(d, s, waits, last),
           SourceContext(t) \in Contexts, NEW u \in Units(MaxNr),
           Advances(s, u, t),
           NEW e, e.fifo = Append(d.fifo, u), e.frames = d.frames, e.past = d.past,
           e.future = d.future, e.size = d.size, e.display = d.display
    PROVE  Following(e, t, waits, last)
<1>1. PICK context \in [0..Len(d.fifo) -> Contexts] :
         /\ Stream(d.fifo, s, context)
         /\ Fits(d, context[0])
         /\ Ordered(d, waits, last, context[0])
  BY DEF Following
<1> DEFINE fifo == d.fifo
           more == e.fifo
<1>2. fifo \in Seq(Units(MaxNr)) /\ more = Append(fifo, u) /\ Stream(fifo, s, context)
  BY <1>1, DecoderFields, Zenon DEF Decoder
<1> HIDE DEF fifo, more
<1>3. PICK longer \in [0..Len(more) -> Contexts] :
         Stream(more, t, longer) /\ longer[0] = context[0]
  BY <1>2, Appended, SMTT(60)
<1>4. Fits(e, longer[0]) /\ Ordered(e, waits, last, longer[0])
  BY <1>1, <1>3, Zenon DEF Fits, Ordered
<1> QED
  BY <1>3, <1>4, Zenon DEF Following, more

\* An end code that was written is remembered.
LEMMA WrittenRemember ==
    ASSUME NEW d, Decoder(d), NEW u \in Units(MaxNr), NEW e,
           e.fifo = Append(d.fifo, u), e.ended = d.ended,
           Remembers(d) \/ u.code = "end"
    PROVE  Remembers(e)
<1> DEFINE fifo == d.fifo
           U == Units(MaxNr)
<1>1. fifo \in Seq(U) /\ u \in U /\ e.fifo = Append(fifo, u)
  BY DecoderFields, Zenon DEF Decoder
<1> HIDE DEF fifo, U
<1>2. /\ DOMAIN fifo = 1..Len(fifo) /\ Len(fifo) \in Nat
      /\ DOMAIN e.fifo = 1..(Len(fifo) + 1)
      /\ e.fifo[Len(fifo) + 1] = u
      /\ \A i \in 1..Len(fifo) : e.fifo[i] = fifo[i]
  BY <1>1
<1>3. Len(fifo) + 1 \in DOMAIN e.fifo /\ \A i \in DOMAIN fifo : i \in DOMAIN e.fifo
  BY <1>2
<1> QED
  BY <1>2, <1>3, Zenon DEF Remembers, fifo

\* A unit that continues the stream goes into the FIFO.
LEMMA FeedTold ==
    ASSUME Told(m_video, src, pace, hist), pace \in Paces,
           NEW u \in Units(MaxNr), Feed(u), Disc(src'),
           Advances(src, u, src')
    PROVE  Told(m_video, src, pace, hist)'
<1>0. /\ Decoder(m_video) /\ hist \in Histories
      /\ Following(m_video, src, pace.pending, hist.last)
      /\ hist.ending => Remembers(m_video)
  BY Zenon DEF Told, Clip
<1>1. /\ ~buffer_full(m_video) /\ m_video' = write(m_video, u)
      /\ pace' = [pace EXCEPT !.underflow = FALSE]
      /\ hist' = [hist EXCEPT !.rearmed = TRUE, !.ending = @ \/ u = EndUnit]
  BY Zenon DEF Feed
<1>2. /\ Decoder(m_video') /\ m_video'.fifo = Append(m_video.fifo, u)
      /\ m_video'.frames = m_video.frames /\ m_video'.ended = m_video.ended
      /\ m_video'.past = m_video.past /\ m_video'.future = m_video.future
      /\ m_video'.size = m_video.size /\ m_video'.display = m_video.display
  BY <1>0, <1>1, WrittenFields
<1>3. pace'.pending = pace.pending
  BY <1>1, SMT DEF Paces
<1> DEFINE ending == hist.ending \/ u = EndUnit
<1>4. ending \in BOOLEAN /\ hist' = [hist EXCEPT !.rearmed = TRUE, !.ending = ending]
  <2>1. hist' = [hist EXCEPT !.rearmed = TRUE, !.ending = hist.ending \/ u = EndUnit]
    BY <1>0, <1>1 DEF Histories
  <2> QED
    BY <2>1
<1> HIDE DEF ending
<1>5. hist' \in Histories
  BY <1>0, <1>4, Zenon DEF Histories
<1>6. hist'.last = hist.last /\ hist'.rearmed = TRUE /\ hist'.ending = ending
  BY <1>0, <1>4, SMT DEF Histories
<1>7. Following(m_video', src', pace'.pending, hist'.last)
  <2>1. SourceContext(src') \in Contexts
    BY DiscContext
  <2>2. Following(m_video', src', pace.pending, hist.last)
    BY <1>0, <1>2, <2>1, WrittenFollow
  <2> QED
    BY <1>3, <1>6, <2>2
<1>8. hist'.ending => Remembers(m_video')
  <2>1. EndUnit.code = "end"
    BY DEF EndUnit
  <2>2. ASSUME hist'.ending
        PROVE  Remembers(m_video) \/ u.code = "end"
    BY <1>0, <1>6, <2>1, <2>2, Zenon DEF ending
  <2> QED
    BY <1>0, <1>2, <2>2, WrittenRemember
<1> QED
  BY <1>2, <1>5, <1>6, <1>7, <1>8, Zenon DEF Told, Clip

\* Data does not change the types.
LEMMA FeedTypes ==
    ASSUME Controlled(ctl, pace, m_fmv_isr), NEW u, Feed(u)
    PROVE  Controlled(ctl, pace, m_fmv_isr)'
<1>1. PICK dma \in BOOLEAN : ctl' = [ctl EXCEPT !.pausing = @ /\ ~dma]
  BY Zenon DEF Feed
<1> DEFINE pausing == ctl.pausing /\ ~dma
<1>2. ctl' = [ctl EXCEPT !.pausing = pausing] /\ pausing \in BOOLEAN
  BY <1>1 DEF Controlled, Controls
<1> HIDE DEF pausing
<1>3. ctl' \in Controls
  BY <1>2, Zenon DEF Controlled, Controls
<1>4. pace' \in Paces
  BY Zenon DEF Controlled, Paces, Feed
<1>5. m_fmv_isr' \subseteq Watched
  BY Zenon DEF Controlled, Feed
<1> QED
  BY <1>3, <1>4, <1>5, Zenon DEF Controlled

\* A sequence header or an end code leaves the disc where it stands.
LEMMA FeedSequenceTold ==
    ASSUME Told(m_video, src, pace, hist), pace \in Paces, FeedSequence
    PROVE  Told(m_video, src, pace, hist)'
<1>1. PICK size \in Sizes : Feed(SeqUnit(size))
  BY Zenon DEF FeedSequence
<1> DEFINE u == SeqUnit(size)
<1>2. u \in Units(MaxNr) /\ u.code = "seq"
  BY SMT DEF SeqUnit, Units
<1>3. Disc(src) /\ src' = [src EXCEPT !.open = TRUE, !.intra = TRUE]
  BY Zenon DEF FeedSequence, Told
<1>4. src'.owed = src.owed /\ src'.anchor = src.anchor /\ src'.before = src.before
  BY <1>3, SMT DEF Disc
<1>5. Disc(src')
  <2>1. src' \in [open : BOOLEAN, intra : BOOLEAN, owed : 0..MaxNr, anchor : 0..MaxNr,
                  before : 0..MaxNr]
    BY <1>3, Zenon DEF Disc
  <2> QED
    BY <1>3, <1>4, <2>1, Zenon DEF Disc
<1>6. SourceContext(src') = SourceContext(src)
  BY <1>4, Zenon DEF SourceContext
<1> HIDE DEF u
<1>7. Feed(u)
  BY <1>1 DEF u
<1> QED
  BY <1>2, <1>5, <1>6, <1>7, FeedTold DEF Advances

LEMMA FeedEndTold ==
    ASSUME Told(m_video, src, pace, hist), pace \in Paces, FeedEnd
    PROVE  Told(m_video, src, pace, hist)'
<1> DEFINE u == EndUnit
<1>1. u \in Units(MaxNr) /\ u.code = "end"
  BY SMT DEF EndUnit, Units
<1>3. Disc(src) /\ src' = [src EXCEPT !.open = FALSE] /\ Feed(u)
  BY Zenon DEF FeedEnd, Told
<1>4. src'.owed = src.owed /\ src'.anchor = src.anchor /\ src'.before = src.before
  BY <1>3, SMT DEF Disc
<1>5. Disc(src')
  <2>1. src' \in [open : BOOLEAN, intra : BOOLEAN, owed : 0..MaxNr, anchor : 0..MaxNr,
                  before : 0..MaxNr]
    BY <1>3, Zenon DEF Disc
  <2> QED
    BY <1>3, <1>4, <2>1, Zenon DEF Disc
<1>6. SourceContext(src') = SourceContext(src)
  BY <1>4, Zenon DEF SourceContext
<1> HIDE DEF u
<1> QED
  BY <1>1, <1>3, <1>5, <1>6, FeedTold DEF Advances

\* An anchor refers to the anchor before it.
LEMMA FeedAnchorTold ==
    ASSUME Told(m_video, src, pace, hist), pace \in Paces, FeedAnchor
    PROVE  Told(m_video, src, pace, hist)'
<1>1. PICK gap \in 0..MaxGap, type \in Anchors :
         LET nr == src.anchor + gap + 1 IN
         /\ nr <= MaxNr
         /\ Feed(PicUnit(type, nr, IF type = "P" THEN {"fwd"} ELSE {}, src.anchor, 0))
         /\ src' = [src EXCEPT !.before = src.anchor, !.anchor = nr,
                               !.owed = gap, !.intra = FALSE]
  BY Zenon DEF FeedAnchor
<1> DEFINE nr == src.anchor + gap + 1
           needs == IF type = "P" THEN {"fwd"} ELSE {}
           u == PicUnit(type, nr, needs, src.anchor, 0)
<1>2. /\ Disc(src) /\ src.owed = 0 /\ src.anchor \in 0..MaxNr /\ gap \in Nat
      /\ nr \in 0..MaxNr /\ gap \in 0..MaxNr /\ src.anchor < nr
      /\ src.anchor < nr - gap /\ nr - gap - 1 = src.anchor
  <2>1. Disc(src) /\ src.owed = 0
    BY Zenon DEF FeedAnchor, Told
  <2>2. src.anchor \in 0..MaxNr
    BY <2>1, DiscContext
  <2> QED
    BY <1>1, <2>1, <2>2, DvcVideoConstants
<1>3. src' = [src EXCEPT !.before = src.anchor, !.anchor = nr, !.owed = gap, !.intra = FALSE]
      /\ Feed(u)
  BY <1>1
<1>4. type \in {"I", "P"} /\ needs \in SUBSET {"fwd", "bwd"} /\ "bwd" \notin needs
  BY DvcVideoConstants
<1> HIDE DEF nr, needs
<1>5. /\ u.code = "pic" /\ u.type = type /\ u.nr = nr /\ u.needs = needs
      /\ u.fwd = src.anchor
  BY DEF PicUnit
<1>6. u \in Units(MaxNr)
  <2>1. 0 \in 0..MaxNr
    BY DvcVideoConstants
  <2> QED
    BY <1>2, <1>4, <2>1, SMT DEF PicUnit, Units
<1>7. src'.before = src.anchor /\ src'.anchor = nr /\ src'.owed = gap
  BY <1>2, <1>3, SMT DEF Disc
<1>8. Disc(src')
  <2>1. src' \in [open : BOOLEAN, intra : BOOLEAN, owed : 0..MaxNr, anchor : 0..MaxNr,
                  before : 0..MaxNr]
    BY <1>2, <1>3, Zenon DEF Disc
  <2> QED
    BY <1>2, <1>7, <2>1, Zenon DEF Disc
<1> HIDE DEF u
<1>9. type # "B"
  BY <1>4
<1>10. Continues(SourceContext(src), u)
  <2>1. SourceContext(src).anchor = src.anchor
    BY <1>2, DiscContext
  <2> QED
    BY <1>2, <1>4, <1>5, <1>9, <2>1, Zenon DEF Continues
<1>11. SourceContext(src') = UnitContext(u)
  <2>1. src'.anchor - src'.owed - 1 = src.anchor
    BY <1>2, <1>7
  <2> QED
    BY <1>5, <1>7, <1>9, <2>1, Zenon DEF SourceContext, UnitContext
<1> QED
  BY <1>3, <1>5, <1>6, <1>8, <1>10, <1>11, FeedTold DEF Advances

\* A B picture lies between the last two anchors.
LEMMA FeedBTold ==
    ASSUME Told(m_video, src, pace, hist), pace \in Paces, FeedB
    PROVE  Told(m_video, src, pace, hist)'
<1>1. PICK needs \in {{"bwd"}, {"fwd", "bwd"}} :
         Feed(PicUnit("B", src.anchor - src.owed, needs, src.before, src.anchor))
  BY Zenon DEF FeedB
<1> DEFINE nr == src.anchor - src.owed
           u == PicUnit("B", nr, needs, src.before, src.anchor)
<1>2. /\ Disc(src) /\ src.owed \in 0..MaxNr /\ src.owed > 0 /\ src.anchor \in 0..MaxNr
      /\ src.before \in 0..MaxNr /\ src' = [src EXCEPT !.owed = src.owed - 1]
      /\ src.before < src.anchor - src.owed
  <2>1. Disc(src) /\ src.owed > 0 /\ src' = [src EXCEPT !.owed = @ - 1]
    BY Zenon DEF FeedB, Told
  <2>2. src.anchor \in 0..MaxNr /\ src.owed \in 0..MaxNr /\ src.before \in 0..MaxNr
    BY <2>1, DiscContext
  <2>3. src' = [src EXCEPT !.owed = src.owed - 1]
    BY <2>1 DEF Disc
  <2> QED
    BY <2>1, <2>2, <2>3 DEF Disc
<1>3. /\ nr \in 0..MaxNr /\ nr < src.anchor /\ src.anchor - src.owed - 1 < nr
      /\ src.owed - 1 \in 0..MaxNr /\ src.anchor - (src.owed - 1) - 1 = nr
      /\ src.before < src.anchor - (src.owed - 1)
  BY <1>2, DvcVideoConstants
<1>4. needs \in SUBSET {"fwd", "bwd"}
  OBVIOUS
<1> HIDE DEF nr
<1>5. /\ u.code = "pic" /\ u.type = "B" /\ u.nr = nr /\ u.fwd = src.before
      /\ u.bwd = src.anchor
  BY DEF PicUnit
<1>6. u \in Units(MaxNr)
  BY <1>2, <1>3, <1>4, SMT DEF PicUnit, Units
<1>7. src'.before = src.before /\ src'.anchor = src.anchor /\ src'.owed = src.owed - 1
  BY <1>2, SMT DEF Disc
<1>8. Disc(src')
  <2>1. src' \in [open : BOOLEAN, intra : BOOLEAN, owed : 0..MaxNr, anchor : 0..MaxNr,
                  before : 0..MaxNr]
    BY <1>2, <1>3, Zenon DEF Disc
  <2> QED
    BY <1>2, <1>3, <1>7, <2>1, Zenon DEF Disc
<1>9. Feed(u)
  BY <1>1 DEF nr
<1> HIDE DEF u
<1>10. Continues(SourceContext(src), u)
  <2>1. /\ SourceContext(src).anchor = src.anchor /\ SourceContext(src).before = src.before
        /\ SourceContext(src).done = src.anchor - src.owed - 1
    BY <1>2, DiscContext
  <2> QED
    BY <1>3, <1>5, <2>1, Zenon DEF Continues
<1>11. SourceContext(src') = UnitContext(u)
  <2>1. src'.anchor - src'.owed - 1 = nr
    BY <1>3, <1>7
  <2> QED
    BY <1>5, <1>7, <2>1, Zenon DEF SourceContext, UnitContext
<1> QED
  BY <1>5, <1>6, <1>8, <1>9, <1>10, <1>11, FeedTold DEF Advances

-----------------------------------------------------------------------------
(* The steps: the decoder clock. *)

\* A tick keeps its counters in their bounds.
LEMMA TickedTypes ==
    ASSUME ctl \in Controls, pace \in Paces
    PROVE  /\ Ticked \in Controls /\ Playing \in BOOLEAN
           /\ Aged \in (-MaxTicks)..MaxTicks
           /\ Ticks \in 1..MaxTicks /\ MaxTicks \in Nat
<1>1. /\ ctl.start \in 0..StartDelay /\ ctl.pause \in 0..PauseDelay
      /\ ctl.playback_active \in BOOLEAN /\ ctl.slow_motion \in Slows
      /\ pace.due \in (-MaxTicks)..MaxTicks
  BY Zenon DEF Controls, Paces
<1>2. Sooner(ctl.start) \in 0..StartDelay /\ Sooner(ctl.pause) \in 0..PauseDelay
  BY <1>1, DvcVideoConstants DEF Sooner
<1>3. Playing \in BOOLEAN
  BY <1>1 DEF Playing, StartsNow
<1> DEFINE start == Sooner(ctl.start)
           pause_ == Sooner(ctl.pause)
<1>4. Ticked = [ctl EXCEPT !.start = start, !.pause = pause_, !.playback_active = Playing]
  BY DEF Ticked, Controls
<1> HIDE DEF start, pause_
<1>5. Ticked \in Controls
  BY <1>2, <1>3, <1>4, Zenon DEF Controls, start, pause_
<1>6. Aged \in (-MaxTicks)..MaxTicks
  BY <1>1, SlowTicks DEF Aged
<1>7. Ticks \in 1..MaxTicks
  BY <1>1, SlowTicks DEF Ticks
<1> QED
  BY <1>3, <1>5, <1>6, <1>7, SlowTicks

\* A picture that is shown or skipped schedules the next: never further away
\* than the longest time a picture is shown.
LEMMA PacedTypes ==
    ASSUME ctl \in Controls, pace \in Paces, ~Held
    PROVE  /\ Paced \in Paces /\ Paced.pending = FALSE
           /\ Paced.underflow = pace.underflow
<1>1. /\ Playing \in BOOLEAN /\ Aged \in (-MaxTicks)..MaxTicks
      /\ Ticks \in 1..MaxTicks /\ MaxTicks \in Nat
  BY TickedTypes
<1>2. pace.seen_first \in BOOLEAN /\ ctl.single_step_pending \in BOOLEAN
  BY Zenon DEF Paces, Controls
<1>3. NextDue \in (-MaxTicks)..MaxTicks
  <2>1. CASE ~Playing \/ ctl.single_step_pending
    BY <1>1, <2>1, Zenon DEF NextDue
  <2>2. CASE ~(~Playing \/ ctl.single_step_pending)
    <3>1. ~pace.seen_first \/ Aged <= 0
      BY <1>1, <2>2 DEF Held
    <3>2. NextDue = IF ~pace.seen_first \/ Aged + Ticks <= 0 THEN Ticks ELSE Aged + Ticks
      BY <2>2, Zenon DEF NextDue
    <3> QED
      BY <1>1, <3>1, <3>2
  <2> QED
    BY <2>1, <2>2
<1> DEFINE seen == pace.seen_first \/ (Playing /\ ~ctl.single_step_pending)
<1>4. seen \in BOOLEAN
  BY <1>1, <1>2
<1>5. Paced = [pace EXCEPT !.pending = FALSE, !.due = NextDue, !.seen_first = seen]
  BY DEF Paced, Paces
<1> HIDE DEF seen
<1>6. Paced \in Paces
  BY <1>3, <1>4, <1>5, Zenon DEF Paces
<1>7. Paced.pending = FALSE /\ Paced.underflow = pace.underflow
  BY <1>5, SMT DEF Paces
<1> QED
  BY <1>6, <1>7

\* The decoder after the picture was taken, shown in order or not.
LEMMA TakenFields ==
    ASSUME Told(m_video, src, pace, hist), pace \in Paces
    PROVE  /\ Decoder(AtHand.d) /\ AtHand.got \in BOOLEAN
           /\ Following(AtHand.d, src, AtHand.got, hist.last)
           /\ hist.ending => Remembers(AtHand.d)
           /\ Decoder(Taken) /\ Taken.fifo = AtHand.d.fifo /\ Taken.ended = AtHand.d.ended
           /\ Taken.frames = AtHand.d.frames /\ Taken.size = AtHand.d.size
           /\ Taken.past = AtHand.d.past /\ Taken.future = AtHand.d.future
           /\ ~Scanning => Taken.display = AtHand.d.display
           /\ AtHand.d.past \in Slots /\ AtHand.d.future \in Slots
<1>1. /\ Decoder(AtHand.d) /\ AtHand.got \in BOOLEAN
      /\ Following(AtHand.d, src, AtHand.got, hist.last)
      /\ hist.ending => Remembers(AtHand.d)
  <2>1. Clip(m_video, src, pace, hist) /\ pace.pending \in BOOLEAN /\ hist.last \in 0..MaxNr
    BY Zenon DEF Told, Histories, Paces
  <2> QED
    BY <2>1, AtHandFollows
<1>2. /\ Decoder(Taken) /\ Taken.fifo = AtHand.d.fifo /\ Taken.ended = AtHand.d.ended
      /\ Taken.frames = AtHand.d.frames /\ Taken.size = AtHand.d.size
      /\ Taken.past = AtHand.d.past /\ Taken.future = AtHand.d.future
      /\ ~Scanning => Taken.display = AtHand.d.display
  <2>1. CASE Scanning
    <3>1. Taken = display_decoded_frame(AtHand.d)
      BY <2>1 DEF Taken
    <3> QED
      BY <1>1, <2>1, <3>1, ScannedFields
  <2>2. CASE ~Scanning
    <3>1. Taken = AtHand.d
      BY <2>2 DEF Taken
    <3> QED
      BY <1>1, <3>1, Zenon
  <2> QED
    BY <2>1, <2>2
<1>3. AtHand.d.past \in Slots /\ AtHand.d.future \in Slots
  BY <1>1, DecoderFields, Zenon DEF Decoder
<1> QED
  BY <1>1, <1>2, <1>3, Zenon

\* The decoder clock keeps the types of what it changes.
LEMMA TickTypes ==
    ASSUME Controlled(ctl, pace, m_fmv_isr), Buffers(m_picture, shown),
           Told(m_video, src, pace, hist), dclk_tick
    PROVE  Controlled(ctl, pace, m_fmv_isr)' /\ Buffers(m_picture, shown)'
<1>0. ctl \in Controls /\ pace \in Paces /\ m_fmv_isr \subseteq Watched
  BY Zenon DEF Controlled
<1>1. Ticked \in Controls /\ Playing \in BOOLEAN /\ Aged \in (-MaxTicks)..MaxTicks
  BY <1>0, TickedTypes
<1>2. m_fmv_isr' \subseteq Watched
  <2>1. ASSUME NEW bits, Raise(bits)
        PROVE  m_fmv_isr' \subseteq Watched
    BY <1>0, <2>1 DEF Raise
  <2> QED
    BY <2>1, Zenon DEF dclk_tick, DecoderOff, NoPicture, HoldPicture, SkipPicture, ShowPicture
<1>3. ctl' \in Controls
  <2>1. CASE ShowPicture
    BY <1>1, <2>1, Zenon DEF ShowPicture, Controls
  <2>2. CASE ctl' = Ticked
    BY <1>1, <2>2, Zenon
  <2> QED
    BY <2>1, <2>2, Zenon DEF dclk_tick, DecoderOff, NoPicture, HoldPicture, SkipPicture
<1>4. pace' \in Paces
  <2>1. CASE DecoderOff
    BY <1>0, <1>1, <2>1, Zenon DEF DecoderOff, Paces
  <2>2. CASE NoPicture
    <3>1. PICK dry \in BOOLEAN : pace' = [pace EXCEPT !.due = Aged, !.underflow = @ \/ dry]
      <4> DEFINE dry == Playing /\ AtHand.d.fifo = <<>> /\ ~pace.underflow
      <4>1. pace' = [pace EXCEPT !.due = Aged, !.underflow = @ \/ dry]
        BY <2>2, Zenon DEF NoPicture
      <4>2. dry \in BOOLEAN
        BY <1>1
      <4> HIDE DEF dry
      <4> QED
        BY <4>1, <4>2, Zenon
    <3> DEFINE underflow == pace.underflow \/ dry
    <3>2. pace' = [pace EXCEPT !.due = Aged, !.underflow = underflow] /\ underflow \in BOOLEAN
      BY <1>0, <3>1 DEF Paces
    <3> HIDE DEF underflow
    <3> QED
      BY <1>0, <1>1, <3>2, Zenon DEF Paces
  <2>3. CASE HoldPicture
    BY <1>0, <1>1, <2>3, Zenon DEF HoldPicture, Paces
  <2>4. CASE SkipPicture \/ ShowPicture
    BY <1>0, <2>4, PacedTypes, Zenon DEF SkipPicture, ShowPicture
  <2> QED
    BY <2>1, <2>2, <2>3, <2>4, Zenon DEF dclk_tick
<1>5. Buffers(m_picture, shown)'
  <2>1. CASE ShowPicture
    <3> DEFINE t == Taken
               f == DisplayFrame(t)
               len == IF t.size # m_picture.size THEN t.size ELSE m_picture.len
    <3>1. \/ m_picture' = [len |-> len, size |-> t.size, nr |-> f.nr, cur |-> TRUE,
                           updated |-> TRUE]
          \/ m_picture' = m_picture
      BY <2>1, Zenon DEF ShowPicture
    <3>2. t.size \in Sizes \cup {0} /\ f \in Frames(MaxNr)
      <4>1. Decoder(t)
        BY <1>0, TakenFields
      <4>2. t.size \in Sizes \cup {0} /\ t.frames \in [Slots -> Frames(MaxNr)]
            /\ t.display \in Slots \cup {None}
        BY <4>1, DecoderFields, Zenon DEF Decoder
      <4>3. t.display # None
        BY <2>1 DEF ShowPicture
      <4> HIDE DEF t
      <4> QED
        BY <4>2, <4>3 DEF DisplayFrame
    <3>3. f.nr \in 0..MaxNr
      BY <3>2, Zenon DEF Frames
    <3>4. len \in Sizes \cup {0} /\ m_picture \in Pictures
      BY <3>2, Zenon DEF Buffers, Pictures
    <3> HIDE DEF f, len, t
    <3>5. m_picture' \in Pictures
      <4>1. CASE m_picture' = m_picture
        BY <3>4, <4>1
      <4>2. CASE m_picture' = [len |-> len, size |-> t.size, nr |-> f.nr, cur |-> TRUE,
                               updated |-> TRUE]
        BY <3>2, <3>3, <3>4, <4>2, SMT DEF Pictures
      <4> QED
        BY <3>1, <4>1, <4>2, Zenon
    <3> QED
      BY <3>5, Zenon DEF Buffers, dclk_tick
  <2>2. CASE UNCHANGED <<m_picture, shown>>
    BY <2>2, Zenon DEF Buffers
  <2> QED
    BY <2>1, <2>2, Zenon DEF dclk_tick, DecoderOff, NoPicture, HoldPicture, SkipPicture
<1> QED
  BY <1>2, <1>3, <1>4, <1>5, Zenon DEF Controlled

\* Each case of the decoder clock, and the order it displays pictures in.
LEMMA TickTold ==
    ASSUME Told(m_video, src, pace, hist), pace \in Paces, ctl \in Controls, dclk_tick
    PROVE  /\ Told(m_video, src, pace, hist)'
           /\ hist.last # 0 /\ hist'.last # 0 /\ hist'.last # hist.last
                => hist'.last > hist.last
<1>0. /\ Decoder(m_video) /\ Disc(src) /\ hist \in Histories
      /\ Following(m_video, src, pace.pending, hist.last)
      /\ hist.ending => Remembers(m_video)
      /\ ~hist.rearmed => pace.underflow
      /\ src' = src
  BY Zenon DEF Told, Clip, dclk_tick
<1> DEFINE d == AtHand.d
<1>1. /\ Decoder(d) /\ AtHand.got \in BOOLEAN
      /\ Following(d, src, AtHand.got, hist.last)
      /\ hist.ending => Remembers(d)
      /\ d.past \in Slots /\ d.future \in Slots
  BY TakenFields
<1>2. /\ Decoder(Taken) /\ Taken.fifo = d.fifo /\ Taken.ended = d.ended
      /\ Taken.frames = d.frames /\ Taken.size = d.size
      /\ Taken.past = d.past /\ Taken.future = d.future
      /\ ~Scanning => Taken.display = d.display
  BY TakenFields
<1> HIDE DEF d
<1>3. \A i \in Slots : d.frames[i].valid => d.size # 0
  BY <1>1, Zenon DEF Following, Fits
<1>4. CASE DecoderOff
  <2>1. UNCHANGED <<m_video, hist>> /\ pace' = [pace EXCEPT !.due = Aged]
    BY <1>4, Zenon DEF DecoderOff
  <2>2. pace'.pending = pace.pending /\ pace'.underflow = pace.underflow
    BY <2>1, SMT DEF Paces
  <2>3. Told(m_video, src, pace', hist)
    BY <1>0, <2>2, Zenon DEF Told, Clip
  <2> QED
    BY <1>0, <2>1, <2>3, Zenon
<1>5. CASE NoPicture
  <2> DEFINE dry == Playing /\ d.fifo = <<>> /\ ~pace.underflow
             underflow == pace.underflow \/ dry
             rearmed == hist.rearmed /\ ~dry
             ending == hist.ending /\ ~d.ended
  <2>1. /\ m_video' = clear_sequence_ended(d) /\ ~AtHand.got
        /\ pace' = [pace EXCEPT !.due = Aged, !.underflow = @ \/ dry]
        /\ hist' = [hist EXCEPT !.rearmed = @ /\ ~dry, !.ending = @ /\ ~d.ended]
    BY <1>5, Zenon DEF NoPicture, d
  <2>2. /\ pace' = [pace EXCEPT !.due = Aged, !.underflow = underflow]
        /\ hist' = [hist EXCEPT !.rearmed = rearmed, !.ending = ending]
    BY <1>0, <2>1 DEF Paces, Histories
  <2>3. ending \in BOOLEAN /\ rearmed \in BOOLEAN /\ underflow \in BOOLEAN
    OBVIOUS
  <2>4. (~rearmed => underflow) /\ (ending => hist.ending /\ ~d.ended)
    BY <1>0, Zenon
  <2> HIDE DEF ending, rearmed, underflow, dry
  <2>5. hist' \in Histories
    BY <1>0, <2>2, <2>3, Zenon DEF Histories
  <2>6. /\ hist'.last = hist.last /\ hist'.rearmed = rearmed /\ hist'.ending = ending
    BY <1>0, <2>2, SMT DEF Histories
  <2>7. pace'.pending = pace.pending /\ pace'.underflow = underflow
    BY <2>2, SMT DEF Paces
  <2>8. /\ Decoder(m_video') /\ m_video'.fifo = d.fifo /\ m_video'.frames = d.frames
        /\ m_video'.past = d.past /\ m_video'.future = d.future /\ m_video'.size = d.size
        /\ m_video'.display = d.display
    BY <1>1, <2>1, AnnouncedFields
  <2>9. pace.pending = FALSE
    <3>1. pace.pending \in BOOLEAN
      BY Zenon DEF Paces
    <3>2. ASSUME pace.pending
          PROVE  FALSE
      <4>1. AtHand.got = TRUE
        BY <3>2 DEF AtHand
      <4> QED
        BY <2>1, <4>1
    <3> QED
      BY <3>1, <3>2
  <2>10. Following(m_video', src, FALSE, hist.last)
    BY <1>1, <1>3, <2>8, Reframed, Zenon
  <2>11. ending => Remembers(m_video')
    BY <1>1, <2>4, <2>8, Zenon DEF Remembers
  <2>12. Told(m_video', src, pace', hist')
    BY <1>0, <2>4, <2>5, <2>6, <2>7, <2>8, <2>9, <2>10, <2>11, Zenon DEF Told, Clip
  <2> QED
    BY <1>0, <2>6, <2>12, Zenon
<1>6. CASE HoldPicture
  <2>1. /\ m_video' = d /\ hist' = hist /\ AtHand.got
        /\ pace' = [pace EXCEPT !.pending = TRUE, !.due = Aged]
    BY <1>6, Zenon DEF HoldPicture, d
  <2>2. pace'.pending = TRUE /\ pace'.underflow = pace.underflow
    BY <2>1, SMT DEF Paces
  <2>3. AtHand.got = TRUE
    BY <1>1, <2>1
  <2>4. Told(m_video', src, pace', hist)
    BY <1>0, <1>1, <2>1, <2>2, <2>3, Zenon DEF Told, Clip
  <2> QED
    BY <1>0, <2>1, <2>4, Zenon
<1>7. CASE SkipPicture
  <2>1. m_video' = Taken /\ hist' = hist /\ pace' = Paced /\ ~Held
    BY <1>7, Zenon DEF SkipPicture
  <2>2. pace'.pending = FALSE /\ pace'.underflow = pace.underflow
    BY <2>1, PacedTypes
  <2>3. Following(Taken, src, FALSE, hist.last)
    BY <1>1, <1>2, <1>3, Reframed, Zenon
  <2>4. hist.ending => Remembers(Taken)
    BY <1>1, <1>2, Zenon DEF Remembers
  <2>5. Told(Taken, src, pace', hist)
    BY <1>0, <1>2, <2>2, <2>3, <2>4, Zenon DEF Told, Clip
  <2> QED
    BY <1>0, <2>1, <2>5, Zenon
<1>8. CASE ShowPicture
  <2> DEFINE f == DisplayFrame(Taken)
             last == IF Scanning THEN 0 ELSE f.nr
             ending == hist.ending /\ ~Taken.ended
  <2>1. /\ m_video' = clear_sequence_ended(Taken) /\ pace' = Paced /\ ~Held
        /\ AtHand.got /\ Taken.display # None
        /\ hist' = [hist EXCEPT !.last = last, !.ending = @ /\ ~Taken.ended]
    BY <1>8, Zenon DEF ShowPicture
  <2>2. hist' = [hist EXCEPT !.last = last, !.ending = ending] /\ ending \in BOOLEAN
    BY <1>0, <2>1 DEF Histories
  <2>3. pace'.pending = FALSE /\ pace'.underflow = pace.underflow
    BY <2>1, PacedTypes
  <2>4. /\ Decoder(m_video') /\ m_video'.fifo = d.fifo /\ m_video'.frames = d.frames
        /\ m_video'.past = d.past /\ m_video'.future = d.future /\ m_video'.size = d.size
    BY <1>2, <2>1, AnnouncedFields
  <2>5. /\ Following(d, src, FALSE, 0)
        /\ d.display # None =>
              /\ Following(d, src, FALSE, d.frames[d.display].nr)
              /\ hist.last = 0 \/ hist.last < d.frames[d.display].nr
    BY <1>1, <2>1, Displayed, Zenon
  <2>6. ~Scanning => d.display # None /\ f = d.frames[d.display]
    BY <1>2, <2>1, Zenon DEF DisplayFrame
  <2>7. Following(d, src, FALSE, last)
    BY <2>5, <2>6, Zenon
  <2>8. last = 0 \/ hist.last = 0 \/ hist.last < last
    BY <2>5, <2>6, Zenon
  <2>9. last \in 0..MaxNr
    <3>1. CASE Scanning
      BY <3>1, DvcVideoConstants
    <3>2. CASE ~Scanning
      <4>1. d.frames \in [Slots -> Frames(MaxNr)] /\ d.display \in Slots \cup {None}
        BY <1>1, DecoderFields, Zenon DEF Decoder
      <4>2. f \in Frames(MaxNr)
        BY <2>6, <3>2, <4>1
      <4>3. f.nr \in 0..MaxNr
        BY <4>2, Zenon DEF Frames
      <4> QED
        BY <3>2, <4>3
    <3> QED
      BY <3>1, <3>2
  <2>10. ending => hist.ending /\ ~d.ended
    BY <1>2, Zenon
  <2> HIDE DEF last, ending, f
  <2>11. hist' \in Histories
    BY <1>0, <2>2, <2>9, Zenon DEF Histories
  <2>12. hist'.last = last /\ hist'.rearmed = hist.rearmed /\ hist'.ending = ending
    BY <1>0, <2>2, SMT DEF Histories
  <2>13. Following(m_video', src, FALSE, last)
    BY <1>1, <1>3, <2>4, <2>7, Reframed, Zenon
  <2>14. ending => Remembers(m_video')
    BY <1>1, <2>4, <2>10, Zenon DEF Remembers
  <2>15. Told(m_video', src, pace', hist')
    BY <1>0, <2>3, <2>4, <2>11, <2>12, <2>13, <2>14, Zenon DEF Told, Clip
  <2>16. hist.last # 0 /\ hist'.last # 0 => hist'.last > hist.last
    <3>1. hist.last \in Int /\ last \in Int
      BY <1>0, <2>9, DvcVideoConstants DEF Histories
    <3> QED
      BY <2>8, <2>12, <3>1
  <2> QED
    BY <1>0, <2>15, <2>16, Zenon
<1> QED
  BY <1>4, <1>5, <1>6, <1>7, <1>8, Zenon DEF dclk_tick

-----------------------------------------------------------------------------
(* The steps: display, reset and save states. *)

\* The buffers change places.
LEMMA VblankBuffers ==
    ASSUME ctl \in Controls, Buffers(m_picture, shown), vblank_update
    PROVE  Buffers(m_picture, shown)'
<1>1. m_picture \in Pictures /\ shown \in Displays
  BY DEF Buffers
<1> DEFINE enabled == ctl.show /\ ctl.dsp_enable
<1>2. enabled \in BOOLEAN
  BY Zenon DEF Controls
<1>3. /\ m_picture.len \in Sizes \cup {0} /\ m_picture.size \in Sizes \cup {0}
      /\ m_picture.nr \in 0..MaxNr /\ m_picture.cur \in BOOLEAN
      /\ shown.len \in Sizes \cup {0} /\ shown.size \in Sizes \cup {0}
      /\ shown.nr \in 0..MaxNr /\ shown.cur \in BOOLEAN
  BY <1>1, Zenon DEF Pictures, Displays
<1> HIDE DEF enabled
<1>4. CASE m_picture.updated
  <2>1. m_picture' = [len |-> shown.len, size |-> shown.size, nr |-> shown.nr,
                      cur |-> shown.cur, updated |-> FALSE]
    BY <1>4, Zenon DEF vblank_update
  <2>2. shown' = [len |-> m_picture.len, size |-> m_picture.size, nr |-> m_picture.nr,
                  cur |-> m_picture.cur, valid |-> TRUE, enabled |-> enabled]
    BY <1>4, Zenon DEF vblank_update, enabled
  <2>3. m_picture' \in Pictures
    BY <1>3, <2>1, SMT DEF Pictures
  <2>4. shown' \in Displays
    BY <1>2, <1>3, <2>2, SMT DEF Displays
  <2> QED
    BY <2>3, <2>4 DEF Buffers
<1>5. CASE ~m_picture.updated
  <2>1. m_picture' = m_picture /\ shown' = [shown EXCEPT !.enabled = enabled]
    BY <1>5, Zenon DEF vblank_update, enabled
  <2>2. shown' \in Displays
    BY <1>1, <1>2, <2>1, Zenon DEF Displays
  <2> QED
    BY <1>1, <2>1, <2>2 DEF Buffers
<1> QED
  BY <1>4, <1>5

\* The power-on state of the controls and the buffers.
LEMMA InitialTypes ==
    /\ CtlInit \in Controls /\ PaceInit \in Paces
    /\ PictureInit \in Pictures /\ ShownInit \in Displays
    /\ HistoryInit \in Histories
<1>1. CtlInit \in Controls
  BY DvcVideoConstants, SMT DEF CtlInit, Controls
<1>2. PaceInit \in Paces
  <2>1. 0 \in (-MaxTicks)..MaxTicks
    BY SlowTicks
  <2> QED
    BY <2>1, SMT DEF PaceInit, Paces
<1>3. 0 \in 0..MaxNr /\ 0 \in Sizes \cup {0}
  BY DvcVideoConstants
<1> QED
  BY <1>1, <1>2, <1>3, SMT DEF PictureInit, Pictures, ShownInit, Displays,
                               HistoryInit, Histories

\* A reset drops the stream and the frames.
LEMMA ResetTold ==
    ASSUME Told(m_video, src, pace, hist), device_reset
    PROVE  Told(m_video, src, pace, hist)'
<1>1. /\ m_video' = Fresh /\ pace' = PaceInit /\ hist' = HistoryInit
      /\ src' = [src EXCEPT !.open = FALSE, !.intra = TRUE, !.owed = 0]
  BY Zenon DEF device_reset
<1>2. Vacant(m_video')
  BY <1>1, FreshVacant, Zenon
<1>3. Disc(src') /\ SourceContext(src).done <= SourceContext(src').done
  BY <1>1, DiscRestarts, Zenon DEF Told
<1>4. pace'.pending = FALSE
  BY <1>1 DEF PaceInit
<1>5. hist' \in Histories /\ hist'.last = 0 /\ hist'.rearmed = TRUE /\ hist'.ending = FALSE
  BY <1>1, InitialTypes, SMT DEF HistoryInit
<1> QED
  BY <1>2, <1>3, <1>4, <1>5, VacantTold, Zenon

\* A state brings its decoder, its disc and its history back together.
LEMMA LoadTold ==
    ASSUME Decoder(m_video), Told(saved.m_video, saved.src, saved.pace, saved.hist),
           saved.pace \in Paces, device_post_load
    PROVE  Told(m_video, src, pace, hist)'
<1> DEFINE s == saved.m_video
<1>1. /\ m_video' = LoadedVideo /\ src' = saved.src /\ pace' = saved.pace
      /\ hist' = saved.hist
  BY Zenon DEF device_post_load
<1>2. /\ Decoder(s) /\ Following(s, saved.src, saved.pace.pending, saved.hist.last)
      /\ saved.hist.ending => Remembers(s)
  BY Zenon DEF Told, Clip
<1>3. m_video' = set_decoder_state(set_sequence_state(m_video, s.size), s)
  BY <1>1, Zenon DEF LoadedVideo
<1> HIDE DEF s
<1>4. Decoder(m_video') /\ Carries(m_video', s)
  BY <1>2, <1>3, LoadedFields, SMTT(60)
<1>5. s.past \in Slots /\ s.future \in Slots
  BY <1>2, DecoderFields, Zenon DEF Decoder
<1>6. Following(m_video', saved.src, saved.pace.pending, saved.hist.last)
  BY <1>2, <1>4, <1>5, Reframed, Zenon DEF Carries
<1>7. saved.hist.ending => Remembers(m_video')
  BY <1>2, <1>4, Zenon DEF Remembers, Carries
<1>8. Told(m_video', saved.src, saved.pace, saved.hist)
  BY <1>4, <1>6, <1>7, Zenon DEF Told, Clip
<1> QED
  BY <1>1, <1>8, Zenon

\* A state brings buffers of the right type.
LEMMA LoadBuffers ==
    ASSUME Decoder(m_video), Decoder(saved.m_video),
           Buffers(saved.m_picture, saved.shown), device_post_load
    PROVE  Buffers(m_picture, shown)'
<1> DEFINE p == saved.m_picture
           t == saved.shown
           refill == p.updated /\ p.size # 0 /\ LoadedVideo.display # None
           nr == IF refill THEN DisplayFrame(LoadedVideo).nr ELSE 0
           cur == IF refill THEN TRUE ELSE p.cur
           number == IF saved.pixels # 0 THEN t.nr ELSE 0
           valid == saved.pixels # 0
<1>1. p \in Pictures /\ t \in Displays
  BY Zenon DEF Buffers
<1>2. m_picture' = [len |-> p.size, size |-> p.size, nr |-> nr, cur |-> cur,
                    updated |-> refill]
  BY Zenon DEF device_post_load, LoadedPicture
<1>3. shown' = [t EXCEPT !.len = t.size, !.nr = number, !.valid = valid]
  <2>1. shown' = [t EXCEPT !.len = t.size,
                     !.nr = IF saved.pixels # 0 THEN @ ELSE 0, !.valid = valid]
    BY Zenon DEF device_post_load
  <2> HIDE DEF t, valid
  <2> QED
    BY <1>1, <2>1, SMT DEF Displays, t
<1>4. nr \in 0..MaxNr
  <2>0. 0 \in 0..MaxNr
    BY DvcVideoConstants
  <2>1. ASSUME LoadedVideo.display # None
        PROVE  DisplayFrame(LoadedVideo).nr \in 0..MaxNr
    <3> DEFINE e == LoadedVideo
    <3>1. e = set_decoder_state(set_sequence_state(m_video, saved.m_video.size), saved.m_video)
      BY DEF LoadedVideo
    <3> HIDE DEF e
    <3>2. Decoder(e)
      BY <3>1, LoadedFields
    <3>3. e.frames \in [Slots -> Frames(MaxNr)] /\ e.display \in Slots \cup {None}
      BY <3>2, DecoderFields, Zenon DEF Decoder
    <3>4. e.display # None
      BY <2>1 DEF e
    <3>5. e.frames[e.display] \in Frames(MaxNr)
      BY <3>3, <3>4
    <3>6. e.frames[e.display].nr \in 0..MaxNr
      BY <3>5, Zenon DEF Frames
    <3> QED
      BY <3>6, Zenon DEF DisplayFrame, e
  <2> QED
    BY <2>0, <2>1, Zenon
<1>5. /\ p.size \in Sizes \cup {0} /\ p.cur \in BOOLEAN /\ p.updated \in BOOLEAN
      /\ t.size \in Sizes \cup {0} /\ t.nr \in 0..MaxNr
  BY <1>1, Zenon DEF Pictures, Displays
<1>6. cur \in BOOLEAN /\ refill \in BOOLEAN /\ valid \in BOOLEAN /\ number \in 0..MaxNr
  <2>1. 0 \in 0..MaxNr
    BY DvcVideoConstants
  <2> QED
    BY <1>5, <2>1, Zenon
<1> HIDE DEF p, t, refill, nr, cur, number, valid
<1>7. m_picture' \in Pictures
  BY <1>2, <1>4, <1>5, <1>6, SMT DEF Pictures
<1>8. shown' \in Displays
  BY <1>1, <1>3, <1>5, <1>6, Zenon DEF Displays
<1> QED
  BY <1>7, <1>8 DEF Buffers

\* The machine starts with an empty decoder.
LEMMA InitVInv == Init => VInv
<1> SUFFICES ASSUME Init
             PROVE  VInv
  OBVIOUS
<1>1. /\ m_video = Fresh /\ ctl = CtlInit /\ pace = PaceInit /\ m_fmv_isr = {}
      /\ m_picture = PictureInit /\ shown = ShownInit /\ hist = HistoryInit
      /\ src = [open |-> FALSE, intra |-> TRUE, owed |-> 0, anchor |-> 0, before |-> 0]
      /\ saved = NoState
  BY Zenon DEF Init
<1>2. Disc(src)
  <2>1. 0 \in 0..MaxNr
    BY DvcVideoConstants
  <2>2. src.owed = 0
    BY <1>1
  <2>3. src \in [open : BOOLEAN, intra : BOOLEAN, owed : 0..MaxNr, anchor : 0..MaxNr,
                 before : 0..MaxNr]
    BY <1>1, <2>1
  <2> QED
    BY <2>2, <2>3 DEF Disc
<1>3. Following(m_video, src, FALSE, 0)
  <2>1. SourceContext(src) \in Contexts
    BY <1>2, DiscContext
  <2>2. Vacant(m_video)
    BY <1>1, FreshVacant, Zenon
  <2> QED
    BY <2>1, <2>2, Emptied, Zenon DEF Vacant
<1>4. pace.pending = FALSE /\ hist.last = 0 /\ hist.rearmed = TRUE /\ hist.ending = FALSE
  BY <1>1 DEF PaceInit, HistoryInit
<1>5. Decoder(m_video)
  BY <1>1, FreshVacant, Zenon DEF Vacant
<1>6. Told(m_video, src, pace, hist)
  BY <1>1, <1>2, <1>3, <1>4, <1>5, InitialTypes, Zenon DEF Told, Clip
<1>7. m_fmv_isr \subseteq Watched
  BY <1>1
<1> QED
  BY <1>1, <1>6, <1>7, InitialTypes, Zenon DEF VInv, Controlled, Buffers

\* What holds of the machine, and of a state, is preserved by every step; a
\* picture that is displayed comes after the one before.
LEMMA NextVInv ==
    ASSUME VInv, [Next]_vars
    PROVE  /\ VInv'
           /\ hist.last # 0 /\ hist'.last # 0 /\ hist'.last # hist.last
                => hist'.last > hist.last \/ device_post_load
<1>0. /\ Controlled(ctl, pace, m_fmv_isr) /\ Buffers(m_picture, shown)
      /\ Told(m_video, src, pace, hist)
      /\ ctl \in Controls /\ pace \in Paces /\ m_fmv_isr \subseteq Watched
      /\ saved # NoState =>
            /\ Controlled(saved.ctl, saved.pace, saved.m_fmv_isr)
            /\ Buffers(saved.m_picture, saved.shown)
            /\ Told(saved.m_video, saved.src, saved.pace, saved.hist)
  BY Zenon DEF VInv, Controlled
<1> DEFINE Ahead == hist.last # 0 /\ hist'.last # 0 /\ hist'.last # hist.last
                       => hist'.last > hist.last
<1>1. CASE write_syscmd
  <2>1. saved' = saved
    BY <1>1 DEF write_syscmd
  <2>2. /\ Controlled(ctl, pace, m_fmv_isr)' /\ Buffers(m_picture, shown)'
        /\ Told(m_video, src, pace, hist)'
    BY <1>0, <1>1, CommandTypes, CommandTold, Zenon
  <2>3. VInv'
    BY <1>0, <2>1, <2>2, Zenon DEF VInv
  <2>4. hist'.last = hist.last \/ hist'.last = 0
    <3>1. hist \in Histories
      BY <1>0, Zenon DEF Told
    <3>2. CASE dec_off
      BY <3>1, <3>2, SMT DEF dec_off, DecOff, Histories
    <3>3. CASE clear_fifo_cmd
      BY <3>1, <3>3, SMT DEF clear_fifo_cmd, Histories
    <3>4. CASE play
      BY <3>1, <3>4, SMT DEF play, Histories
    <3>5. CASE pause \/ continue \/ stop
      <4>1. PICK running \in BOOLEAN : hist' = [hist EXCEPT !.running = running]
        BY <3>5, Zenon DEF pause, stop, continue
      <4> QED
        BY <3>1, <4>1, SMT DEF Histories
    <3>6. CASE step \/ dec_on
      BY <3>6, Zenon DEF step, dec_on
    <3> QED
      BY <1>1, <3>2, <3>3, <3>4, <3>5, <3>6, Zenon DEF write_syscmd
  <2> QED
    BY <2>3, <2>4, Zenon
<1>2. CASE WriteDecCmd
  <2>1. PICK scan \in BOOLEAN :
           ctl' = [ctl EXCEPT !.scan = scan,
                              !.single_step_pending = @ \/ (scan /\ ~ctl.pausing)]
    BY <1>2, Zenon DEF WriteDecCmd
  <2> DEFINE single == ctl.single_step_pending \/ (scan /\ ~ctl.pausing)
  <2>2. ctl' = [ctl EXCEPT !.scan = scan, !.single_step_pending = single]
        /\ single \in BOOLEAN
    BY <1>0, <2>1 DEF Controls
  <2> HIDE DEF single
  <2>3. ctl' \in Controls
    BY <1>0, <2>2, Zenon DEF Controls
  <2>4. UNCHANGED <<m_video, pace, m_fmv_isr, m_picture, shown, src, hist, saved>>
    BY <1>2, Zenon DEF WriteDecCmd
  <2> QED
    BY <1>0, <2>3, <2>4, Zenon DEF VInv, Controlled
<1>3. CASE write_vidcmd
  <2>1. PICK show \in Shows : ctl' = [ctl EXCEPT !.show = show]
    BY <1>3, Zenon DEF write_vidcmd
  <2>2. show \in BOOLEAN
    BY DvcVideoConstants
  <2>3. ctl' \in Controls
    BY <1>0, <2>1, <2>2, Zenon DEF Controls
  <2>4. UNCHANGED <<m_video, pace, m_fmv_isr, m_picture, shown, src, hist, saved>>
    BY <1>3, Zenon DEF write_vidcmd
  <2> QED
    BY <1>0, <2>3, <2>4, Zenon DEF VInv, Controlled
<1>4. CASE ReadIsr
  <2>1. m_fmv_isr' \subseteq Watched
    BY <1>4 DEF ReadIsr
  <2>2. UNCHANGED <<m_video, ctl, pace, m_picture, shown, src, hist, saved>>
    BY <1>4, Zenon DEF ReadIsr
  <2> QED
    BY <1>0, <2>1, <2>2, Zenon DEF VInv, Controlled
<1>5. CASE FeedSequence \/ FeedAnchor \/ FeedB \/ FeedEnd
  <2>1. PICK u : Feed(u)
    BY <1>5, Zenon DEF FeedSequence, FeedAnchor, FeedB, FeedEnd
  <2>2. Told(m_video, src, pace, hist)'
    BY <1>0, <1>5, FeedSequenceTold, FeedAnchorTold, FeedBTold, FeedEndTold, Zenon
  <2>3. Controlled(ctl, pace, m_fmv_isr)'
    BY <1>0, <2>1, FeedTypes
  <2>4. UNCHANGED <<m_picture, shown, saved>>
    BY <2>1, Zenon DEF Feed
  <2>5. hist'.last = hist.last
    <3>1. hist \in Histories
      BY <1>0, Zenon DEF Told
    <3> QED
      BY <2>1, <3>1, SMT DEF Feed, Histories
  <2> QED
    BY <1>0, <2>2, <2>3, <2>4, <2>5, Zenon DEF VInv, Buffers
<1>6. CASE dclk_tick
  <2>1. /\ Controlled(ctl, pace, m_fmv_isr)' /\ Buffers(m_picture, shown)'
        /\ Told(m_video, src, pace, hist)' /\ Ahead
    BY <1>0, <1>6, TickTypes, TickTold, Zenon
  <2>2. saved' = saved
    BY <1>6, Zenon DEF dclk_tick
  <2> QED
    BY <1>0, <2>1, <2>2, Zenon DEF VInv
<1>7. CASE vblank_update
  <2>1. UNCHANGED <<m_video, ctl, pace, m_fmv_isr, src, hist, saved>>
    BY <1>7, Zenon DEF vblank_update
  <2>2. Buffers(m_picture, shown)'
    BY <1>0, <1>7, VblankBuffers
  <2> QED
    BY <1>0, <2>1, <2>2, Zenon DEF VInv, Controlled
<1>8. CASE device_reset
  <2>1. /\ ctl' = CtlInit /\ pace' = PaceInit /\ m_fmv_isr' = {}
        /\ m_picture' = PictureInit /\ shown' = ShownInit /\ saved' = saved
        /\ hist' = HistoryInit
    BY <1>8, Zenon DEF device_reset
  <2>2. Told(m_video, src, pace, hist)'
    BY <1>0, <1>8, ResetTold
  <2>3. m_fmv_isr' \subseteq Watched
    BY <2>1
  <2>4. hist'.last = 0
    BY <2>1 DEF HistoryInit
  <2> QED
    BY <1>0, <2>1, <2>2, <2>3, <2>4, InitialTypes, Zenon DEF VInv, Controlled, Buffers
<1>9. CASE device_pre_save
  <2>1. UNCHANGED <<m_video, ctl, pace, m_fmv_isr, m_picture, shown, src, hist>>
    BY <1>9, Zenon DEF device_pre_save
  <2>2. /\ saved'.m_video = m_video /\ saved'.ctl = ctl /\ saved'.pace = pace
        /\ saved'.m_fmv_isr = m_fmv_isr /\ saved'.m_picture = m_picture
        /\ saved'.shown = shown /\ saved'.src = src /\ saved'.hist = hist
    BY <1>9, SMT DEF device_pre_save
  <2> QED
    BY <1>0, <2>1, <2>2, Zenon DEF VInv, Controlled
<1>10. CASE device_post_load
  <2>1. /\ ctl' = saved.ctl /\ pace' = saved.pace /\ m_fmv_isr' = saved.m_fmv_isr
        /\ saved' = saved /\ saved # NoState
    BY <1>10, Zenon DEF device_post_load
  <2>2. /\ Controlled(saved.ctl, saved.pace, saved.m_fmv_isr)
        /\ Buffers(saved.m_picture, saved.shown)
        /\ Told(saved.m_video, saved.src, saved.pace, saved.hist)
    BY <1>0, <2>1, Zenon
  <2>3. Decoder(m_video) /\ Decoder(saved.m_video) /\ saved.pace \in Paces
    BY <1>0, <2>2, Zenon DEF Told, Clip, Controlled
  <2>4. Told(m_video, src, pace, hist)'
    BY <1>10, <2>2, <2>3, LoadTold
  <2>5. Buffers(m_picture, shown)'
    BY <1>10, <2>2, <2>3, LoadBuffers
  <2>6. VInv'
    BY <2>1, <2>2, <2>4, <2>5, Zenon DEF VInv
  <2> QED
    BY <1>10, <2>6, Zenon
<1>11. CASE UNCHANGED vars
  BY <1>0, <1>11, Zenon DEF vars, VInv, Controlled
<1> QED
  BY <1>1, <1>2, <1>3, <1>4, <1>5, <1>6, <1>7, <1>8, <1>9, <1>10, <1>11, Zenon
     DEF Next

\* The decoder is where its stream and its history say, in every reachable
\* state and in every state that is saved.
THEOREM PicturesFollow == Spec => []VInv
<1>1. VInv /\ [Next]_vars => VInv'
  BY NextVInv, Zenon
<1> QED
  BY <1>1, InitVInv, PTL DEF Spec

\* Decoder, controls, pace and buffers keep their types.
THEOREM TypeCorrect == Spec => []TypeOK
<1>1. VInv => TypeOK
  <2> SUFFICES ASSUME VInv
               PROVE  TypeOK
    OBVIOUS
  <2>1. Decoder(m_video)
    BY Zenon DEF VInv, Told, Clip
  <2>2. IsDecoder(m_video, MaxNr)
    BY <2>1, DecoderFields, Zenon DEF IsDecoder, Decoder, Types
  <2> QED
    BY <2>2, Zenon DEF VInv, TypeOK, Controlled, Buffers, Controls, Paces, Pictures, Displays
<1> QED
  BY <1>1, PicturesFollow, PTL

\* A frame that is taken for complete was predicted from the pictures its
\* encoder used.
THEOREM FramesCorrect == Spec => []ValidFramesAreGood
<1>1. VInv => ValidFramesAreGood
  BY Zenon DEF VInv, Told, Clip, Following, Fits, ValidFramesAreGood
<1> QED
  BY <1>1, PicturesFollow, PTL

\* An end code is announced, or the decoder or its FIFO still has it.
THEOREM EndCorrect == Spec => []EndIsKept
<1>1. VInv => EndIsKept
  BY Zenon DEF VInv, Told, Clip, Remembers, EndIsKept
<1> QED
  BY <1>1, PicturesFollow, PTL

\* Normal playback displays pictures in display order.
THEOREM OrderCorrect == Spec => ShownInOrder
<1>1. VInv /\ [Next]_vars =>
        [ hist.last # 0 /\ hist'.last # 0 /\ hist'.last # hist.last
            => hist'.last > hist.last \/ device_post_load ]_vars
  BY NextVInv, Zenon
<1> QED
  BY <1>1, PicturesFollow, PTL DEF Spec, ShownInOrder

\* Running dry is reported only if data or a command came since the last time.
LEMMA ReportedOnce ==
    ASSUME VInv, Next, "NDAT" \in m_fmv_isr' \ m_fmv_isr
    PROVE  hist.rearmed \/ device_post_load
<1>1. ~hist.rearmed => pace.underflow
  BY Zenon DEF VInv, Told, Clip
<1>2. CASE write_syscmd \/ WriteDecCmd \/ write_vidcmd \/ ReadIsr \/ vblank_update
            \/ device_reset \/ device_pre_save \/ FeedSequence \/ FeedAnchor \/ FeedB \/ FeedEnd
  <2>1. m_fmv_isr' = m_fmv_isr \/ m_fmv_isr' = {}
    BY <1>2, Zenon DEF write_syscmd, WriteDecCmd, write_vidcmd, ReadIsr, vblank_update,
        device_reset, device_pre_save, FeedSequence, FeedAnchor, FeedB, FeedEnd, Feed
  <2> QED
    BY <2>1
<1>3. CASE dclk_tick
  <2>0. "NDAT" \notin PauseBits
    BY DEF PauseBits
  <2>1. ASSUME NEW bits, Raise(bits), "NDAT" \notin bits
        PROVE  FALSE
    BY <2>1 DEF Raise
  <2>2. CASE NoPicture
    <3> DEFINE dry == Playing /\ AtHand.d.fifo = <<>> /\ ~pace.underflow
               ends == IF AtHand.d.ended THEN {"ESI"} ELSE {}
               dries == IF dry THEN {"NDAT"} ELSE {}
    <3>1. Raise(PauseBits \cup ends \cup dries)
      BY <2>2, Zenon DEF NoPicture
    <3>2. "NDAT" \notin ends
      OBVIOUS
    <3>3. dry
      <4>1. ~dry => "NDAT" \notin dries
        OBVIOUS
      <4> HIDE DEF dry, ends, dries
      <4>2. ~dry => "NDAT" \notin PauseBits \cup ends \cup dries
        BY <2>0, <3>2, <4>1
      <4> QED
        BY <2>1, <3>1, <4>2, Zenon
    <3> QED
      BY <1>1, <3>3, Zenon
  <2>3. CASE DecoderOff \/ HoldPicture \/ SkipPicture
    BY <2>0, <2>1, <2>3, Zenon DEF DecoderOff, HoldPicture, SkipPicture
  <2>4. CASE ShowPicture
    <3> DEFINE groups == IF DisplayFrame(Taken).type = "I" THEN {"GOP"} ELSE {}
               ends == IF Taken.ended THEN {"ESI"} ELSE {}
    <3>1. Raise(PauseBits \cup {"PIC"} \cup groups \cup ends)
      BY <2>4, Zenon DEF ShowPicture
    <3>2. "NDAT" \notin groups /\ "NDAT" \notin ends
      OBVIOUS
    <3> HIDE DEF groups, ends
    <3>3. "NDAT" \notin PauseBits \cup {"PIC"} \cup groups \cup ends
      BY <2>0, <3>2
    <3> QED
      BY <2>1, <3>1, <3>3, Zenon
  <2> QED
    BY <1>3, <2>2, <2>3, <2>4, Zenon DEF dclk_tick
<1> QED
  BY <1>2, <1>3, Zenon DEF Next

\* Running dry is reported once.
THEOREM DryCorrect == Spec => DryIsReportedOnce
<1>1. VInv /\ [Next]_vars =>
        [ "NDAT" \in m_fmv_isr' \ m_fmv_isr => hist.rearmed \/ device_post_load ]_vars
  BY ReportedOnce, Zenon
<1> QED
  BY <1>1, PicturesFollow, PTL DEF Spec, DryIsReportedOnce
=============================================================================
