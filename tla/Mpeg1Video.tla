----------------------------- MODULE Mpeg1Video -----------------------------
(***************************************************************************)
(* The control of the MPEG-1 video decoder (machine/mpeg1video.cpp): its   *)
(* input FIFO, the three frame buffers and their rotation, and what it     *)
(* hands over to a save state.  A decoder is a value; each method of       *)
(* mpeg1_video_decoder is an operator from decoders to decoders.           *)
(*                                                                         *)
(* The FIFO holds start code units in place of bytes.  A picture carries   *)
(* the number of its place in display order and the references its encoder *)
(* used, so that a frame buffer can tell what it really contains.          *)
(***************************************************************************)
EXTENDS Integers, Sequences

CONSTANTS
    Limit,     \* m_buffer_limit, in units
    Mark,      \* the level above which buffer_full() holds
    Sizes,     \* the picture sizes of the streams, numbers above 0
    BigSizes   \* those a save state does not carry the frames of

ASSUME VideoConstants ==
    /\ Limit \in Nat \ {0}
    /\ Mark \in 0..(Limit - 1)
    /\ Sizes \subseteq Nat \ {0}
    /\ BigSizes \subseteq Sizes

None == -1   \* no display frame
Slots == 0..2

SeqUnit(size) == [code |-> "seq", size |-> size]
EndUnit == [code |-> "end"]

\* needs holds the directions its macroblocks predict from; fwd and bwd are
\* the numbers of the pictures the encoder predicted from.
PicUnit(type, nr, needs, fwd, bwd) ==
    [code |-> "pic", type |-> type, nr |-> nr, needs |-> needs,
     fwd |-> fwd, bwd |-> bwd]

\* A frame buffer: the picture in it, whether the decoder takes it for
\* complete, and (history) whether it was predicted from the right pictures.
EmptyFrame == [nr |-> 0, type |-> "none", valid |-> FALSE, good |-> FALSE]

\* reset(), also the state after construction.
Fresh ==
    [fifo |-> <<>>, size |-> 0, ended |-> FALSE, type |-> "none",
     frames |-> [i \in Slots |-> EmptyFrame],
     past |-> 1, future |-> 2, work |-> 0, display |-> None]

DisplayFrame(d) == d.frames[d.display]

allocate_frames(d, size) ==
    [d EXCEPT !.size = size, !.frames = [i \in Slots |-> EmptyFrame],
              !.display = None]

-----------------------------------------------------------------------------
(* The input FIFO. *)

\* A full FIFO takes nothing more; the oldest data is never given up.
write(d, u) ==
    IF Len(d.fifo) < Limit THEN [d EXCEPT !.fifo = Append(@, u)] ELSE d

buffer_full(d) == Len(d.fifo) > Mark

\* The size is known once a sequence header came, before or among the first k
\* units of the FIFO.
HasSequenceAt(d, k) == d.size # 0 \/ \E i \in 1..k : d.fifo[i].code = "seq"

\* decode() stops at the first picture whose sequence is known, or at the end.
StopsAt(d, k) ==
    \/ k = Len(d.fifo)
    \/ d.fifo[k + 1].code = "pic" /\ HasSequenceAt(d, k)

\* The sequence headers among the first n units: the last one says the size, and
\* one that differs from the size before it empties the frames.
SequenceHeaders(d, n) ==
    LET seqs == {i \in 1..n : d.fifo[i].code = "seq"}
        last == CHOOSE i \in seqs : \A j \in seqs : j <= i
    IN  IF \E i \in seqs : d.fifo[i].size # d.size
        THEN allocate_frames(d, d.fifo[last].size) ELSE d

\* The units before the place where decode() stops: headers, end codes, and
\* pictures nobody gave the size of.
Headers(d) ==
    LET n == CHOOSE k \in 0..Len(d.fifo) :
                 StopsAt(d, k) /\ \A j \in 0..(k - 1) : ~StopsAt(d, j)
    IN  [SequenceHeaders(d, n) EXCEPT
            !.ended = @ \/ \E i \in 1..n : d.fifo[i].code = "end",
            !.fifo = SubSeq(d.fifo, n + 1, Len(d.fifo))]

-----------------------------------------------------------------------------
(* Pictures. *)

\* Mutant: a P picture predicts from the anchor that was already displaced.
ForwardRefPast(d, type) == d.past

\* The reference of forward prediction, predict_macroblock().
ForwardRef(d, type) == IF type = "B" THEN d.past ELSE d.future

\* What decoding picture u leaves in the work buffer.
Decoded(d, u) ==
    LET fwd == d.frames[ForwardRef(d, u.type)]
        bwd == d.frames[d.future]
    IN  [nr |-> u.nr, type |-> u.type,
         valid |-> /\ "fwd" \in u.needs => fwd.valid
                   /\ "bwd" \in u.needs => bwd.valid,
         good |-> /\ "fwd" \in u.needs => fwd.good /\ fwd.nr = u.fwd
                  /\ "bwd" \in u.needs => bwd.good /\ bwd.nr = u.bwd]

\* Mutant: an anchor is displayed as soon as it is decoded.
decode_picture_at_once(d, u) ==
    LET frames == [d.frames EXCEPT ![d.work] = Decoded(d, u)]
        shown == IF frames[d.work].valid THEN d.work ELSE None
    IN  IF u.type = "B"
        THEN [d EXCEPT !.frames = frames, !.type = u.type, !.display = shown]
        ELSE [d EXCEPT !.frames = frames, !.type = u.type, !.display = shown,
                       !.past = d.future, !.future = d.work, !.work = d.past]

\* Mutant: the displaced anchor is the buffer used next, while it is still a
\* reference.
decode_picture_reuse(d, u) ==
    LET frames == [d.frames EXCEPT ![d.work] = Decoded(d, u)]
        shown(slot) == IF frames[slot].valid THEN slot ELSE None
    IN  IF u.type = "B"
        THEN [d EXCEPT !.frames = frames, !.type = u.type,
                       !.display = shown(d.work)]
        ELSE [d EXCEPT !.frames = frames, !.type = u.type,
                       !.past = d.future, !.future = d.work, !.work = d.future,
                       !.display = shown(d.future)]

\* decode_picture(): a B picture is shown at once; an anchor displaces the one
\* before it, which is shown, and the oldest buffer is used next.
decode_picture(d, u) ==
    LET frames == [d.frames EXCEPT ![d.work] = Decoded(d, u)]
        shown(slot) == IF frames[slot].valid THEN slot ELSE None
    IN  IF u.type = "B"
        THEN [d EXCEPT !.frames = frames, !.type = u.type,
                       !.display = shown(d.work)]
        ELSE [d EXCEPT !.frames = frames, !.type = u.type,
                       !.past = d.future, !.future = d.work, !.work = d.past,
                       !.display = shown(d.future)]

\* A picture is decoded once the start code that ends it has arrived.
Complete(fifo) == Len(fifo) >= 2 /\ fifo[1].code = "pic"

\* decode(): the decoder afterwards, and whether it produced a picture.
decode(d) ==
    LET h == Headers(d) IN
    IF Complete(h.fifo)
    THEN [d |-> [decode_picture(h, h.fifo[1]) EXCEPT !.fifo = Tail(@)], got |-> TRUE]
    ELSE [d |-> h, got |-> FALSE]

\* Scan mode shows the picture just decoded, an anchor without its successor.
display_decoded_frame(d) ==
    LET slot == IF d.type = "B" THEN d.work ELSE d.future
    IN  [d EXCEPT !.display = IF d.frames[slot].valid THEN slot ELSE None]

clear_sequence_ended(d) == [d EXCEPT !.ended = FALSE]

-----------------------------------------------------------------------------
(* Sequence parameters and save states. *)

set_sequence_state(d, size) ==
    IF size # 0 /\ size # d.size THEN allocate_frames(d, size) ELSE d

\* Mutant: the frame buffers are kept over a seek.
clear_fifo_only(d) == [d EXCEPT !.fifo = <<>>, !.ended = FALSE]

\* A seek: everything but the sequence parameters is dropped.
clear_fifo(d) == set_sequence_state(Fresh, d.size)

\* set_decoder_state() of what get_decoder_state() took from s, into a decoder
\* d that has its sequence parameters already.  Without the frames of s, or
\* without a size to put them in, no frame is valid.
set_decoder_state(d, s) ==
    LET carried == s.size # 0 /\ s.size \notin BigSizes /\ d.size # 0
        frames == IF carried THEN s.frames
                  ELSE [i \in Slots |-> [s.frames[i] EXCEPT !.valid = FALSE]]
    IN  [s EXCEPT !.size = d.size, !.frames = frames,
                  !.display = IF @ # None /\ frames[@].valid THEN @ ELSE None]

-----------------------------------------------------------------------------
(* The type of a decoder. *)

Units(maxNr) ==
    [code : {"seq"}, size : Sizes] \cup [code : {"end"}]
    \cup [code : {"pic"}, type : {"I", "P", "B"}, nr : 0..maxNr,
          needs : SUBSET {"fwd", "bwd"}, fwd : 0..maxNr, bwd : 0..maxNr]

Frames(maxNr) ==
    [nr : 0..maxNr, type : {"none", "I", "P", "B"}, valid : BOOLEAN, good : BOOLEAN]

IsDecoder(d, maxNr) ==
    /\ d.fifo \in Seq(Units(maxNr)) /\ Len(d.fifo) <= Limit
    /\ d.size \in Sizes \cup {0}
    /\ d.ended \in BOOLEAN
    /\ d.type \in {"none", "I", "P", "B"}
    /\ d.frames \in [Slots -> Frames(maxNr)]
    /\ {d.past, d.future, d.work} = Slots
    /\ d.display \in Slots \cup {None}
=============================================================================
