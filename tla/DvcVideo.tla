------------------------------ MODULE DvcVideo ------------------------------
(***************************************************************************)
(* The video side of the Digital Video Cartridge (machine/cdidvc.cpp): the *)
(* transport commands of the driver, the 45 kHz decoder clock that decodes *)
(* ahead and paces the pictures, the two picture buffers that are swapped  *)
(* at vertical blanking, and the save state that carries one of them.      *)
(* The decoder itself is module Mpeg1Video.                                *)
(***************************************************************************)
EXTENDS Mpeg1Video

CONSTANTS
    Commands,    \* the SYSCMD commands the driver gives
    StartDelay,  \* ticks from PLAY to playback, 1000 in the code
    PauseDelay,  \* ticks from PAUSE to its interrupt, 100 in the code
    Period,      \* ticks a picture of the stream is shown for
    Slows,       \* the values of m_fmv_slow_motion
    Shows,       \* the values of the window's visibility the driver writes
    Watched,     \* the status bits followed: the others are as if read at once
    Scanned,     \* TRUE: fields are scanned out
    Scans,       \* TRUE: the driver may ask for single scan pictures
    Saves,       \* TRUE: states are saved and loaded
    MaxGap,      \* B pictures between two anchors
    MaxNr,       \* pictures the disc holds, in display order
    Anchors,     \* types of the anchors on the disc: I, or I and P
    Ends         \* TRUE: clips end with an end code

VARIABLES
    m_video,     \* the decoder
    ctl,         \* what the driver commanded
    pace,        \* the picture decoded ahead and when it is due
    m_fmv_isr,   \* the status bits raised and not yet read
    m_picture,   \* the back buffer, written by the decoder clock
    shown,       \* m_shown_*: the buffer the field is drawn from
    src,         \* the disc: what its encoder put next into the stream
    hist,        \* history: see HistoryInit
    saved        \* a save state, or NoState

vars == <<m_video, ctl, pace, m_fmv_isr, m_picture, shown, src, hist, saved>>

AllCommands == {"play", "pause", "continue", "step", "stop", "clear_fifo",
                "dec_on", "dec_off"}

Bits == {"PIC", "GOP", "NDAT", "ESI", "PAI"}

ASSUME DvcVideoConstants ==
    /\ Commands \subseteq AllCommands
    /\ StartDelay \in Nat \ {0} /\ PauseDelay \in Nat \ {0} /\ Period \in Nat \ {0}
    /\ Slows \subseteq 0..7 /\ 0 \in Slows
    /\ Shows \subseteq BOOLEAN /\ Watched \subseteq Bits /\ Scanned \in BOOLEAN
    /\ Scans \in BOOLEAN /\ Saves \in BOOLEAN
    /\ MaxGap \in Nat /\ MaxNr \in Nat
    /\ "I" \in Anchors /\ Anchors \subseteq {"I", "P"}
    /\ Ends \in BOOLEAN

NoState == [none |-> TRUE]

\* How long the picture on display stays, in ticks of the decoder clock.
Ticks == Period * (ctl.slow_motion + 1)
\* Once a picture is late by its whole time, how late makes no difference.
MaxTicks == Period * (1 + CHOOSE slow \in Slows : \A s \in Slows : s <= slow)

\* Status bits are raised; those already there stay until they are read.
Raise(bits) == m_fmv_isr' = m_fmv_isr \cup (bits \cap Watched)

-----------------------------------------------------------------------------
(* Commands, write_syscmd() and the registers beside it. *)

\* No picture of the clip that ends may be displayed any more (history).
Disowned(buffer) == [buffer EXCEPT !.cur = FALSE]

ClearPace == [pace EXCEPT !.pending = FALSE, !.seen_first = FALSE,
                          !.underflow = FALSE]

play ==
    /\ \E slow \in Slows :
          ctl' = [ctl EXCEPT !.start = StartDelay, !.slow_motion = slow,
                             !.pausing = FALSE]
    /\ pace' = [pace EXCEPT !.seen_first = FALSE, !.underflow = FALSE]
    /\ hist' = [hist EXCEPT !.running = TRUE, !.rearmed = TRUE]
    /\ UNCHANGED <<m_video, m_picture, shown, src>>

\* Mutant: a start that is under way survives the pause.
pause_only ==
    /\ ctl' = [ctl EXCEPT !.playback_active = FALSE, !.pause = PauseDelay,
                          !.pausing = TRUE]
    /\ hist' = [hist EXCEPT !.running = FALSE]
    /\ UNCHANGED <<m_video, pace, m_picture, shown, src>>

pause ==
    /\ ctl' = [ctl EXCEPT !.playback_active = FALSE, !.start = 0,
                          !.pause = PauseDelay, !.pausing = TRUE]
    /\ hist' = [hist EXCEPT !.running = FALSE]
    /\ UNCHANGED <<m_video, pace, m_picture, shown, src>>

continue ==
    /\ \E slow \in Slows :
          ctl' = [ctl EXCEPT !.start = StartDelay, !.slow_motion = slow,
                             !.pausing = FALSE]
    /\ hist' = [hist EXCEPT !.running = TRUE]
    /\ UNCHANGED <<m_video, pace, m_picture, shown, src>>

step ==
    /\ ctl' = [ctl EXCEPT !.start = 0, !.single_step_pending = TRUE,
                          !.pausing = FALSE]
    /\ UNCHANGED <<m_video, pace, m_picture, shown, src, hist>>

stop ==
    /\ ctl' = [ctl EXCEPT !.single_step_pending = FALSE, !.start = 0,
                          !.playback_active = FALSE, !.pausing = FALSE]
    /\ hist' = [hist EXCEPT !.running = FALSE]
    /\ UNCHANGED <<m_video, pace, m_picture, shown, src>>

\* A seek.  What is on the screen stays; the disc goes on at an intra picture.
clear_fifo_cmd ==
    /\ m_video' = clear_fifo(m_video)
    /\ ctl' = [ctl EXCEPT !.single_step_pending = FALSE, !.start = 0,
                          !.playback_active = FALSE, !.dsp_enable = TRUE,
                          !.pausing = FALSE]
    /\ pace' = ClearPace
    /\ src' = [src EXCEPT !.intra = TRUE, !.owed = 0]
    /\ hist' = [hist EXCEPT !.running = FALSE, !.rearmed = TRUE, !.ending = FALSE]
    /\ UNCHANGED <<m_picture, shown>>

dec_on ==
    /\ ctl' = [ctl EXCEPT !.dsp_enable = TRUE, !.pausing = FALSE]
    /\ UNCHANGED <<m_video, pace, m_picture, shown, src, hist>>

DecOff(picture) ==
    /\ m_video' = Fresh
    /\ ctl' = [ctl EXCEPT !.single_step_pending = FALSE, !.start = 0,
                          !.playback_active = FALSE, !.dsp_enable = FALSE,
                          !.pausing = FALSE]
    /\ pace' = ClearPace
    /\ m_picture' = Disowned(picture)
    /\ shown' = Disowned([shown EXCEPT !.valid = FALSE])
    /\ src' = [src EXCEPT !.open = FALSE, !.intra = TRUE, !.owed = 0]
    /\ hist' = [hist EXCEPT !.running = FALSE, !.rearmed = TRUE, !.ending = FALSE,
                          !.last = 0]

\* Mutant: a picture waiting in the back buffer outlives its clip.
dec_off_keeps_update == DecOff(m_picture)

\* Decoder off drops what was latched for display and what waited for it.
dec_off == DecOff([m_picture EXCEPT !.updated = FALSE])

write_syscmd ==
    /\ \E command \in Commands :
          \/ command = "play" /\ play
          \/ command = "pause" /\ pause
          \/ command = "continue" /\ continue
          \/ command = "step" /\ step
          \/ command = "stop" /\ stop
          \/ command = "clear_fifo" /\ clear_fifo_cmd
          \/ command = "dec_on" /\ dec_on
          \/ command = "dec_off" /\ dec_off
    /\ UNCHANGED <<m_fmv_isr, saved>>

\* GEN_DEC_CMD: 22xx asks for one picture, unless the last command was a pause.
WriteDecCmd ==
    /\ Scans
    /\ \E scan \in BOOLEAN :
          ctl' = [ctl EXCEPT !.scan = scan,
                             !.single_step_pending = @ \/ (scan /\ ~ctl.pausing)]
    /\ UNCHANGED <<m_video, pace, m_fmv_isr, m_picture, shown, src, hist, saved>>

\* VIDCMD: the window is shown or hidden.
write_vidcmd ==
    /\ \E show \in Shows : ctl' = [ctl EXCEPT !.show = show]
    /\ UNCHANGED <<m_video, pace, m_fmv_isr, m_picture, shown, src, hist, saved>>

\* The driver reads the interrupt status, which clears it.
ReadIsr ==
    /\ m_fmv_isr # {}
    /\ m_fmv_isr' = {}
    /\ UNCHANGED <<m_video, ctl, pace, m_picture, shown, src, hist, saved>>

-----------------------------------------------------------------------------
(* The stream: what DMA hands to the video path. *)

\* feed_byte(), for all the bytes of a unit.  The driver looks at SYS_STS
\* before it sends more.  A DMA command replaces the last SYSCMD, a programmed
\* transfer does not.
Feed(u) ==
    /\ ~buffer_full(m_video)
    /\ m_video' = write(m_video, u)
    /\ pace' = [pace EXCEPT !.underflow = FALSE]
    /\ \E dma \in BOOLEAN : ctl' = [ctl EXCEPT !.pausing = @ /\ ~dma]
    /\ hist' = [hist EXCEPT !.rearmed = TRUE, !.ending = @ \/ u = EndUnit]
    /\ UNCHANGED <<m_fmv_isr, m_picture, shown, saved>>

\* A clip begins, perhaps in another size.
FeedSequence ==
    /\ ~src.open
    /\ \E size \in Sizes : Feed(SeqUnit(size))
    /\ src' = [src EXCEPT !.open = TRUE, !.intra = TRUE]

\* The next anchor, with the B pictures that precede it on display to follow.
FeedAnchor ==
    /\ src.open /\ src.owed = 0
    /\ \E gap \in 0..MaxGap, type \in Anchors :
          LET nr == src.anchor + gap + 1 IN
          /\ nr <= MaxNr
          /\ src.anchor = 0 => gap = 0
          /\ src.intra => type = "I"
          /\ Feed(PicUnit(type, nr, IF type = "P" THEN {"fwd"} ELSE {},
                          src.anchor, 0))
          /\ src' = [src EXCEPT !.before = src.anchor, !.anchor = nr,
                                !.owed = gap, !.intra = FALSE]

FeedB ==
    /\ src.open /\ src.owed > 0
    /\ \E needs \in {{"bwd"}, {"fwd", "bwd"}} :
          Feed(PicUnit("B", src.anchor - src.owed, needs, src.before, src.anchor))
    /\ src' = [src EXCEPT !.owed = @ - 1]

\* The clip ends; the driver appends the end code itself if the disc has none.
FeedEnd ==
    /\ Ends /\ src.open /\ src.owed = 0
    /\ Feed(EndUnit)
    /\ src' = [src EXCEPT !.open = FALSE]

-----------------------------------------------------------------------------
(* The decoder clock. *)

\* A latched start or pause comes one tick nearer; is it now?
Sooner(n) == IF n > 0 THEN n - 1 ELSE 0
StartsNow == ctl.start = 1
Playing == ctl.playback_active \/ StartsNow
Ticked == [ctl EXCEPT !.start = Sooner(@), !.pause = Sooner(@),
                      !.playback_active = Playing]
PauseBits == IF ctl.pause = 1 THEN {"PAI"} ELSE {}
Aged == IF pace.due > -MaxTicks THEN pace.due - 1 ELSE pace.due

\* What is at hand after decoding ahead: a picture from an earlier tick, or
\* the outcome of a decode() made now.
AtHand == IF pace.pending THEN [d |-> m_video, got |-> TRUE] ELSE decode(m_video)

DecoderOff ==
    /\ ~ctl.dsp_enable
    /\ pace' = [pace EXCEPT !.due = Aged]
    /\ Raise(PauseBits)
    /\ UNCHANGED <<m_video, m_picture, hist>>
    /\ ctl' = Ticked

\* Mutant: an end that comes with no picture is forgotten.
NoPictureQuiet ==
    LET d == AtHand.d
        dry == Playing /\ d.fifo = <<>> /\ ~pace.underflow
    IN
    /\ ctl.dsp_enable /\ ~AtHand.got
    /\ m_video' = clear_sequence_ended(d)
    /\ pace' = [pace EXCEPT !.due = Aged, !.underflow = @ \/ dry]
    /\ Raise(PauseBits \cup (IF dry THEN {"NDAT"} ELSE {}))
    /\ hist' = [hist EXCEPT !.rearmed = @ /\ ~dry]
    /\ ctl' = Ticked
    /\ UNCHANGED m_picture

\* Mutant: running dry is reported on every tick.
NoPictureNoisy ==
    LET d == AtHand.d
        dry == Playing /\ d.fifo = <<>>
    IN
    /\ ctl.dsp_enable /\ ~AtHand.got
    /\ m_video' = clear_sequence_ended(d)
    /\ pace' = [pace EXCEPT !.due = Aged, !.underflow = @ \/ dry]
    /\ Raise(PauseBits \cup (IF d.ended THEN {"ESI"} ELSE {})
                       \cup (IF dry THEN {"NDAT"} ELSE {}))
    /\ hist' = [hist EXCEPT !.rearmed = @ /\ ~dry, !.ending = @ /\ ~d.ended]
    /\ ctl' = Ticked
    /\ UNCHANGED m_picture

\* Nothing to show: an end of the sequence is announced, and the moment the
\* buffer runs dry while playing.
NoPicture ==
    LET d == AtHand.d
        dry == Playing /\ d.fifo = <<>> /\ ~pace.underflow
    IN
    /\ ctl.dsp_enable /\ ~AtHand.got
    /\ m_video' = clear_sequence_ended(d)
    /\ pace' = [pace EXCEPT !.due = Aged, !.underflow = @ \/ dry]
    /\ Raise(PauseBits \cup (IF d.ended THEN {"ESI"} ELSE {})
                       \cup (IF dry THEN {"NDAT"} ELSE {}))
    /\ hist' = [hist EXCEPT !.rearmed = @ /\ ~dry, !.ending = @ /\ ~d.ended]
    /\ ctl' = Ticked
    /\ UNCHANGED m_picture

\* The picture waits: nothing plays, or its time has not come.
Held ==
    IF Playing /\ ~ctl.single_step_pending THEN pace.seen_first /\ Aged > 0
    ELSE ~ctl.single_step_pending

HoldPicture ==
    /\ ctl.dsp_enable /\ AtHand.got /\ Held
    /\ m_video' = AtHand.d
    /\ pace' = [pace EXCEPT !.pending = TRUE, !.due = Aged]
    /\ Raise(PauseBits)
    /\ ctl' = Ticked
    /\ UNCHANGED <<m_picture, hist>>

\* The next time in the schedule; one that has passed as well starts it anew.
NextDue ==
    IF ~Playing \/ ctl.single_step_pending THEN Aged
    ELSE IF ~pace.seen_first \/ Aged + Ticks <= 0 THEN Ticks
    ELSE Aged + Ticks

Paced == [pace EXCEPT !.pending = FALSE, !.due = NextDue,
                      !.seen_first = @ \/ (Playing /\ ~ctl.single_step_pending)]

\* The decoder once the picture was taken: a scan shows it out of order.
Scanning == ctl.single_step_pending /\ ctl.scan
Taken == IF Scanning THEN display_decoded_frame(AtHand.d) ELSE AtHand.d

\* An anchor was decoded and nothing became displayable: a step stays pending.
SkipPicture ==
    /\ ctl.dsp_enable /\ AtHand.got /\ ~Held
    /\ Taken.display = None
    /\ m_video' = Taken
    /\ pace' = Paced
    /\ Raise(PauseBits)
    /\ ctl' = Ticked
    /\ UNCHANGED <<m_picture, hist>>

\* A picture starts display: it is put in the back buffer, which is made to
\* its size if that changed.
ShowPicture ==
    LET f == DisplayFrame(Taken) IN
    /\ ctl.dsp_enable /\ AtHand.got /\ ~Held
    /\ Taken.display # None
    /\ m_picture' =
          IF Taken.size # m_picture.size \/ m_picture.len # 0
          THEN [len |-> IF Taken.size # m_picture.size THEN Taken.size
                        ELSE m_picture.len,
                size |-> Taken.size, nr |-> f.nr, cur |-> TRUE, updated |-> TRUE]
          ELSE m_picture
    /\ m_video' = clear_sequence_ended(Taken)
    /\ pace' = Paced
    /\ Raise(PauseBits \cup {"PIC"} \cup (IF f.type = "I" THEN {"GOP"} ELSE {})
                       \cup (IF Taken.ended THEN {"ESI"} ELSE {}))
    /\ hist' = [hist EXCEPT !.last = IF Scanning THEN 0 ELSE f.nr,
                            !.ending = @ /\ ~Taken.ended]
    /\ ctl' = [Ticked EXCEPT !.single_step_pending = FALSE]

dclk_tick ==
    /\ \/ DecoderOff
       \/ NoPicture
       \/ HoldPicture
       \/ SkipPicture
       \/ ShowPicture
    /\ UNCHANGED <<shown, src, saved>>

-----------------------------------------------------------------------------
(* The display, reset and save states. *)

\* vblank_update(): the buffers change places, with their sizes.
vblank_update ==
    /\ Scanned
    /\ IF m_picture.updated
       THEN /\ m_picture' = [len |-> shown.len, size |-> shown.size,
                             nr |-> shown.nr, cur |-> shown.cur, updated |-> FALSE]
            /\ shown' = [len |-> m_picture.len, size |-> m_picture.size,
                         nr |-> m_picture.nr, cur |-> m_picture.cur,
                         valid |-> TRUE, enabled |-> ctl.show /\ ctl.dsp_enable]
       ELSE /\ shown' = [shown EXCEPT !.enabled = ctl.show /\ ctl.dsp_enable]
            /\ UNCHANGED m_picture
    /\ UNCHANGED <<m_video, ctl, pace, m_fmv_isr, src, hist, saved>>

CtlInit == [dsp_enable |-> FALSE, playback_active |-> FALSE,
            single_step_pending |-> FALSE, scan |-> FALSE, pausing |-> FALSE,
            start |-> 0, pause |-> 0, show |-> FALSE, slow_motion |-> 0]
PaceInit == [pending |-> FALSE, seen_first |-> FALSE, underflow |-> FALSE, due |-> 0]
PictureInit == [len |-> 0, size |-> 0, nr |-> 0, cur |-> FALSE, updated |-> FALSE]
ShownInit == [len |-> 0, size |-> 0, nr |-> 0, cur |-> FALSE, valid |-> FALSE,
              enabled |-> FALSE]

\* running: the last command that starts or halts playback started it;
\* rearmed: bytes or a command came since running dry was reported;
\* last: the picture normal playback displayed last, 0 for none;
\* ending: an end code went into the stream and was not announced yet.
HistoryInit == [running |-> FALSE, rearmed |-> TRUE, last |-> 0, ending |-> FALSE]

device_reset ==
    /\ m_video' = Fresh
    /\ ctl' = CtlInit
    /\ pace' = PaceInit
    /\ m_fmv_isr' = {}
    /\ m_picture' = PictureInit
    /\ shown' = ShownInit
    /\ src' = [src EXCEPT !.open = FALSE, !.intra = TRUE, !.owed = 0]
    /\ hist' = HistoryInit
    /\ UNCHANGED saved

\* Mutant: the pixels of a picture that is shown no more are saved as well.
PixelsOfBuffer == shown.len

\* The number of pixels saved is all that says whether the picture is valid.
Pixels == IF shown.valid THEN shown.len ELSE 0

device_pre_save ==
    /\ Saves /\ saved = NoState
    /\ saved' = [m_video |-> m_video, ctl |-> ctl, pace |-> pace,
                 m_fmv_isr |-> m_fmv_isr, m_picture |-> m_picture,
                 shown |-> shown, pixels |-> Pixels, src |-> src, hist |-> hist]
    /\ UNCHANGED <<m_video, ctl, pace, m_fmv_isr, m_picture, shown, src, hist>>

\* The decoder of a loaded state; what it knew of its sequence is replaced
\* only if the state has a sequence.
LoadedVideo == set_decoder_state(set_sequence_state(m_video, saved.m_video.size),
                                 saved.m_video)

\* Mutant: the buffers are left to the first picture that needs them.
LoadedPictureLazy(p) == [p EXCEPT !.len = 0, !.nr = 0, !.updated = FALSE]

\* The back buffer is made to its size and filled from the decoder.
LoadedPicture(p) ==
    LET refill == p.updated /\ p.size # 0 /\ LoadedVideo.display # None
    IN  [len |-> p.size, size |-> p.size,
         nr |-> IF refill THEN DisplayFrame(LoadedVideo).nr ELSE 0,
         cur |-> IF refill THEN TRUE ELSE p.cur,
         updated |-> refill]

device_post_load ==
    /\ saved # NoState
    /\ m_video' = LoadedVideo
    /\ m_picture' = LoadedPicture(saved.m_picture)
    /\ shown' = [saved.shown EXCEPT
                    !.len = saved.shown.size,
                    !.nr = IF saved.pixels # 0 THEN @ ELSE 0,
                    !.valid = saved.pixels # 0]
    /\ ctl' = saved.ctl
    /\ pace' = saved.pace
    /\ m_fmv_isr' = saved.m_fmv_isr
    /\ src' = saved.src
    /\ hist' = saved.hist
    /\ UNCHANGED saved

-----------------------------------------------------------------------------
Init ==
    /\ m_video = Fresh
    /\ ctl = CtlInit
    /\ pace = PaceInit
    /\ m_fmv_isr = {}
    /\ m_picture = PictureInit
    /\ shown = ShownInit
    /\ src = [open |-> FALSE, intra |-> TRUE, owed |-> 0, anchor |-> 0, before |-> 0]
    /\ hist = HistoryInit
    /\ saved = NoState

Next ==
    \/ write_syscmd
    \/ WriteDecCmd
    \/ write_vidcmd
    \/ ReadIsr
    \/ FeedSequence
    \/ FeedAnchor
    \/ FeedB
    \/ FeedEnd
    \/ dclk_tick
    \/ vblank_update
    \/ device_reset
    \/ device_pre_save
    \/ device_post_load

Spec == Init /\ [][Next]_vars

-----------------------------------------------------------------------------
(* Properties. *)

\* Type invariant of the decoder, the controls and the two buffers.
TypeOK ==
    /\ IsDecoder(m_video, MaxNr)
    /\ ctl \in [dsp_enable : BOOLEAN, playback_active : BOOLEAN,
                single_step_pending : BOOLEAN, scan : BOOLEAN, pausing : BOOLEAN,
                start : 0..StartDelay, pause : 0..PauseDelay, show : BOOLEAN,
                slow_motion : Slows]
    /\ pace \in [pending : BOOLEAN, seen_first : BOOLEAN, underflow : BOOLEAN,
                 due : (-MaxTicks)..MaxTicks]
    /\ m_fmv_isr \subseteq Watched
    /\ m_picture \in [len : Sizes \cup {0}, size : Sizes \cup {0}, nr : 0..MaxNr,
                      cur : BOOLEAN, updated : BOOLEAN]
    /\ shown \in [len : Sizes \cup {0}, size : Sizes \cup {0}, nr : 0..MaxNr,
                  cur : BOOLEAN, valid : BOOLEAN, enabled : BOOLEAN]

\* A frame the decoder takes for complete was predicted from exactly the
\* pictures its encoder predicted it from, over every order of seeks, size
\* changes, ends, resets and loaded states: damage is never displayed as a
\* picture, nor predicted from.
ValidFramesAreGood ==
    \A i \in Slots : m_video.frames[i].valid => m_video.frames[i].good

\* Both picture buffers have the size their dimensions say, whichever of them
\* the swaps, the loads and the changes of size left where: the decoder, which
\* allocates only on a change of size, never has a buffer it cannot fill.
BuffersMatchDimensions == m_picture.len = m_picture.size /\ shown.len = shown.size

\* Once a clip was torn down by decoder off, none of its pictures is shown
\* again, nor waits to be shown, also after a state is saved and loaded.
NoStaleClip ==
    /\ shown.valid => shown.cur
    /\ m_picture.updated => m_picture.cur

\* Playback runs, or is about to, only if the last command to start or halt
\* it was one that starts it: no start latched before a pause, a stop or a
\* seek comes into force after it.
HaltIsKept == ctl.playback_active \/ ctl.start > 0 => hist.running

\* Normal playback displays pictures in display order although they are
\* decoded in another, and each once, across end codes, steps and seeks; only
\* a state that is loaded goes back.
ShownInOrder ==
    [][ hist.last # 0 /\ hist'.last # 0 /\ hist'.last # hist.last
          => hist'.last > hist.last \/ device_post_load ]_vars

\* Running dry is reported once: not again before data arrived or the driver
\* started anew (a state that is loaded brings back what it had to report).
DryIsReportedOnce ==
    [][ "NDAT" \in m_fmv_isr' \ m_fmv_isr => hist.rearmed \/ device_post_load ]_vars

\* An end code that entered the stream is announced to the driver, which waits
\* for it to tear the clip down, or still can be: whether it comes with a
\* picture, after the last one, or with nothing to follow, and whatever the
\* commands in between, it is in the buffer or the decoder remembers it.
EndIsKept ==
    hist.ending => \/ m_video.ended
                   \/ \E i \in DOMAIN m_video.fifo : m_video.fifo[i].code = "end"
=============================================================================
