------------------------------ MODULE DvcAudio ------------------------------
(***************************************************************************)
(* The audio side of the Digital Video Cartridge (machine/cdidvc.cpp and   *)
(* machine/mpeg1audio.cpp): the DMA requests the two units of the          *)
(* cartridge share, the bytes they move through the demultiplexer into the *)
(* decoder's buffer, the frames the decoder clock decodes into the output  *)
(* ring, and the sound stream that drains it.  A tick of the decoder clock *)
(* is one call in the code and runs here as steps under `phase', a frame   *)
(* at a time; nothing else happens before the call has returned.           *)
(***************************************************************************)
EXTENDS Mpeg1Demux, Sequences, FiniteSets

CONSTANTS
    Discs,         \* program streams, see DvcAudioConstants
    Streams,       \* the stream numbers the driver selects
    Chunks,        \* lengths of a transfer, in words
    Directions,    \* the values of the channel's OCR_D
    Video,         \* TRUE: the video unit requests transfers too
    FrameBytes,    \* m_next_frame_size: all frames have one size
    Pairs,         \* stereo pairs of a frame, max_samples_per_frame
    EraseAt,       \* bytes consumed at which the buffer is moved up, 16384
    BufferLimit,   \* m_buffer_limit, 64K (cdidvc.cpp:63)
    Capacity,      \* m_audio_ring.size(), 65536
    Prime,         \* k_audio_prime_samples, 26460
    PrimeTimeout,  \* k_audio_prime_timeout, 22050
    Update,        \* samples the sound stream asks for at a time
    Div,           \* ticks between two calls of advance_audio(), 32
    DryTicks,      \* DRY_TICKS, 22500
    SavesBehind    \* TRUE: states are saved also while the position is a byte
                   \* behind what was consumed (see get_decoder_state())

VARIABLES
    m_audio_demux,  \* the demultiplexer
    m_audio,        \* the decoder: its buffer, and two positions in it
    dma,            \* the request and the 68070's channel
    fma,            \* registers and flags of the audio unit
    out,            \* the output ring and its priming
    phase,          \* the call that is running, or "idle" between two
    disc,           \* the program stream being read
    hist            \* history: see HistInit

vars == <<m_audio_demux, m_audio, dma, fma, out, phase, disc, hist>>

AudioClass == 12                \* 0xC0: the class of audio stream ids
HeaderBytes == 4

\* A disc's bytes, for every stream number the places in them that hold its
\* elementary stream, and the offsets in that stream at which its frames begin.
ASSUME DvcAudioConstants ==
    /\ Streams # {} /\ Streams \subseteq 0..15
    /\ \A d \in Discs :
          /\ d.bytes \in Seq(Byte) /\ Len(d.bytes) % 2 = 0
          /\ \A n \in Streams : /\ d.payload[n] \in Seq(1..Len(d.bytes))
                                /\ d.frames[n] \in Seq(Nat)
    /\ Chunks \subseteq Word \ {0} /\ Directions \subseteq BOOLEAN /\ Video \in BOOLEAN
    /\ FrameBytes \in Nat /\ FrameBytes >= HeaderBytes /\ Pairs \in Nat \ {0}
    /\ EraseAt \in Nat \ {0} /\ BufferLimit \in Nat
    /\ Capacity \in Nat /\ Capacity % 2 = 0 /\ Capacity > 2 * Pairs
    /\ Prime \in Nat /\ PrimeTimeout \in Nat \ {0} /\ Update \in Nat \ {0}
    /\ Div \in Nat \ {0} /\ DryTicks \in Nat \ {0} /\ SavesBehind \in BOOLEAN

min(a, b) == IF a < b THEN a ELSE b

\* The one state of the demultiplexer after the first k bytes of a disc that it
\* is given in one go, as a set.
Uncut(d, n) ==
    LET state[k \in 0..Len(d.bytes)] ==
            IF k = 0 THEN {demux_reset}
            ELSE {feed(u, d.bytes[k], AudioClass, n) : u \in state[k - 1]}
    IN  state

\* Given in one go, the places of a stream are those the demultiplexer takes.
ASSUME PayloadAssumption ==
    \A d \in Discs, n \in Streams :
        LET payload == d.payload[n]
        IN  /\ \A i, j \in DOMAIN payload : i < j => payload[i] < payload[j]
            /\ {payload[i] : i \in DOMAIN payload} =
                   {k \in 1..Len(d.bytes) : \A u \in Uncut(d, n)[k - 1] : is_body(u)}

-----------------------------------------------------------------------------
(* The decoder's buffer, mpeg1audio.cpp. *)

\* mpeg1_audio_decoder::reset().  bit is m_bit_pos in bytes.
audio_reset == [buffer |-> <<>>, read |-> 0, bit |-> 0, underflow |-> FALSE]

buffered_bytes(a) == Len(a.buffer) - a.read

\* The first n bytes are moved out of the buffer.  A position behind them is
\* unsigned and wraps, beyond the end of any buffer: here it is negative.
Erased(a, n) ==
    [a EXCEPT !.buffer = SubSeq(@, n + 1, Len(@)), !.bit = @ - n, !.read = @ - n]

write(a, data) ==
    LET fits == buffered_bytes(a) + 1 <= BufferLimit
        room == IF fits THEN a ELSE Erased(a, a.read)
    IN  [room EXCEPT !.buffer = Append(@, data)]

\* Positions count from 0 and sequences from 1.
At(a, i) == a.buffer[i + 1]

IsSync(a, i) == At(a, i) = 255 /\ At(a, i + 1) >= 224
Syncs(a) == {i \in a.bit..(Len(a.buffer) - 2) : a.bit >= 0 /\ IsSync(a, i)}

\* decode_header(): version, layer, bit rate and sampling rate of the header.
ValidHeader(a, i) ==
    LET version == (At(a, i + 1) \div 8) % 4
        layer == (At(a, i + 1) \div 2) % 4
        bitrate_index == At(a, i + 2) \div 16
        samplerate_index == (At(a, i + 2) \div 4) % 4
    IN  /\ version # 1 /\ layer \notin {0, 1}
        /\ bitrate_index \notin {0, 15} /\ samplerate_index # 3

\* Where headers are in an elementary stream, counted from its first byte.
Headers(d, n) ==
    LET payload == d.payload[n]
        all == [buffer |-> [k \in DOMAIN payload |-> d.bytes[payload[k]]]]
    IN  {o \in 0..(Len(payload) - HeaderBytes) : IsSync(all, o) /\ ValidHeader(all, o)}

\* Frames begin with a header and do not overlap.  Any other header is inside a
\* frame and not in its last byte, or the stream ends before its frame would.
ASSUME FrameAssumption ==
    \A d \in Discs, n \in Streams :
        LET frames == d.frames[n]
        IN  /\ \A j \in DOMAIN frames : frames[j] \in Headers(d, n)
            /\ \A i, j \in DOMAIN frames : i < j => frames[i] + FrameBytes <= frames[j]
            /\ \A o \in Headers(d, n) :
                  \/ o + FrameBytes > Len(d.payload[n])
                  \/ \E j \in DOMAIN frames :
                        frames[j] <= o /\ o < frames[j] + FrameBytes - 1

\* The syncs decode() does not skip: a header that is cut short, or a good one.
Candidates(a) ==
    {i \in Syncs(a) : i + HeaderBytes > Len(a.buffer) \/ ValidHeader(a, i)}
First(S) == CHOOSE i \in S : \A j \in S : i <= j

HasFrame(a) ==
    Candidates(a) # {} /\ First(Candidates(a)) + FrameBytes <= Len(a.buffer)

\* What decode() does with a whole frame at i, with one that is not all there,
\* and without any: then the position becomes the last byte of the buffer,
\* consumed or not.
Consumed(a, i) ==
    LET end == i + FrameBytes
        next == [a EXCEPT !.read = end, !.bit = end, !.underflow = FALSE]
    IN  IF end >= EraseAt THEN Erased(next, end) ELSE next

\* Mutant: the position stays behind the header of the frame that is not all there.
IncompletePast(a, i) ==
    IF i + HeaderBytes > Len(a.buffer) THEN [a EXCEPT !.bit = i]
    ELSE [a EXCEPT !.bit = i + HeaderBytes, !.underflow = TRUE]
Incomplete(a, i) ==
    IF i + HeaderBytes > Len(a.buffer) THEN [a EXCEPT !.bit = i]
    ELSE [a EXCEPT !.bit = i, !.underflow = TRUE]

LastByte(a) == IF Len(a.buffer) > 1 THEN Len(a.buffer) - 1 ELSE 0
\* Mutant: a search that finds nothing is no underflow.
NotFoundQuiet(a) == [a EXCEPT !.bit = LastByte(a)]
NotFound(a) == [a EXCEPT !.bit = LastByte(a), !.underflow = TRUE]

decode(a) ==
    LET i == First(Candidates(a))
    IN  IF HasFrame(a) THEN Consumed(a, i)
        ELSE IF Candidates(a) = {} THEN NotFound(a) ELSE Incomplete(a, i)

\* get_decoder_state() and set_decoder_state().  The difference of the two
\* positions is unsigned: when the first is behind the second it wraps, and
\* the clamp makes it the end of the buffer.
Reloaded(a) ==
    LET kept == SubSeq(a.buffer, a.read + 1, Len(a.buffer))
    IN  [a EXCEPT !.buffer = kept, !.read = 0,
                  !.bit = IF a.bit < a.read THEN Len(kept) ELSE min(a.bit - a.read, Len(kept))]

-----------------------------------------------------------------------------
(* The output ring. *)

audio_ring_used ==
    IF out.write >= out.read THEN out.write - out.read
    ELSE Capacity - out.read + out.write
audio_ring_free == Capacity - audio_ring_used - 1

\* Samples that find the ring full are dropped.
Pushed(samples) ==
    LET n == min(Len(samples), audio_ring_free)
    IN  [out EXCEPT
           !.ring = [i \in 0..Capacity - 1 |->
                        LET k == (i + Capacity - out.write) % Capacity
                        IN  IF k < n THEN samples[k + 1] ELSE @[i]],
           !.write = (@ + n) % Capacity]

FrameSamples == [k \in 1..2 * Pairs |-> IF k % 2 = 1 THEN "l" ELSE "r"]

-----------------------------------------------------------------------------
(* History: what the driver and the listener know. *)

\* clean: the driver reads the disc from its start, in order, and every byte
\* reaches the audio unit and its decoder, whose position never wrapped.  base,
\* frames and last: the offset in the stream of the first byte of the buffer, the
\* frames decoded and the offset of the latest.  owed: pairs decoded and not yet
\* heard.  dry: ticks, while decoding, since there was something left to play.
\* mute: samples of silence while there was.  overlap: the audio unit's request
\* was refused, or lost its place to the video unit's.
HistInit ==
    [clean |-> TRUE, base |-> 0, frames |-> 0, last |-> 0, owed |-> 0, dry |-> 0, mute |-> 0,
     overlap |-> FALSE]

Lost(h) == [h EXCEPT !.clean = FALSE, !.base = 0, !.frames = 0, !.last = 0]
Afresh(h) == [Lost(h) EXCEPT !.clean = TRUE]
Untouched == m_audio_demux = demux_reset /\ m_audio = audio_reset

-----------------------------------------------------------------------------
(* DMA. *)

\* Playback is scheduled from the first stamp of the stream.
Noted(f, demux) ==
    IF demux.m_pts_updated /\ ~f.start_valid /\ ~f.dsp_enable
    THEN [f EXCEPT !.start_valid = TRUE,
                   !.start_in = (demux.m_pts \div 2) - (demux.m_scr \div 2)]
    ELSE f

\* feed_byte(): a byte for the audio unit.
feed_byte(unit, data) ==
    LET demux == feed(unit.demux, data, AudioClass, unit.fma.stream)
    IN  [demux |-> demux,
         audio |-> IF is_body(unit.demux) THEN write(unit.audio, data) ELSE unit.audio,
         fma |-> Noted(unit.fma, demux)]

\* The one state of the unit after the first n bytes of a transfer, as a set.
Units(d, unit) ==
    LET fed[n \in 0..2 * d.count] ==
            IF n = 0 THEN {unit}
            ELSE {feed_byte(u, disc.bytes[d.at + n - 1]) : u \in fed[n - 1]}
    IN  fed[IF d.for_fma THEN 2 * d.count ELSE 0]

\* Mutant: a transfer starts the demultiplexer over.
FedAfresh(d, f) ==
    CHOOSE unit \in Units(d, [demux |-> demux_reset, audio |-> m_audio, fma |-> f]) : TRUE

\* The words of the channel, through the audio unit.  The video unit has its own.
Fed(d, f) ==
    CHOOSE unit \in Units(d, [demux |-> m_audio_demux, audio |-> m_audio, fma |-> f]) : TRUE

\* A transfer that is complete: the DMA bit of the audio unit's command is its
\* acknowledgement.  The video unit's is not followed.
Complete(d) ==
    [d EXCEPT !.pending = FALSE, !.for_fma = FALSE, !.count = 0,
              !.at = @ + 2 * d.count, !.fma_bit = @ /\ ~d.for_fma]

\* Mutant: the request is dropped when the channel is still empty.
ServedOnce(d) ==
    IF d.count = 0 \/ d.into THEN [d EXCEPT !.pending = FALSE] ELSE Complete(d)

\* The request and the channel after try_dma(): as they were while the channel
\* is empty, dropped when it points the wrong way, else complete.
Served(d) ==
    IF d.count = 0 THEN d
    ELSE IF d.into THEN [d EXCEPT !.pending = FALSE] ELSE Complete(d)

\* try_dma(), with the other registers as f and the history as h.
try_dma(d, f, h) ==
    LET moves == d.count # 0 /\ ~d.into
        unit == IF moves THEN Fed(d, f)
                ELSE [demux |-> m_audio_demux, audio |-> m_audio, fma |-> f]
    IN  /\ m_audio_demux' = unit.demux /\ m_audio' = unit.audio /\ fma' = unit.fma
        /\ dma' = Served(d)
        /\ LET seen == [h EXCEPT !.base = @ + m_audio.read - unit.audio.read,
                                 !.dry = IF buffered_bytes(unit.audio) # 0 THEN 0 ELSE @,
                                 !.overlap = @ \/ (d.count # 0 /\ d.into)]
           IN  hist' = IF h.clean /\ ~(moves /\ ~d.for_fma) /\ unit.audio.bit >= 0
                       THEN seen ELSE Lost(seen)

\* request_dma(): one slot for both units.
request_dma(d, for_fma, f, h) ==
    try_dma([d EXCEPT !.pending = TRUE, !.for_fma = for_fma], f, h)

\* The driver programs the channel: the next words of the disc or, after a stop,
\* its first.
ArmChannel(count, into) ==
    /\ phase = "idle" /\ dma.count = 0
    /\ LET from == IF Untouched THEN 1 ELSE dma.at
       IN  /\ from + 2 * count - 1 <= Len(disc.bytes)
           /\ dma' = [dma EXCEPT !.count = count, !.into = into, !.at = from]
    /\ hist' = IF Untouched THEN Afresh(hist) ELSE hist
    /\ UNCHANGED <<m_audio_demux, m_audio, fma, out, phase, disc>>

-----------------------------------------------------------------------------
(* Register writes and reads. *)

\* write_fma_cmd(): bit 15 requests a transfer, bit 0 stops.
write_fma_cmd(transfer, stop) ==
    /\ phase = "idle"
    /\ LET written == [dma EXCEPT !.fma_bit = transfer]
       IN  IF transfer
           THEN request_dma(written, TRUE, [fma EXCEPT !.unf = FALSE],
                            [hist EXCEPT !.overlap = FALSE])
           ELSE dma' = written /\ UNCHANGED <<m_audio_demux, m_audio, fma, hist>>
    /\ phase' = IF stop THEN "stop" ELSE "idle"
    /\ UNCHANGED <<out, disc>>

\* Stop, after the transfer if there was one.
Stop ==
    /\ phase = "stop"
    /\ fma' = [fma EXCEPT !.dsp_enable = FALSE, !.unf = FALSE, !.decoding = FALSE,
                          !.start_valid = FALSE, !.start_in = 0, !.since = 0]
    /\ m_audio_demux' = demux_reset
    /\ m_audio' = audio_reset
    /\ phase' = "idle"
    /\ hist' = IF dma.at = 1 THEN Afresh(hist) ELSE Lost(hist)
    /\ UNCHANGED <<dma, out, disc>>

\* write_syscmd() with its DMA bit: the other unit's request takes the slot.
write_syscmd ==
    /\ phase = "idle" /\ Video
    /\ request_dma(dma, FALSE, fma, [hist EXCEPT !.overlap = TRUE])
    /\ UNCHANGED <<out, phase, disc>>

\* The stream number, register 1804.  The driver writes it before it reads.
SelectStream(number) ==
    /\ phase = "idle" /\ Untouched
    /\ fma' = [fma EXCEPT !.stream = number]
    /\ hist' = IF dma.at = 1 THEN Afresh(hist) ELSE Lost(hist)
    /\ UNCHANGED <<m_audio_demux, m_audio, dma, out, phase, disc>>

-----------------------------------------------------------------------------
(* The decoder clock, dclk_tick(). *)

Dried == buffered_bytes(m_audio) = 0 /\ audio_ring_used < 2

\* The clock counts, playback starts when it is due, a held request is retried.
dclk_tick ==
    /\ phase = "idle"
    /\ LET due == fma.start_valid /\ fma.start_in <= 1
           ticked == [fma EXCEPT
                        !.dclk = (@ + 1) % Div,
                        !.start_valid = @ /\ ~due,
                        !.start_in = IF fma.start_valid /\ ~due THEN @ - 1 ELSE 0,
                        !.dsp_enable = @ \/ due,
                        !.since = IF due THEN 0 ELSE min(@ + 1, DryTicks)]
           h == [hist EXCEPT !.dry = IF Dried /\ fma.decoding
                                     THEN min(@ + 1, DryTicks + Div + 1) ELSE 0]
       IN  IF dma.pending THEN try_dma(dma, ticked, h)
           ELSE fma' = ticked /\ hist' = h /\ UNCHANGED <<m_audio_demux, m_audio, dma>>
    /\ phase' = IF fma'.dclk = 0 /\ fma'.dsp_enable THEN "audio" ELSE "idle"
    /\ UNCHANGED <<out, disc>>

\* Mutant: a frame is decoded when the ring has room for half of it.
RoomForHalf == audio_ring_free >= Pairs
RoomForFrame == audio_ring_free >= 2 * Pairs

\* advance_audio(), its loop: a frame into the ring.
DecodeFrame ==
    /\ phase = "audio" /\ RoomForFrame /\ HasFrame(m_audio)
    /\ m_audio' = decode(m_audio)
    /\ out' = Pushed(FrameSamples)
    /\ fma' = [fma EXCEPT !.decoding = TRUE]
    /\ LET gone == Len(m_audio.buffer) - Len(m_audio'.buffer)
           h == [hist EXCEPT !.owed = min(@ + Pairs, Capacity), !.dry = 0]
       IN  hist' = IF h.clean
                   THEN [h EXCEPT !.frames = @ + 1, !.base = @ + gone,
                                  !.last = h.base + First(Candidates(m_audio))]
                   ELSE h
    /\ UNCHANGED <<m_audio_demux, dma, phase, disc>>

\* The loop ends: the ring is full, or the decoder has no frame.
LoopEnds ==
    /\ phase = "audio" /\ ~(RoomForFrame /\ HasFrame(m_audio))
    /\ m_audio' = IF RoomForFrame THEN decode(m_audio) ELSE m_audio
    /\ phase' = "drained"
    /\ UNCHANGED <<m_audio_demux, dma, fma, out, disc, hist>>

\* Mutant: only the buffer of the decoder counts.
NothingBuffered == buffered_bytes(m_audio) = 0
NothingLeft == buffered_bytes(m_audio) = 0 /\ audio_ring_used < 2

\* The rest of advance_audio(): a buffer that stayed dry is an underflow.
Drained ==
    /\ phase = "drained"
    /\ LET since == IF NothingLeft THEN fma.since ELSE 0
           dry == m_audio.underflow /\ fma.decoding /\ since >= DryTicks
       IN  fma' = [fma EXCEPT
                     !.since = since,
                     !.unf = @ \/ dry, !.decoding = @ /\ ~dry, !.dsp_enable = @ /\ ~dry,
                     !.start_valid = @ /\ ~dry, !.start_in = IF dry THEN 0 ELSE @]
    /\ m_audio' = [m_audio EXCEPT !.underflow = FALSE]
    /\ phase' = "idle"
    /\ UNCHANGED <<m_audio_demux, dma, out, disc, hist>>

-----------------------------------------------------------------------------
(* The sound stream, resets and states. *)

\* Mutant: the wait for the cushion has no end.
GaveUpNever(wait) == audio_ring_used >= Prime
GaveUp(wait) == audio_ring_used >= Prime \/ wait >= PrimeTimeout

Taken == 2 * min(Update, audio_ring_used \div 2)

\* sound_stream_update(): silence until the cushion is there, then whole pairs.
sound_stream_update ==
    /\ phase = "idle"
    /\ LET stopped == ~fma.dsp_enable /\ audio_ring_used < 2
           primed == out.primed /\ ~stopped
           waited == (IF stopped THEN 0 ELSE out.prime_wait)
                     + (IF audio_ring_used >= 2 THEN Update ELSE 0)
           wait == IF primed THEN out.prime_wait ELSE waited
           plays == primed \/ GaveUp(wait)
       IN  /\ out' = [out EXCEPT
                        !.primed = plays, !.prime_wait = wait,
                        !.read = IF plays THEN (@ + Taken) % Capacity ELSE @]
           /\ hist' = IF plays THEN [hist EXCEPT !.owed = @ - min(Update, @), !.mute = 0]
                      ELSE IF audio_ring_used >= 2
                      THEN [hist EXCEPT !.mute = min(@ + Update, PrimeTimeout + 1)]
                      ELSE hist
    /\ UNCHANGED <<m_audio_demux, m_audio, dma, fma, phase, disc>>

FmaReset == [stream |-> CHOOSE n \in Streams : \A k \in Streams : n <= k,
             unf |-> FALSE, decoding |-> FALSE, dsp_enable |-> FALSE, start_valid |-> FALSE,
             start_in |-> 0, since |-> 0, dclk |-> 0]
OutReset == [ring |-> [i \in 0..Capacity - 1 |-> "0"], write |-> 0, read |-> 0,
             primed |-> FALSE, prime_wait |-> 0]
DmaReset == [pending |-> FALSE, for_fma |-> FALSE, count |-> 0, into |-> FALSE,
             at |-> 1, fma_bit |-> FALSE]

\* device_reset(), with that of the 68070, whose channel it empties.
device_reset ==
    /\ phase = "idle"
    /\ m_audio_demux' = demux_reset /\ m_audio' = audio_reset
    /\ dma' = DmaReset /\ fma' = FmaReset /\ out' = OutReset /\ hist' = HistInit
    /\ UNCHANGED <<phase, disc>>

\* A state is saved and loaded.  Everything but the decoder comes back as it was.
SaveAndLoad ==
    /\ phase = "idle"
    /\ SavesBehind \/ m_audio.bit >= m_audio.read
    /\ m_audio' = Reloaded(m_audio)
    /\ hist' = IF hist.clean THEN [hist EXCEPT !.base = @ + m_audio.read] ELSE hist
    /\ UNCHANGED <<m_audio_demux, dma, fma, out, phase, disc>>

Init ==
    /\ m_audio_demux = demux_reset /\ m_audio = audio_reset
    /\ dma = DmaReset /\ fma = FmaReset /\ out = OutReset
    /\ phase = "idle" /\ disc \in Discs /\ hist = HistInit

Call == Stop \/ DecodeFrame \/ LoopEnds \/ Drained
Driver ==
    \/ \E count \in Chunks, into \in Directions : ArmChannel(count, into)
    \/ \E transfer, stop \in BOOLEAN : write_fma_cmd(transfer, stop)
    \/ write_syscmd
    \/ \E number \in Streams : SelectStream(number)
Next ==
    \/ Call \/ Driver \/ dclk_tick \/ sound_stream_update \/ device_reset \/ SaveAndLoad

Spec == Init /\ [][Next]_vars

-----------------------------------------------------------------------------
(* Properties. *)

\* Type invariant.
Audios == [buffer : Seq(Byte), read : Nat, bit : Int, underflow : BOOLEAN]
Channels ==
    [pending : BOOLEAN, for_fma : BOOLEAN, count : Word, into : BOOLEAN, at : Nat \ {0},
     fma_bit : BOOLEAN]
AudioUnits ==
    [stream : Streams, unf : BOOLEAN, decoding : BOOLEAN, dsp_enable : BOOLEAN,
     start_valid : BOOLEAN, start_in : Int, since : 0..DryTicks, dclk : 0..(Div - 1)]
Outputs ==
    [ring : [0..(Capacity - 1) -> {"l", "r", "0"}], write : 0..(Capacity - 1),
     read : 0..(Capacity - 1), primed : BOOLEAN, prime_wait : Nat]
Histories ==
    [clean : BOOLEAN, base : Nat, frames : Nat, last : Nat, owed : 0..Capacity,
     dry : 0..(DryTicks + Div + 1), mute : 0..(PrimeTimeout + 1), overlap : BOOLEAN]
TypeOK ==
    /\ m_audio_demux \in Demuxers /\ m_audio \in Audios
    /\ dma \in Channels /\ fma \in AudioUnits /\ out \in Outputs
    /\ phase \in {"idle", "stop", "audio", "drained"}
    /\ disc \in Discs /\ hist \in Histories

\* The elementary stream of the selected number, whole and nothing else, comes
\* out of the demultiplexer, wherever the transfers cut the program stream and
\* whatever other streams lie between its packets.
PayloadIsWhole ==
    LET payload == disc.payload[fma.stream]
    IN  hist.clean =>
            /\ hist.base + Len(m_audio.buffer)
                 = Cardinality({k \in DOMAIN payload : payload[k] < dma.at})
            /\ \A i \in DOMAIN m_audio.buffer :
                  m_audio.buffer[i] = disc.bytes[payload[hist.base + i]]

\* The decoder takes the frames of the stream, each once and in order, however
\* they arrive: none is passed over while it is incomplete, or because the scan
\* for the next one starts at a byte of the last.
FramesInOrder ==
    hist.clean /\ hist.frames > 0 =>
        /\ hist.frames <= Len(disc.frames[fma.stream])
        /\ hist.last = disc.frames[fma.stream][hist.frames]

\* No decoded sample is dropped and none changes its channel: the ring holds
\* the pairs not yet heard, left before right.
RingIsPaired ==
    /\ audio_ring_used = 2 * hist.owed
    /\ \A k \in 0..(audio_ring_used - 1) :
          out.ring[(out.read + k) % Capacity] = IF k % 2 = 0 THEN "l" ELSE "r"

\* An underflow, on which the player tears the clip down, is announced when the
\* cartridge ran dry and only then: not before it had nothing left to play for
\* the driver's slack, and within one more period of advance_audio(), so that a
\* decoder that has run dry does not go on claiming to decode.
UnderflowIsExact ==
    /\ [][fma'.unf /\ ~fma.unf => hist.dry + Div >= DryTicks]_vars
    /\ [](fma.decoding => hist.dry <= DryTicks + Div)

\* Decoded audio is kept waiting for the cushion for a bounded time only, also
\* when a title never fills it.
AudioIsPlayed == hist.mute <= PrimeTimeout

\* A transfer the audio unit was told to make is made by the next tick once the
\* channel is armed for it, before or after the command, unless the video unit
\* took the slot.
RequestIsServed ==
    [][fma'.dclk # fma.dclk =>
          ~(dma'.fma_bit /\ dma'.count # 0 /\ ~dma'.into /\ ~hist'.overlap)]_vars
=============================================================================
