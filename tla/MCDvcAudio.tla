----------------------------- MODULE MCDvcAudio -----------------------------
(* DvcAudio on a program stream of two audio streams, video and an end code. *)
EXTENDS DvcAudio, SequencesExt

\* A part of a program stream: its header bytes and, under a stream number,
\* the bytes of its elementary stream.
Part0(head) == [number |-> 16, head |-> head, body |-> <<>>]
Stamp(value) == <<33, 0, 1, value \div 128, (value % 128) * 2 + 1>>
Pack(scr) == Part0(<<0, 0, 1, 186>> \o Stamp(scr) \o <<128, 0, 0>>)
EndCode == Part0(<<0, 0, 1, 185>>)
Packet(id, number, fields, body) ==
    [number |-> number, body |-> body,
     head |-> <<0, 0, 1, id, 0, Len(fields) + Len(body)>> \o fields]

DiscOf(parts, frames) ==
    FoldLeft(
        LAMBDA d, p :
            LET first == Len(d.bytes) + Len(p.head) + 1
            IN  [d EXCEPT !.bytes = @ \o p.head \o p.body,
                          !.payload = [n \in DOMAIN @ |->
                              @[n] \o (IF n = p.number THEN [i \in 1..Len(p.body) |-> first + i - 1]
                                       ELSE <<>>)]],
        [bytes |-> <<>>, payload |-> [n \in Streams |-> <<>>], frames |-> frames],
        parts)

\* Frames of Layer II; a last byte of 255 looks like the start of a sync.
Frame(a, b) == <<255, 253, 148, 0, a, b>>

\* Cut into three transfers of 30 bytes: the first ends with its frame, whose
\* last byte is 255; the second, after video that holds a start code and a packet
\* of the other audio stream, ends within a frame; the third holds the rest, a
\* packet with every optional field, the end code and filler.
Mixed ==
    DiscOf(<<Pack(2),
             Packet(192, 0, Stamp(8), <<9>> \o Frame(0, 255)),
             Packet(224, 16, <<15>>, <<0, 0, 1, 179>>),
             Packet(193, 1, <<15>>, <<0>>),
             Packet(192, 0, <<15>>, Frame(0, 0)),
             Packet(192, 0, <<255, 64, 32, 15>>, Frame(255, 255)),
             EndCode,
             Part0(<<0, 0, 0, 0, 0, 0, 0, 0>>)>>,
           [n \in Streams |-> IF n = 0 THEN <<1, 7, 13>> ELSE <<>>])
TheDiscs == {Mixed}
=============================================================================
