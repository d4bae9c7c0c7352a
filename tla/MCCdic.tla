------------------------------- MODULE MCCdic -------------------------------
(***************************************************************************)
(* An instance of Cdic for TLC, under the drivers of two kinds of title.   *)
(* A reader gives every command and leaves the audio map alone; a player   *)
(* uses the map in every way beside one kind of read.                      *)
(***************************************************************************)
EXTENDS Cdic

VARIABLE title

Xa == [bps |-> "8", rate |-> "37k", chan |-> "stereo"]     \* two ticks
XaMpeg == [bps |-> "mpeg", rate |-> "37k", chan |-> "stereo"]   \* not played

Sector == [mode |-> 2, file |-> TRUE, eof |-> FALSE, mark |-> FALSE,
           payload |-> "data", form2 |-> FALSE, chan |-> TRUE, achan |-> TRUE,
           coding |-> Xa]
Audio == [Sector EXCEPT !.payload = "audio", !.form2 = TRUE]

\* Each test of the selection code fails for one kind and passes for another.
SectorKinds ==
    {Sector,
     [Sector EXCEPT !.mode = 1],
     [Sector EXCEPT !.eof = TRUE],
     [Sector EXCEPT !.file = FALSE, !.eof = TRUE],
     [Sector EXCEPT !.chan = FALSE, !.mark = TRUE],
     [Sector EXCEPT !.payload = "none"],
     [Audio EXCEPT !.chan = FALSE],
     [Audio EXCEPT !.achan = FALSE],
     [Audio EXCEPT !.eof = TRUE],
     Audio}

AllCommands == CommandSet
AllCodings == {EndOfMap, Xa, XaMpeg}
TimeZero == {0}

\* Buffers that are not played occur in one bank only: the other is as good.
Titles ==
    /\ title = "reader" => ~audctl' /\ bank_coding'[1] # XaMpeg
    /\ title = "player" => command' \in {"None", "ReadMode2"}
    /\ bank_coding'[0] # XaMpeg

TitleInit ==
    /\ Init
    /\ title \in {"reader", "player"}
    /\ \A bank \in 0..1 : bank_coding[bank] = EndOfMap

TitleNext == Next /\ UNCHANGED title /\ Titles

TitleSpec == TitleInit /\ [][TitleNext]_<<vars, title>> /\ Fairness
=============================================================================
