----------------------------- MODULE Scc68070 ------------------------------
(***************************************************************************)
(* The interrupt logic of the 68070 (devices/machine/scc68070.cpp): two    *)
(* external lines, the INT1 and INT2 latches, timer 0, the transmitter of  *)
(* the UART and the DMA channels, each on a level the guest has chosen,    *)
(* with the level the CPU is given and its acknowledge cycle.  INT1 comes  *)
(* from the MCD212 (video/mcd212.cpp), whose interrupt flags are here.     *)
(***************************************************************************)
EXTENDS Integers

CONSTANTS
    Levels,    \* the levels a guest gives to its devices
    Channels,  \* DMA channels
    Paths      \* planes of the MCD212, each with an interrupt flag

ASSUME SccConstants == 0 \in Levels /\ Levels \subseteq 0..7

VARIABLES
    in2, in4,   \* external lines: the SLAVE and the board's flip-flop
    it,         \* MCD212: the planes whose interrupt flag is set in m_csrr[1]
    int1_line,  \* the state of INT1 that the edge detector last saw
    pending,    \* bits 7 and 3 of m_lir, m_timer_int and m_uart_tx_int
    level,      \* the levels in LIR, PICR1 and PICR2
    dma,        \* per channel: operation complete, interrupt enabled, level
    armed,      \* timer 0 has a period
    uart,       \* the transmit clock runs, and the transmitter is enabled
    ipl,        \* m_ipl: the level that the CPU sees
    stale,      \* history: a level was written and m_ipl not worked out since
    seen        \* history: the guest has taken or dropped the INT1 request
                \* since it last read the flags

lines == <<in2, in4>>
display == <<it, int1_line, seen>>
requests == <<pending, level, dma>>
clocks == <<armed, uart>>
priority == <<ipl, stale>>
vars == <<lines, display, requests, clocks, priority>>

Latches == {"int1", "int2"}
Internal == Latches \cup {"timer", "tx"}

-----------------------------------------------------------------------------
(* Priority. *)

\* Every level at which something asks for an interrupt, and 0.
Requested ==
    {0} \cup (IF in2 THEN {2} ELSE {}) \cup (IF in4 THEN {4} ELSE {})
        \cup {level[s] : s \in pending}
        \cup {dma[c].level : c \in {k \in Channels : dma[k].coc /\ dma[k].ine}}

Highest == CHOOSE l \in Requested : \A k \in Requested : k <= l

update_ipl == ipl' = Highest' /\ stale' = FALSE

in2_w(state) ==
    /\ in2' = state
    /\ UNCHANGED <<in4, display, requests, clocks>>
    /\ update_ipl

in4_w(state) ==
    /\ in4' = state
    /\ UNCHANGED <<in2, display, requests, clocks>>
    /\ update_ipl

\* Mutant: an edge that finds the latch set is not remembered.
int1_w_latched(state) ==
    IF state # int1_line
    THEN /\ int1_line' = (IF state /\ "int1" \in pending THEN int1_line ELSE state)
         /\ IF state /\ "int1" \notin pending
            THEN pending' = pending \cup {"int1"} /\ update_ipl
            ELSE UNCHANGED <<pending, priority>>
    ELSE UNCHANGED <<int1_line, pending, priority>>

\* INT1 is latched by its rising edge.
int1_w(state) ==
    IF state # int1_line
    THEN /\ int1_line' = state
         /\ IF state /\ "int1" \notin pending
            THEN pending' = pending \cup {"int1"} /\ update_ipl
            ELSE UNCHANGED <<pending, priority>>
    ELSE UNCHANGED <<int1_line, pending, priority>>

-----------------------------------------------------------------------------
(* The MCD212's side of INT1. *)

\* An INTERRUPT instruction in the control program of a plane.
process_ica(Path) ==
    /\ it' = it \cup {Path}
    /\ UNCHANGED <<lines, seen, level, dma, clocks>>
    /\ int1_w(TRUE)

\* Mutant: the line stays up.
csr2_r_kept ==
    /\ it' = {} /\ seen' = FALSE
    /\ UNCHANGED <<lines, int1_line, requests, clocks, priority>>

\* Reading status register 2 clears both flags, and drops the line if one was set.
csr2_r ==
    /\ it' = {} /\ seen' = FALSE
    /\ UNCHANGED <<lines, level, dma, clocks>>
    /\ IF it # {} THEN int1_w(FALSE) ELSE UNCHANGED <<int1_line, pending, priority>>

-----------------------------------------------------------------------------
(* The guest's registers. *)

\* The latches are in the register with their levels, and are written with it.
lir_w(latched, l1, l2) ==
    /\ pending' = (pending \ Latches) \cup latched
    /\ level' = [level EXCEPT !["int1"] = l1, !["int2"] = l2]
    /\ seen' = (seen \/ "int1" \notin latched)
    /\ stale' = TRUE
    /\ UNCHANGED <<lines, it, int1_line, dma, clocks, ipl>>

\* Mutant: clearing a request leaves the CPU with its level.
picr_w_quiet(source, l, clear) ==
    /\ level' = [level EXCEPT ![source] = l]
    /\ pending' = IF clear THEN pending \ {source} ELSE pending
    /\ stale' = (stale /\ ~clear)
    /\ UNCHANGED <<lines, display, dma, clocks, ipl>>

\* PICR1 for the timer and PICR2 for the transmitter: the level, and on demand
\* the end of the request.
picr_w(source, l, clear) ==
    /\ level' = [level EXCEPT ![source] = l]
    /\ pending' = IF clear THEN pending \ {source} ELSE pending
    /\ UNCHANGED <<lines, display, dma, clocks>>
    /\ IF clear /\ source \in pending THEN update_ipl ELSE stale' = TRUE /\ UNCHANGED ipl

timer_w ==
    /\ armed' = TRUE
    /\ UNCHANGED <<lines, display, requests, uart, priority>>

ucsr_w ==
    /\ uart' = [uart EXCEPT !.clocked = TRUE]
    /\ UNCHANGED <<lines, display, requests, armed, priority>>

\* A reset of the receiver, the transmitter or the errors disables both.
ucr_w(enabled) ==
    /\ uart' = [uart EXCEPT !.enabled = enabled]
    /\ UNCHANGED <<lines, display, requests, armed, priority>>

\* Channel status: the guest clears the end of the transfer.
dma_status_w(c) ==
    /\ dma' = [dma EXCEPT ![c].coc = FALSE]
    /\ UNCHANGED <<lines, display, pending, level, clocks>>
    /\ update_ipl

\* Channel control: a transfer that is started is complete at once.
dma_control_w(c, so, ine, l) ==
    /\ dma' = [dma EXCEPT ![c] = [coc |-> @.coc \/ so, ine |-> ine, level |-> l]]
    /\ UNCHANGED <<lines, display, pending, level, clocks>>
    /\ update_ipl

-----------------------------------------------------------------------------
(* Timers. *)

timer0_callback ==
    /\ armed
    /\ UNCHANGED <<lines, display, level, dma, clocks>>
    /\ IF "timer" \notin pending
       THEN pending' = pending \cup {"timer"} /\ update_ipl
       ELSE UNCHANGED <<pending, priority>>

tx_callback ==
    /\ uart.clocked /\ uart.enabled
    /\ pending' = pending \cup {"tx"}
    /\ UNCHANGED <<lines, display, level, dma, clocks>>
    /\ update_ipl

-----------------------------------------------------------------------------
(* Acknowledge. *)

\* Internal requests are looked for in this order.
Rank == [s \in Internal |-> CASE s = "int1" -> 1 [] s = "int2" -> 2 [] s = "timer" -> 3 [] s = "tx" -> 4]

External(offset) == (offset = 2 /\ in2) \/ (offset = 4 /\ in4)

At(offset) == {s \in pending : level[s] = offset}

\* Mutant: a latch is cleared beside the line that is acknowledged.
iack_r_latch_first(offset) ==
    /\ UNCHANGED <<lines, it, int1_line, level, dma, clocks>>
    /\ IF At(offset) = {}
       THEN UNCHANGED <<pending, seen, priority>>
       ELSE \E s \in At(offset) :
              /\ \A other \in At(offset) : Rank[s] <= Rank[other]
              /\ pending' = pending \ {s}
              /\ seen' = (seen \/ s = "int1")
              /\ update_ipl

\* An external device on this level answers with its vector; otherwise the
\* first internal request on it ends.
iack_r(offset) ==
    /\ UNCHANGED <<lines, it, int1_line, level, dma, clocks>>
    /\ IF External(offset) \/ At(offset) = {}
       THEN UNCHANGED <<pending, seen, priority>>
       ELSE \E s \in At(offset) :
              /\ \A other \in At(offset) : Rank[s] <= Rank[other]
              /\ pending' = pending \ {s}
              /\ seen' = (seen \/ s = "int1")
              /\ update_ipl

\* The CPU takes the interrupt it is given.
Interrupt == ipl # 0 /\ iack_r(ipl)

-----------------------------------------------------------------------------
(* Resets. *)

NoLevels == [s \in Internal |-> 0]

\* A RESET instruction leaves the DMA channels and the other chips alone.
m68k_reset_peripherals ==
    /\ pending' = {} /\ level' = NoLevels
    /\ armed' = FALSE /\ uart' = [clocked |-> FALSE, enabled |-> FALSE]
    /\ seen' = TRUE
    /\ UNCHANGED <<lines, it, int1_line, dma>>
    /\ update_ipl

\* A reset of the machine: the MCD212 clears its flags and drops INT1.
device_reset ==
    /\ it' = {} /\ int1_line' = FALSE /\ seen' = FALSE
    /\ pending' = {} /\ level' = NoLevels
    /\ dma' = [c \in Channels |-> [coc |-> FALSE, ine |-> FALSE, level |-> 0]]
    /\ armed' = FALSE /\ uart' = [clocked |-> FALSE, enabled |-> FALSE]
    /\ UNCHANGED lines
    /\ update_ipl

-----------------------------------------------------------------------------
Init ==
    /\ in2 = FALSE /\ in4 = FALSE
    /\ it = {} /\ int1_line = FALSE /\ seen = FALSE
    /\ pending = {} /\ level = NoLevels
    /\ dma = [c \in Channels |-> [coc |-> FALSE, ine |-> FALSE, level |-> 0]]
    /\ armed = FALSE /\ uart = [clocked |-> FALSE, enabled |-> FALSE]
    /\ ipl = 0 /\ stale = FALSE

Devices ==
    \/ \E state \in BOOLEAN : in2_w(state) \/ in4_w(state)
    \/ \E Path \in Paths : process_ica(Path)
    \/ timer0_callback \/ tx_callback

Guest ==
    \/ csr2_r
    \/ \E latched \in SUBSET Latches, l1 \in Levels, l2 \in Levels : lir_w(latched, l1, l2)
    \/ \E source \in {"timer", "tx"}, l \in Levels, clear \in BOOLEAN : picr_w(source, l, clear)
    \/ timer_w \/ ucsr_w \/ \E enabled \in BOOLEAN : ucr_w(enabled)
    \/ \E c \in Channels : dma_status_w(c)
    \/ \E c \in Channels, so \in BOOLEAN, ine \in BOOLEAN, l \in Levels : dma_control_w(c, so, ine, l)
    \/ Interrupt
    \/ m68k_reset_peripherals

Next == Devices \/ Guest \/ device_reset

Spec == Init /\ [][Next]_vars

-----------------------------------------------------------------------------
(* Properties. *)

\* Type invariant.
TypeOK ==
    /\ in2 \in BOOLEAN /\ in4 \in BOOLEAN
    /\ it \in SUBSET Paths /\ int1_line \in BOOLEAN
    /\ pending \in SUBSET Internal
    /\ level \in [Internal -> Levels]
    /\ dma \in [Channels -> [coc : BOOLEAN, ine : BOOLEAN, level : Levels]]
    /\ armed \in BOOLEAN /\ uart \in [clocked : BOOLEAN, enabled : BOOLEAN]
    /\ ipl \in Levels \cup {2, 4}
    /\ stale \in BOOLEAN /\ seen \in BOOLEAN

\* The CPU is given the highest level that anything asks for, neither one that
\* has ended nor less than one that has begun, unless a level register was
\* written after the last change (those writes do not work it out again).
IplIsHighest == ~stale => ipl = Highest

\* An interrupt that the CPU takes ends one request and no other: a line of its
\* level answers and every latch stays, or one latch of its level is cleared, or
\* a DMA channel of its level waits for its status to be cleared.
AcknowledgeIsExact ==
    [][ Interrupt /\ ~stale =>
          \/ External(ipl) /\ pending' = pending
          \/ ~External(ipl) /\ \E s \in At(ipl) : pending' = pending \ {s}
          \/ /\ pending' = pending
             /\ \E c \in Channels : dma[c].coc /\ dma[c].ine /\ dma[c].level = ipl ]_vars

\* No display interrupt is lost in the edge detector: while a flag of the MCD212
\* is set, INT1 is up, and its request is pending unless the guest has taken or
\* dropped it since it last read the flags - and then it has yet to read them.
DisplayInterruptIsSeen ==
    it # {} => int1_line /\ ("int1" \in pending \/ seen)
=============================================================================
