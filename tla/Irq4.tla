-------------------------------- MODULE Irq4 --------------------------------
(***************************************************************************)
(* The level 4 interrupt of the Mono-I board: the CDIC and the Digital     *)
(* Video Cartridge share IN4 of the 68070 through the flip-flop of         *)
(* cdi_state (drivers/cdi.cpp).  The CDIC calls back with its level after  *)
(* every change; the DVC calls back only on an edge of its own m_intreq,   *)
(* so a latch that loses a DVC request is never corrected.  The latches    *)
(* and the owner are not part of a save state and are rebuilt on load.     *)
(***************************************************************************)
EXTENDS Naturals

VARIABLES
    cdic_req,       \* cdicdic_device::intreq(), the level the CDIC computes
    dvc_causes,     \* the units of the DVC with an enabled status bit set
    dvc_intreq,     \* cdidvc_device::m_intreq, the level it last announced
    m_cdic_intreq,  \* the board's latch of the CDIC
    m_dvc_intreq,   \* the board's latch of the DVC
    m_irq4_owner,   \* the flip-flop: who owns the line
    in4_line,       \* m_in4_line of the 68070
    saved,          \* what a save state carries of these, or NoState
    era             \* history: flips when a state is loaded

devs == <<cdic_req, dvc_causes, dvc_intreq>>
board == <<m_cdic_intreq, m_dvc_intreq, m_irq4_owner, in4_line>>
irq_vars == <<devs, board, saved, era>>

Owners == {"IDLE", "CDIC", "DVC"}
Units == {"FMA", "FMV"}   \* the audio and the video side of the cartridge
NoState == [none |-> TRUE]

-----------------------------------------------------------------------------
(* The flip-flop. *)

\* Mutant: a silent owner keeps the flip-flop.
NewOwnerStuck(o, cdic, dvc) ==
    IF o # "IDLE" THEN o
    ELSE IF dvc THEN "DVC"
    ELSE IF cdic THEN "CDIC" ELSE "IDLE"

\* Mutant: the cartridge takes the line from a CDIC that still requests it.
NewOwnerPreempting(o, cdic, dvc) ==
    IF dvc THEN "DVC" ELSE IF cdic THEN "CDIC" ELSE "IDLE"

\* The owner after update_irq4(): a silent owner is dropped, then a free line
\* goes to the CDIC, and over it to the cartridge.
NewOwner(o, cdic, dvc) ==
    IF (o = "CDIC" /\ cdic) \/ (o = "DVC" /\ dvc) THEN o
    ELSE IF dvc THEN "DVC"
    ELSE IF cdic THEN "CDIC" ELSE "IDLE"

\* update_irq4() run with owner o and the given latches; drives in4_w().
update_irq4(o, cdic, dvc) ==
    LET own == NewOwner(o, cdic, dvc) IN
    /\ m_cdic_intreq' = cdic
    /\ m_dvc_intreq' = dvc
    /\ m_irq4_owner' = own
    /\ in4_line' = ((own = "CDIC" /\ cdic) \/ (own = "DVC" /\ dvc))

cdic_intreq_w(state) == update_irq4(m_irq4_owner, state, m_dvc_intreq)

dvc_intreq_w(state) == update_irq4(m_irq4_owner, m_cdic_intreq, state)

\* Mutant: the callback is dropped while the other device owns the line.
dvc_update_interrupts_if_free(causes) ==
    LET state == causes # {} IN
    /\ dvc_causes' = causes
    /\ dvc_intreq' = state
    /\ IF state # dvc_intreq /\ m_irq4_owner # "CDIC" THEN dvc_intreq_w(state)
       ELSE UNCHANGED board

\* update_interrupts() of the DVC: the callback is made on an edge only.
dvc_update_interrupts(causes) ==
    LET state == causes # {} IN
    /\ dvc_causes' = causes
    /\ dvc_intreq' = state
    /\ IF state # dvc_intreq THEN dvc_intreq_w(state) ELSE UNCHANGED board

\* intack_r() of the DVC: the audio vector wins when both units assert.
dvc_intack == IF "FMA" \in dvc_causes THEN "FMA" ELSE "FMV"

\* Whose vector an acknowledge cycle returns, iack4_r().
iack4_r == IF m_irq4_owner = "DVC" THEN dvc_intack ELSE "CDIC"

-----------------------------------------------------------------------------
(* The devices. *)

\* Any CDIC handler that ends in update_interrupt_state().
CdicUpdate ==
    \E level \in BOOLEAN :
        /\ cdic_req' = level
        /\ cdic_intreq_w(level)
    /\ UNCHANGED <<dvc_causes, dvc_intreq, saved, era>>

\* Stream bytes fed by a DMA command raise a status bit and leave the line
\* to the next decoder clock.
DvcFeed ==
    /\ \E u \in Units : dvc_causes' = dvc_causes \cup {u}
    /\ UNCHANGED <<cdic_req, dvc_intreq, board, saved, era>>

\* dclk_tick(): status bits may be added, then the line is brought up to date.
DvcTick ==
    /\ \E raised \in SUBSET Units :
          dvc_update_interrupts(dvc_causes \cup raised)
    /\ UNCHANGED <<cdic_req, saved, era>>

\* The driver reads the ISR of a unit, which clears it, or writes its IER,
\* which masks its causes or admits one that was already latched.
DvcRegister ==
    /\ \E u \in Units :
          \/ dvc_update_interrupts(dvc_causes \ {u})
          \/ dvc_update_interrupts(dvc_causes \cup {u})
    /\ UNCHANGED <<cdic_req, saved, era>>

\* A machine reset: both devices clear their causes and call back low.
Reset ==
    /\ cdic_req' = FALSE
    /\ dvc_causes' = {}
    /\ dvc_intreq' = FALSE
    /\ update_irq4(m_irq4_owner, FALSE, FALSE)
    /\ UNCHANGED <<saved, era>>

-----------------------------------------------------------------------------
(* Save states. *)

\* Mutant: the latches are not rebuilt.
LoadWithoutRebuild ==
    /\ saved # NoState
    /\ cdic_req' = saved.cdic_req
    /\ dvc_causes' = saved.dvc_causes
    /\ dvc_intreq' = saved.dvc_intreq
    /\ era' = ~era
    /\ UNCHANGED <<board, saved>>

Save ==
    /\ saved' = [cdic_req |-> cdic_req, dvc_causes |-> dvc_causes,
                 dvc_intreq |-> dvc_intreq]
    /\ UNCHANGED <<devs, board, era>>

\* The devices are restored first; then cdi_state::device_post_load() rebuilds
\* its latches from them and lets the flip-flop start from idle.
Load ==
    /\ saved # NoState
    /\ cdic_req' = saved.cdic_req
    /\ dvc_causes' = saved.dvc_causes
    /\ dvc_intreq' = saved.dvc_intreq
    /\ update_irq4("IDLE", saved.cdic_req, saved.dvc_intreq)
    /\ era' = ~era
    /\ UNCHANGED saved

-----------------------------------------------------------------------------
IrqInit ==
    /\ cdic_req = FALSE
    /\ dvc_causes = {}
    /\ dvc_intreq = FALSE
    /\ m_cdic_intreq = FALSE
    /\ m_dvc_intreq = FALSE
    /\ m_irq4_owner = "IDLE"
    /\ in4_line = FALSE
    /\ saved = NoState
    /\ era = FALSE

IrqNext ==
    \/ CdicUpdate
    \/ DvcFeed
    \/ DvcTick
    \/ DvcRegister
    \/ Reset
    \/ Save
    \/ Load

\* The decoder clock is a periodic timer (45 kHz) that nothing ever stops.
Fairness == WF_irq_vars(DvcTick)

IrqSpec == IrqInit /\ [][IrqNext]_irq_vars
FairSpec == IrqSpec /\ Fairness

-----------------------------------------------------------------------------
(* Properties. *)

SavedStates ==
    [cdic_req : BOOLEAN, dvc_causes : SUBSET Units, dvc_intreq : BOOLEAN]

\* Type invariant of the latches, the devices behind them and the save state.
IrqTypeOK ==
    /\ cdic_req \in BOOLEAN
    /\ dvc_causes \in SUBSET Units
    /\ dvc_intreq \in BOOLEAN
    /\ m_cdic_intreq \in BOOLEAN
    /\ m_dvc_intreq \in BOOLEAN
    /\ m_irq4_owner \in Owners
    /\ in4_line \in BOOLEAN
    /\ saved \in SavedStates \cup {NoState}
    /\ era \in BOOLEAN

\* IN4 is up exactly while the CDIC or the DVC itself requests it, whatever
\* sequence of edges, ties, resets and loaded states led here: neither driver
\* is left waiting behind a line that stays low, nor called for nothing.
LineFollowsDevices == in4_line <=> (cdic_req \/ dvc_intreq)

\* While the line is up, the vector iack4_r() returns is that of a device, and
\* within the cartridge of a unit, that has a cause pending: the CPU never
\* enters a handler that finds nothing to do and leaves the line up.
VectorIsFromARequester ==
    in4_line => IF iack4_r = "CDIC" THEN cdic_req ELSE iack4_r \in dvc_causes

\* The device keeps the flip-flop until it stops requesting: nothing but its
\* own release, or a loaded state, takes the line from an owner.
OwnerKeepsLine ==
    [][ ~Load /\ m_irq4_owner # "IDLE" /\ m_irq4_owner' # m_irq4_owner
          => IF m_irq4_owner = "CDIC" THEN ~cdic_req' ELSE ~dvc_intreq' ]_irq_vars

\* The cartridge wins every tie and may then hold the line over several causes
\* of its own, yet a CDIC request is not starved: provided the cartridge lets
\* go now and then, the request is withdrawn or becomes the owner, however
\* quickly the cartridge asks again.
CdicIsServed ==
    []<>(~dvc_intreq) => (cdic_req ~> (~cdic_req \/ m_irq4_owner = "CDIC"))

\* A status bit raised behind the board's back (during a DMA feed) still
\* reaches the CPU, or is cleared by its driver.
DvcCauseIsSeen == (dvc_causes # {}) ~> (dvc_causes = {} \/ in4_line)

\* The devices among which the flip-flop chooses, for the given levels.
Requesters(cdic, dvc) == (IF cdic THEN {"CDIC"} ELSE {}) \cup (IF dvc THEN {"DVC"} ELSE {})
Requests == Requesters(cdic_req, dvc_intreq)
SavedRequests ==
    IF saved = NoState THEN {} ELSE {Requesters(saved.cdic_req, saved.dvc_intreq)}

Abs == INSTANCE Irq4Abs WITH
    Devices <- {"CDIC", "DVC"}, IDLE <- "IDLE",
    requests <- Requests, owner <- m_irq4_owner, saved <- SavedRequests

\* The flip-flop, its latches and their reconstruction implement exclusive
\* ownership: the line belongs to one requester, from any set of requests that
\* the two devices or a loaded state bring about, and outside a load it never
\* passes from a device that still requests it.
ImplementsOwnership == Abs!Spec
=============================================================================
