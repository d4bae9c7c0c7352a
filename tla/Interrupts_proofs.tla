-------------------------- MODULE Interrupts_proofs --------------------------
(***************************************************************************)
(* Proofs about the interrupts of the board.  Irq4: the level 4 line       *)
(* follows the CDIC and the cartridge, the vector is that of a requester,  *)
(* owners keep the line, and the flip-flop implements exclusive ownership. *)
(* Scc68070: the level given to the CPU and what an acknowledge ends, for  *)
(* any levels and any number of channels.                                  *)
(***************************************************************************)
EXTENDS Irq4, Scc68070, TLAPS

(* The level 4 line. *)

\* The latches mirror the devices and the owner is one of the requesters.
BoardInv ==
    /\ m_cdic_intreq = cdic_req
    /\ m_dvc_intreq = dvc_intreq
    /\ m_irq4_owner = "CDIC" => cdic_req
    /\ m_irq4_owner = "DVC" => dvc_intreq
    /\ m_irq4_owner = "IDLE" => ~cdic_req /\ ~dvc_intreq
    /\ in4_line = (m_irq4_owner # "IDLE")

\* An announced request of the DVC has a cause, now and in the save state.
CauseInv ==
    /\ dvc_intreq => dvc_causes # {}
    /\ saved # NoState => (saved.dvc_intreq => saved.dvc_causes # {})

IrqInv == IrqTypeOK /\ BoardInv /\ CauseInv

\* A step of the flip-flop over latches that mirror the devices leaves the
\* board consistent with them, whatever the owner was.
LEMMA FlipFlop ==
    ASSUME NEW o \in Owners, NEW c \in BOOLEAN, NEW d \in BOOLEAN,
           cdic_req' = c, dvc_intreq' = d, update_irq4(o, c, d)
    PROVE  /\ BoardInv'
           /\ m_cdic_intreq' \in BOOLEAN /\ m_dvc_intreq' \in BOOLEAN
           /\ m_irq4_owner' \in Owners /\ in4_line' \in BOOLEAN
  BY DEF update_irq4, NewOwner, Owners, BoardInv

\* update_interrupts() of the cartridge keeps the board consistent, callback
\* or not, and announces a request exactly when there is a cause.
LEMMA DvcUpdate ==
    ASSUME IrqInv, NEW S \in SUBSET Units,
           dvc_update_interrupts(S), UNCHANGED <<cdic_req, saved, era>>
    PROVE  IrqInv'
  <1>1. dvc_causes' = S /\ dvc_intreq' = (S # {})
    BY DEF dvc_update_interrupts
  <1>2. CASE (S # {}) # dvc_intreq
    <2>1. update_irq4(m_irq4_owner, m_cdic_intreq, S # {})
      BY <1>2 DEF dvc_update_interrupts, dvc_intreq_w
    <2>2. m_cdic_intreq = cdic_req'
      BY DEF IrqInv, BoardInv
    <2>3. BoardInv' /\ m_cdic_intreq' \in BOOLEAN /\ m_dvc_intreq' \in BOOLEAN
          /\ m_irq4_owner' \in Owners /\ in4_line' \in BOOLEAN
      BY <1>1, <2>1, <2>2, FlipFlop DEF IrqInv, IrqTypeOK
    <2>4. QED
      BY <1>1, <2>3 DEF IrqInv, IrqTypeOK, CauseInv, NoState
  <1>3. CASE (S # {}) = dvc_intreq
    <2>1. UNCHANGED board
      BY <1>3 DEF dvc_update_interrupts
    <2>2. QED
      BY <1>1, <1>3, <2>1 DEF IrqInv, IrqTypeOK, BoardInv, CauseInv, board
  <1>4. QED
    BY <1>2, <1>3

LEMMA InitIrqInv == IrqInit => IrqInv
  BY DEF IrqInit, IrqInv, IrqTypeOK, BoardInv, CauseInv, Owners, NoState

LEMMA NextIrqInv == IrqInv /\ [IrqNext]_irq_vars => IrqInv'
  <1> SUFFICES ASSUME IrqInv, [IrqNext]_irq_vars PROVE IrqInv'
    OBVIOUS
  <1>1. CASE CdicUpdate
    <2>1. PICK asked \in BOOLEAN : cdic_req' = asked /\ cdic_intreq_w(asked)
      BY <1>1 DEF CdicUpdate
    <2>2. UNCHANGED <<dvc_causes, dvc_intreq, saved, era>>
      BY <1>1 DEF CdicUpdate
    <2>3. update_irq4(m_irq4_owner, asked, dvc_intreq)
      BY <2>1 DEF cdic_intreq_w, IrqInv, BoardInv
    <2>4. BoardInv' /\ m_cdic_intreq' \in BOOLEAN /\ m_dvc_intreq' \in BOOLEAN
          /\ m_irq4_owner' \in Owners /\ in4_line' \in BOOLEAN
      BY <2>1, <2>2, <2>3, FlipFlop DEF IrqInv, IrqTypeOK
    <2>5. QED
      BY <2>1, <2>2, <2>4 DEF IrqInv, IrqTypeOK, CauseInv
  <1>2. CASE DvcFeed
    <2>1. UNCHANGED <<cdic_req, dvc_intreq, board, saved, era>>
          /\ dvc_causes' \in SUBSET Units /\ dvc_causes \subseteq dvc_causes'
      BY <1>2 DEF DvcFeed, IrqInv, IrqTypeOK
    <2>2. QED
      BY <2>1 DEF IrqInv, IrqTypeOK, BoardInv, CauseInv, board
  <1>3. CASE DvcTick
    <2>1. PICK raised \in SUBSET Units :
             dvc_update_interrupts(dvc_causes \cup raised)
      BY <1>3 DEF DvcTick
    <2>2. dvc_causes \cup raised \in SUBSET Units
      BY DEF IrqInv, IrqTypeOK
    <2>3. QED
      BY <1>3, <2>1, <2>2, DvcUpdate DEF DvcTick
  <1>4. CASE DvcRegister
    <2>1. PICK u \in Units : \/ dvc_update_interrupts(dvc_causes \ {u})
                             \/ dvc_update_interrupts(dvc_causes \cup {u})
      BY <1>4 DEF DvcRegister
    <2>2. dvc_causes \ {u} \in SUBSET Units /\ dvc_causes \cup {u} \in SUBSET Units
      BY DEF IrqInv, IrqTypeOK
    <2>3. QED
      BY <1>4, <2>1, <2>2, DvcUpdate DEF DvcRegister
  <1>5. CASE Reset
    <2>1. cdic_req' = FALSE /\ dvc_intreq' = FALSE /\ dvc_causes' = {}
          /\ UNCHANGED <<saved, era>> /\ update_irq4(m_irq4_owner, FALSE, FALSE)
      BY <1>5 DEF Reset
    <2>2. BoardInv' /\ m_cdic_intreq' \in BOOLEAN /\ m_dvc_intreq' \in BOOLEAN
          /\ m_irq4_owner' \in Owners /\ in4_line' \in BOOLEAN
      BY <2>1, FlipFlop DEF IrqInv, IrqTypeOK
    <2>3. QED
      BY <2>1, <2>2 DEF IrqInv, IrqTypeOK, CauseInv
  <1>6. CASE Save
    BY <1>6 DEF Save, devs, board, IrqInv, IrqTypeOK, BoardInv, CauseInv, SavedStates
  <1>7. CASE Load
    <2>1. saved \in SavedStates /\ saved' = saved /\ era' \in BOOLEAN
      BY <1>7 DEF Load, IrqInv, IrqTypeOK
    <2>2. cdic_req' = saved.cdic_req /\ dvc_intreq' = saved.dvc_intreq
          /\ dvc_causes' = saved.dvc_causes
          /\ update_irq4("IDLE", saved.cdic_req, saved.dvc_intreq)
      BY <1>7 DEF Load
    <2>3. BoardInv' /\ m_cdic_intreq' \in BOOLEAN /\ m_dvc_intreq' \in BOOLEAN
          /\ m_irq4_owner' \in Owners /\ in4_line' \in BOOLEAN
      BY <2>1, <2>2, FlipFlop DEF SavedStates, Owners
    <2>4. QED
      BY <1>7, <2>1, <2>2, <2>3 DEF IrqInv, IrqTypeOK, CauseInv, SavedStates, Load
  <1>8. CASE UNCHANGED irq_vars
    BY <1>8 DEF irq_vars, devs, board, IrqInv, IrqTypeOK, BoardInv, CauseInv
  <1>9. QED
    BY <1>1, <1>2, <1>3, <1>4, <1>5, <1>6, <1>7, <1>8 DEF IrqNext

\* Every reachable state satisfies the strengthened invariant.
THEOREM IrqInductive == IrqSpec => []IrqInv
  BY InitIrqInv, NextIrqInv, PTL DEF IrqSpec

\* The latches, devices and save state keep their types.
THEOREM IrqTypeCorrect == IrqSpec => []IrqTypeOK
  <1>1. IrqInv => IrqTypeOK
    BY DEF IrqInv
  <1>2. QED
    BY <1>1, IrqInductive, PTL

\* IN4 is up exactly while the CDIC or the DVC requests it.
THEOREM LineCorrect == IrqSpec => []LineFollowsDevices
  <1>1. IrqInv => LineFollowsDevices
    BY DEF IrqInv, IrqTypeOK, BoardInv, LineFollowsDevices, Owners
  <1>2. QED
    BY <1>1, IrqInductive, PTL

\* An acknowledge while the line is up returns the vector of a pending cause.
THEOREM VectorCorrect == IrqSpec => []VectorIsFromARequester
  <1>1. IrqInv => VectorIsFromARequester
    BY DEF IrqInv, IrqTypeOK, BoardInv, CauseInv, VectorIsFromARequester, Owners,
           iack4_r, dvc_intack, Units
  <1>2. QED
    BY <1>1, IrqInductive, PTL
-----------------------------------------------------------------------------
(* Steps of the owner and the refinement. *)

\* The board after any step that runs the flip-flop from its own owner.
LEMMA OwnerAfter ==
    ASSUME IrqInv, [IrqNext]_irq_vars, ~Load
    PROVE  m_irq4_owner' = NewOwner(m_irq4_owner, cdic_req', dvc_intreq')
  <1>1. IrqInv'
    BY NextIrqInv
  <1>2. CASE \E c, d \in BOOLEAN : update_irq4(m_irq4_owner, c, d)
    <2>1. PICK c \in BOOLEAN, d \in BOOLEAN : update_irq4(m_irq4_owner, c, d)
      BY <1>2
    <2>2. m_cdic_intreq' = c /\ m_dvc_intreq' = d
          /\ m_irq4_owner' = NewOwner(m_irq4_owner, c, d)
      BY <2>1 DEF update_irq4
    <2>3. QED
      BY <1>1, <2>2 DEF IrqInv, BoardInv
  <1>3. CASE UNCHANGED <<cdic_req, dvc_intreq, board>>
    BY <1>3 DEF NewOwner, board, IrqInv, BoardInv, IrqTypeOK, Owners
  <1>4. ASSUME NEW S, dvc_update_interrupts(S), UNCHANGED cdic_req
        PROVE  \/ UNCHANGED <<cdic_req, dvc_intreq, board>>
               \/ \E c, d \in BOOLEAN : update_irq4(m_irq4_owner, c, d)
    BY <1>4 DEF dvc_update_interrupts, dvc_intreq_w, IrqInv, IrqTypeOK
  <1>5. CASE CdicUpdate
    BY <1>2, <1>5 DEF CdicUpdate, cdic_intreq_w, IrqInv, IrqTypeOK
  <1>6. CASE DvcFeed
    BY <1>3, <1>6 DEF DvcFeed
  <1>7. CASE DvcTick
    BY <1>2, <1>3, <1>4, <1>7 DEF DvcTick
  <1>8. CASE DvcRegister
    BY <1>2, <1>3, <1>4, <1>8 DEF DvcRegister
  <1>9. CASE Reset
    BY <1>2, <1>9 DEF Reset
  <1>10. CASE Save \/ UNCHANGED irq_vars
    BY <1>3, <1>10 DEF Save, irq_vars, devs
  <1>11. QED
    BY <1>5, <1>6, <1>7, <1>8, <1>9, <1>10 DEF IrqNext

\* Only its own release, or a loaded state, takes the line from an owner.
THEOREM OwnerStays == IrqSpec => OwnerKeepsLine
  <1>1. ASSUME IrqInv, [IrqNext]_irq_vars, ~Load
        PROVE  m_irq4_owner # "IDLE" /\ m_irq4_owner' # m_irq4_owner
                 => IF m_irq4_owner = "CDIC" THEN ~cdic_req' ELSE ~dvc_intreq'
    <2>1. m_irq4_owner \in Owners
      BY <1>1 DEF IrqInv, IrqTypeOK
    <2>2. QED
      BY <1>1, <2>1, OwnerAfter DEF NewOwner, Owners
  <1>2. IrqInv /\ [IrqNext]_irq_vars =>
          [~Load /\ m_irq4_owner # "IDLE" /\ m_irq4_owner' # m_irq4_owner
            => IF m_irq4_owner = "CDIC" THEN ~cdic_req' ELSE ~dvc_intreq']_irq_vars
    BY <1>1
  <1>3. QED
    BY <1>2, IrqInductive, PTL DEF IrqSpec, OwnerKeepsLine

\* What a step other than a restored state or a reset leaves alone.
LEMMA OneDeviceChanges ==
    ASSUME IrqInv, [IrqNext]_irq_vars, ~Load, ~Reset, ~Save
    PROVE  /\ cdic_req' = cdic_req \/ dvc_intreq' = dvc_intreq
           /\ UNCHANGED <<saved, era>>
  <1>1. CASE CdicUpdate
    BY <1>1 DEF CdicUpdate
  <1>2. CASE DvcFeed \/ DvcTick \/ DvcRegister
    BY <1>2 DEF DvcFeed, DvcTick, DvcRegister
  <1>3. CASE UNCHANGED irq_vars
    BY <1>3 DEF irq_vars, devs
  <1>4. QED
    BY <1>1, <1>2, <1>3 DEF IrqNext

\* A step inside an era: one device changes its mind, and the owner stays if it
\* still requests the line.
LEMMA ChangeStep ==
    ASSUME IrqInv, IrqInv', [IrqNext]_irq_vars, ~Load, ~Reset, ~Save
    PROVE  Abs!Next
  <1>1. /\ cdic_req \in BOOLEAN /\ dvc_intreq \in BOOLEAN
        /\ cdic_req' \in BOOLEAN /\ dvc_intreq' \in BOOLEAN
        /\ m_irq4_owner \in Owners /\ m_irq4_owner' \in Owners
    BY DEF IrqInv, IrqTypeOK
  <1>2. m_irq4_owner' = NewOwner(m_irq4_owner, cdic_req', dvc_intreq')
    BY OwnerAfter
  <1>3. m_irq4_owner' \in IF m_irq4_owner \in Requests' THEN {m_irq4_owner}
                          ELSE Abs!Grantable(Requests')
    BY <1>1, <1>2 DEF NewOwner, Abs!Grantable, Requests, Requesters, Owners
  <1>4. /\ cdic_req' = cdic_req \/ dvc_intreq' = dvc_intreq
        /\ SavedRequests' = SavedRequests /\ era' = era
    BY OneDeviceChanges DEF SavedRequests
  <1>5. CASE cdic_req' = cdic_req
    <2>1. Requests' = IF dvc_intreq' THEN Requests \cup {"DVC"}
                      ELSE Requests \ {"DVC"}
      BY <1>1, <1>5 DEF Requests, Requesters
    <2>2. Abs!Change("DVC")
      BY <1>1, <1>3, <1>4, <2>1 DEF Abs!Change
    <2>3. QED
      BY <2>2 DEF Abs!Next
  <1>6. CASE dvc_intreq' = dvc_intreq
    <2>1. Requests' = IF cdic_req' THEN Requests \cup {"CDIC"}
                      ELSE Requests \ {"CDIC"}
      BY <1>1, <1>6 DEF Requests, Requesters
    <2>2. Abs!Change("CDIC")
      BY <1>1, <1>3, <1>4, <2>1 DEF Abs!Change
    <2>3. QED
      BY <2>2 DEF Abs!Next
  <1>7. QED
    BY <1>4, <1>5, <1>6

\* A loaded state starts an era with the requests that it was saved with, and
\* with an owner among them, whoever owned the line before.
LEMMA RestoreStep ==
    ASSUME IrqInv, IrqInv', Load
    PROVE  Abs!Restore
  <1>1. /\ saved # NoState /\ UNCHANGED saved /\ era' = ~era
        /\ cdic_req' = saved.cdic_req /\ dvc_intreq' = saved.dvc_intreq
    BY DEF Load
  <1>2. Requests' \in SavedRequests /\ SavedRequests' = SavedRequests
    BY <1>1 DEF Requests, SavedRequests
  <1>3. m_irq4_owner' \in Abs!Grantable(Requests')
    BY DEF Abs!Grantable, Requests, Requesters, IrqInv, IrqTypeOK, BoardInv, Owners
  <1>4. QED
    BY <1>1, <1>2, <1>3 DEF Abs!Restore

LEMMA SaveStep ==
    ASSUME IrqInv, Save
    PROVE  Abs!Save
  <1>1. /\ saved' = [cdic_req |-> cdic_req, dvc_causes |-> dvc_causes,
                     dvc_intreq |-> dvc_intreq]
        /\ UNCHANGED <<cdic_req, dvc_intreq, m_irq4_owner, era>>
    BY DEF Save, devs, board
  <1>2. saved' # NoState
    <2>1. saved' \in SavedStates
      BY <1>1 DEF SavedStates, IrqInv, IrqTypeOK
    <2>2. NoState \notin SavedStates
      BY DEF NoState, SavedStates
    <2>3. QED
      BY <2>1, <2>2
  <1>3. SavedRequests' = {Requests}
    BY <1>1, <1>2 DEF SavedRequests, Requests
  <1>4. QED
    BY <1>1, <1>3 DEF Abs!Save, Requests

LEMMA ResetStep ==
    ASSUME IrqInv', Reset
    PROVE  Abs!Reset
  <1>1. cdic_req' = FALSE /\ dvc_intreq' = FALSE /\ UNCHANGED <<saved, era>>
    BY DEF Reset
  <1>2. Requests' = {} /\ SavedRequests' = SavedRequests
    BY <1>1 DEF Requests, Requesters, SavedRequests
  <1>3. m_irq4_owner' = "IDLE"
    BY <1>1 DEF IrqInv, IrqTypeOK, BoardInv, Owners
  <1>4. QED
    BY <1>1, <1>2, <1>3 DEF Abs!Reset

\* The flip-flop, its latches, resets and loaded states implement exclusive
\* ownership of the line: no step but a load takes it from a device that still
\* requests it, and what a load brings about are the requests of the state.
THEOREM Refinement == IrqSpec => ImplementsOwnership
  <1>1. IrqInit => Abs!Init
    BY DEF IrqInit, Abs!Init, Requests, Requesters, SavedRequests
  <1>2. IrqInv /\ [IrqNext]_irq_vars => [Abs!Next]_(Abs!vars)
    <2> SUFFICES ASSUME IrqInv, [IrqNext]_irq_vars PROVE Abs!Next
      OBVIOUS
    <2>1. IrqInv'
      BY NextIrqInv
    <2>2. CASE Load
      BY <2>1, <2>2, RestoreStep DEF Abs!Next
    <2>3. CASE Reset
      BY <2>1, <2>3, ResetStep DEF Abs!Next
    <2>4. CASE Save
      BY <2>4, SaveStep DEF Abs!Next
    <2>5. CASE ~Load /\ ~Reset /\ ~Save
      BY <2>1, <2>5, ChangeStep
    <2>6. QED
      BY <2>2, <2>3, <2>4, <2>5
  <1>3. QED
    BY <1>1, <1>2, IrqInductive, PTL DEF IrqSpec, ImplementsOwnership, Abs!Spec

-----------------------------------------------------------------------------
(* The interrupts of the SCC68070. *)

\* What the requests of TypeOK say, apart from the level of the CPU.
RequestsOK ==
    /\ in2 \in BOOLEAN /\ in4 \in BOOLEAN
    /\ pending \in SUBSET Internal
    /\ level \in [Internal -> Levels]
    /\ dma \in [Channels -> [coc : BOOLEAN, ine : BOOLEAN, level : Levels]]

\* A set of levels with one at least has a highest.
LEMMA HighestExists ==
    ASSUME NEW S, S \subseteq 0..7, 0 \in S
    PROVE  \E l \in S : \A k \in S : k <= l
<1>1. CASE 7 \in S  BY <1>1
<1>2. CASE 7 \notin S /\ 6 \in S  BY <1>2
<1>3. CASE 7 \notin S /\ 6 \notin S /\ 5 \in S  BY <1>3
<1>4. CASE 7 \notin S /\ 6 \notin S /\ 5 \notin S /\ 4 \in S  BY <1>4
<1>5. CASE 7 \notin S /\ 6 \notin S /\ 5 \notin S /\ 4 \notin S /\ 3 \in S  BY <1>5
<1>6. CASE 7 \notin S /\ 6 \notin S /\ 5 \notin S /\ 4 \notin S /\ 3 \notin S /\ 2 \in S  BY <1>6
<1>7. CASE 7 \notin S /\ 6 \notin S /\ 5 \notin S /\ 4 \notin S /\ 3 \notin S /\ 2 \notin S
      BY <1>7
<1>8. QED  BY <1>1, <1>2, <1>3, <1>4, <1>5, <1>6, <1>7

\* The highest request is one of the requests, and they are levels.
HighestOK ==
    /\ Highest \in Requested
    /\ \A k \in Requested : k <= Highest
    /\ Requested \subseteq Levels \cup {2, 4}

LEMMA HighestIsRequested == RequestsOK => HighestOK
<1> SUFFICES ASSUME RequestsOK PROVE HighestOK
    OBVIOUS
<1>1. {level[s] : s \in pending} \subseteq Levels
      BY DEF RequestsOK
<1>2. {dma[c].level : c \in {k \in Channels : dma[k].coc /\ dma[k].ine}} \subseteq Levels
      BY DEF RequestsOK
<1>3. Requested \subseteq Levels \cup {2, 4}
      BY <1>1, <1>2, SccConstants DEF Requested
<1>4. Requested \subseteq 0..7
      BY <1>3, SccConstants
<1>5. 0 \in Requested
      BY DEF Requested
<1>6. \E l \in Requested : \A k \in Requested : k <= l
      BY <1>4, <1>5, HighestExists
<1>7. QED  BY <1>3, <1>6 DEF Highest, HighestOK

\* The same after a step.
LEMMA HighestIsRequestedNext == RequestsOK' => HighestOK'
BY HighestIsRequested, PTL

-----------------------------------------------------------------------------
(* How an action leaves the level of the CPU. *)

\* It is worked out anew, may be stale, or nothing it depends on has changed.
Settled == update_ipl \/ (stale' = TRUE /\ ipl' = ipl) \/ UNCHANGED <<lines, requests, priority>>

LEMMA Int1Settled ==
    ASSUME NEW state \in BOOLEAN, int1_w(state), UNCHANGED <<lines, level, dma>>
    PROVE  Settled
<1>1. CASE pending' = pending /\ UNCHANGED priority
      BY <1>1 DEF Settled, requests
<1>2. update_ipl \/ (pending' = pending /\ UNCHANGED priority)
      BY DEF int1_w, priority
<1>3. QED  BY <1>1, <1>2 DEF Settled

LEMMA NextSettled == [Next]_vars => Settled
<1> SUFFICES ASSUME [Next]_vars PROVE Settled
    OBVIOUS
<1>1. ASSUME NEW state \in BOOLEAN, in2_w(state) \/ in4_w(state)  PROVE Settled
      BY <1>1 DEF in2_w, in4_w, Settled
<1>2. ASSUME NEW Path \in Paths, process_ica(Path)  PROVE Settled
  <2>1. int1_w(TRUE) /\ UNCHANGED <<lines, level, dma>>
        BY <1>2 DEF process_ica
  <2>2. QED  BY <2>1, Int1Settled
<1>3. CASE csr2_r
  <2>1. CASE it # {}
    <3>1. int1_w(FALSE) /\ UNCHANGED <<lines, level, dma>>
          BY <1>3, <2>1 DEF csr2_r
    <3>2. QED  BY <3>1, Int1Settled
  <2>2. CASE it = {}
        BY <1>3, <2>2 DEF csr2_r, Settled, requests
  <2>3. QED  BY <2>1, <2>2
<1>4. CASE timer0_callback \/ tx_callback
      BY <1>4 DEF timer0_callback, tx_callback, Settled, requests
<1>5. ASSUME NEW latched, NEW l1, NEW l2, lir_w(latched, l1, l2)  PROVE Settled
      BY <1>5 DEF lir_w, Settled
<1>6. ASSUME NEW source, NEW l, NEW clear, picr_w(source, l, clear)  PROVE Settled
      BY <1>6 DEF picr_w, Settled
<1>7. CASE timer_w \/ ucsr_w \/ \E enabled \in BOOLEAN : ucr_w(enabled)
      BY <1>7 DEF timer_w, ucsr_w, ucr_w, Settled
<1>8. ASSUME NEW c \in Channels, dma_status_w(c)  PROVE Settled
      BY <1>8 DEF dma_status_w, Settled
<1>9. ASSUME NEW c \in Channels, NEW so, NEW ine, NEW l, dma_control_w(c, so, ine, l)
      PROVE  Settled
      BY <1>9 DEF dma_control_w, Settled
<1>10. CASE Interrupt
       BY <1>10 DEF Interrupt, iack_r, Settled, requests
<1>11. CASE m68k_reset_peripherals \/ device_reset
       BY <1>11 DEF m68k_reset_peripherals, device_reset, Settled
<1>12. CASE UNCHANGED vars
       BY <1>12 DEF vars, Settled
<1>13. QED
       BY <1>1, <1>2, <1>3, <1>4, <1>5, <1>6, <1>7, <1>8, <1>9, <1>10, <1>11, <1>12
       DEF Next, Devices, Guest
-----------------------------------------------------------------------------
(* Types. *)

LEMMA TypesOfRequests == TypeOK => RequestsOK
BY DEF TypeOK, RequestsOK

\* The level of the CPU is one of the levels, whichever way an action leaves it.
LEMMA PriorityTypes ==
    ASSUME TypeOK, RequestsOK', [Next]_vars
    PROVE  ipl' \in Levels \cup {2, 4} /\ stale' \in BOOLEAN
<1>1. CASE update_ipl
  <2>1. Highest' \in Levels \cup {2, 4}
        BY HighestIsRequestedNext DEF HighestOK
  <2>2. QED  BY <1>1, <2>1 DEF update_ipl
<1>2. CASE stale' = TRUE /\ ipl' = ipl
      BY <1>2 DEF TypeOK
<1>3. CASE UNCHANGED <<lines, requests, priority>>
      BY <1>3 DEF TypeOK, priority
<1>4. QED  BY <1>1, <1>2, <1>3, NextSettled DEF Settled

LEMMA PendingTypes ==
    ASSUME TypeOK, NEW state \in BOOLEAN, int1_w(state)
    PROVE  pending' \in SUBSET Internal /\ int1_line' \in BOOLEAN
BY DEF TypeOK, int1_w, Internal, Latches

LEMMA DmaTypes ==
    ASSUME TypeOK, NEW c \in Channels, NEW r \in [coc : BOOLEAN, ine : BOOLEAN, level : Levels],
           dma' = [dma EXCEPT ![c] = r]
    PROVE  dma' \in [Channels -> [coc : BOOLEAN, ine : BOOLEAN, level : Levels]]
BY DEF TypeOK

\* TypeOK without the CPU's level and the histories of it.
DeviceTypes ==
    /\ RequestsOK
    /\ it \in SUBSET Paths /\ int1_line \in BOOLEAN
    /\ armed \in BOOLEAN /\ uart \in [clocked : BOOLEAN, enabled : BOOLEAN]
    /\ seen \in BOOLEAN

LEMMA DeviceStep == TypeOK /\ [Next]_vars => DeviceTypes'
<1> SUFFICES ASSUME TypeOK, [Next]_vars PROVE DeviceTypes'
    OBVIOUS
<1> USE DEF DeviceTypes, RequestsOK
<1>1. ASSUME NEW state \in BOOLEAN, in2_w(state) \/ in4_w(state)  PROVE DeviceTypes'
      BY <1>1 DEF in2_w, in4_w, TypeOK, display, requests, clocks
<1>2. ASSUME NEW Path \in Paths, process_ica(Path)  PROVE DeviceTypes'
  <2>1. pending' \in SUBSET Internal /\ int1_line' \in BOOLEAN
        BY <1>2, PendingTypes DEF process_ica
  <2>2. QED  BY <1>2, <2>1 DEF process_ica, TypeOK, lines, clocks
<1>3. CASE csr2_r
  <2>1. pending' \in SUBSET Internal /\ int1_line' \in BOOLEAN
        BY <1>3, PendingTypes DEF csr2_r, TypeOK
  <2>2. QED  BY <1>3, <2>1 DEF csr2_r, TypeOK, lines, clocks
<1>4. CASE timer0_callback \/ tx_callback
  <2>1. pending' \in SUBSET Internal
        BY <1>4 DEF timer0_callback, tx_callback, TypeOK, Internal
  <2>2. QED  BY <1>4, <2>1 DEF timer0_callback, tx_callback, TypeOK, lines, display, clocks
<1>5. ASSUME NEW latched \in SUBSET Latches, NEW l1 \in Levels, NEW l2 \in Levels,
             lir_w(latched, l1, l2)
      PROVE  DeviceTypes'
  <2>1. pending' \in SUBSET Internal
        BY <1>5 DEF lir_w, TypeOK, Internal
  <2>2. level' \in [Internal -> Levels]
        BY <1>5 DEF lir_w, TypeOK
  <2>3. seen' \in BOOLEAN
        BY <1>5, Zenon DEF lir_w, TypeOK
  <2>4. QED  BY <1>5, <2>1, <2>2, <2>3 DEF lir_w, TypeOK, lines, clocks
<1>6. ASSUME NEW source \in {"timer", "tx"}, NEW l \in Levels, NEW clear \in BOOLEAN,
             picr_w(source, l, clear)
      PROVE  DeviceTypes'
  <2>1. pending' \in SUBSET Internal
        BY <1>6 DEF picr_w, TypeOK
  <2>2. level' \in [Internal -> Levels]
        BY <1>6 DEF picr_w, TypeOK
  <2>3. QED  BY <1>6, <2>1, <2>2 DEF picr_w, TypeOK, lines, display, clocks
<1>7. CASE timer_w
      BY <1>7 DEF timer_w, TypeOK, lines, display, requests
<1>8. CASE ucsr_w
  <2>1. uart' \in [clocked : BOOLEAN, enabled : BOOLEAN]
        BY <1>8 DEF ucsr_w, TypeOK
  <2>2. QED  BY <1>8, <2>1 DEF ucsr_w, TypeOK, lines, display, requests
<1>9. ASSUME NEW enabled \in BOOLEAN, ucr_w(enabled)  PROVE DeviceTypes'
  <2>1. uart' \in [clocked : BOOLEAN, enabled : BOOLEAN]
        BY <1>9 DEF ucr_w, TypeOK
  <2>2. QED  BY <1>9, <2>1 DEF ucr_w, TypeOK, lines, display, requests
<1>10. ASSUME NEW c \in Channels, dma_status_w(c)  PROVE DeviceTypes'
  <2>1. dma' = [dma EXCEPT ![c] = [dma[c] EXCEPT !.coc = FALSE]]
        BY <1>10 DEF dma_status_w
  <2>2. [dma[c] EXCEPT !.coc = FALSE] \in [coc : BOOLEAN, ine : BOOLEAN, level : Levels]
        BY DEF TypeOK
  <2>3. dma' \in [Channels -> [coc : BOOLEAN, ine : BOOLEAN, level : Levels]]
        BY <2>1, <2>2, DmaTypes
  <2>4. QED  BY <1>10, <2>3 DEF dma_status_w, TypeOK, lines, display, clocks
<1>11. ASSUME NEW c \in Channels, NEW so \in BOOLEAN, NEW ine \in BOOLEAN, NEW l \in Levels,
              dma_control_w(c, so, ine, l)
       PROVE  DeviceTypes'
  <2> DEFINE r == [coc |-> dma[c].coc \/ so, ine |-> ine, level |-> l]
  <2>1. dma' = [dma EXCEPT ![c] = r]
        BY <1>11 DEF dma_control_w
  <2>2. dma[c].coc \/ so \in BOOLEAN
        BY Zenon
  <2>3. r \in [coc : BOOLEAN, ine : BOOLEAN, level : Levels]
        BY <2>2
  <2>4. dma' \in [Channels -> [coc : BOOLEAN, ine : BOOLEAN, level : Levels]]
        BY <2>1, <2>3, DmaTypes
  <2>5. QED  BY <1>11, <2>4 DEF dma_control_w, TypeOK, lines, display, clocks
<1>12. CASE Interrupt
  <2>1. pending' \in SUBSET Internal
        BY <1>12 DEF Interrupt, iack_r, TypeOK
  <2>2. seen' \in BOOLEAN
        BY <1>12, Zenon DEF Interrupt, iack_r, TypeOK
  <2>3. QED  BY <1>12, <2>1, <2>2 DEF Interrupt, iack_r, TypeOK, lines, clocks
<1>13. CASE m68k_reset_peripherals
      BY <1>13, SccConstants DEF m68k_reset_peripherals, TypeOK, lines, NoLevels
<1>14. CASE device_reset
      BY <1>14, SccConstants DEF device_reset, TypeOK, lines, NoLevels
<1>15. CASE UNCHANGED vars
      BY <1>15 DEF vars, TypeOK, lines, display, requests, clocks
<1>16. QED
       BY <1>1, <1>2, <1>3, <1>4, <1>5, <1>6, <1>7, <1>8, <1>9, <1>10, <1>11, <1>12, <1>13,
          <1>14, <1>15
       DEF Next, Devices, Guest

\* Every latch, level and line keeps its type, and the CPU only ever sees a level
\* that some device has.
THEOREM SccTypeCorrect == Spec => []TypeOK
<1>1. Init => TypeOK
  <2> SUFFICES ASSUME Init PROVE TypeOK
      OBVIOUS
  <2>1. level \in [Internal -> Levels]
        BY SccConstants DEF Init, NoLevels
  <2>2. dma \in [Channels -> [coc : BOOLEAN, ine : BOOLEAN, level : Levels]]
        BY SccConstants DEF Init
  <2>3. ipl \in Levels \cup {2, 4}
        BY SccConstants DEF Init
  <2>4. QED  BY <2>1, <2>2, <2>3 DEF Init, TypeOK
<1>2. TypeOK /\ [Next]_vars => TypeOK'
  <2> SUFFICES ASSUME TypeOK, [Next]_vars PROVE TypeOK'
      OBVIOUS
  <2>1. DeviceTypes'
        BY DeviceStep
  <2>2. ipl' \in Levels \cup {2, 4} /\ stale' \in BOOLEAN
        BY <2>1, PriorityTypes DEF DeviceTypes
  <2>3. QED  BY <2>1, <2>2 DEF DeviceTypes, RequestsOK, TypeOK
<1>3. QED  BY <1>1, <1>2, PTL DEF Spec

-----------------------------------------------------------------------------
(* The level of the CPU. *)

LEMMA HighestKept == UNCHANGED <<lines, requests>> => Highest' = Highest
<1> SUFFICES ASSUME UNCHANGED <<lines, requests>> PROVE Highest' = Highest
    OBVIOUS
<1>1. in2' = in2 /\ in4' = in4 /\ pending' = pending /\ level' = level /\ dma' = dma
      BY DEF lines, requests
<1>2. Requested' = Requested
      BY <1>1, Zenon DEF Requested
<1>3. QED  BY <1>2, Zenon DEF Highest

\* Whatever raises, ends, moves or acknowledges requests, in whichever order, the
\* CPU sees the highest of them unless the last change was of a level register.
THEOREM IplCorrect == Spec => []IplIsHighest
<1>1. Init => IplIsHighest
  <2> SUFFICES ASSUME Init PROVE IplIsHighest
      OBVIOUS
  <2>1. Requested = {0}
        BY DEF Init, Requested
  <2>2. QED  BY <2>1 DEF Init, IplIsHighest, Highest
<1>2. IplIsHighest /\ [Next]_vars => IplIsHighest'
  <2> SUFFICES ASSUME IplIsHighest, [Next]_vars PROVE IplIsHighest'
      OBVIOUS
  <2>1. CASE update_ipl
        BY <2>1 DEF update_ipl, IplIsHighest
  <2>2. CASE stale' = TRUE
        BY <2>2 DEF IplIsHighest
  <2>3. CASE UNCHANGED <<lines, requests, priority>>
        BY <2>3, HighestKept DEF IplIsHighest, priority
  <2>4. QED  BY <2>1, <2>2, <2>3, NextSettled DEF Settled
<1>3. QED  BY <1>1, <1>2, PTL DEF Spec

\* An acknowledge at a level that is not stale ends exactly one request.
THEOREM AcknowledgeCorrect == Spec => AcknowledgeIsExact
<1> DEFINE Exact == Interrupt /\ ~stale =>
              \/ External(ipl) /\ pending' = pending
              \/ ~External(ipl) /\ \E s \in At(ipl) : pending' = pending \ {s}
              \/ /\ pending' = pending
                 /\ \E c \in Channels : dma[c].coc /\ dma[c].ine /\ dma[c].level = ipl
<1>1. TypeOK /\ IplIsHighest /\ [Next]_vars => [Exact]_vars
  <2> SUFFICES ASSUME TypeOK, IplIsHighest, Interrupt, ~stale PROVE Exact
      OBVIOUS
  <2>1. CASE External(ipl)
        BY <2>1 DEF Interrupt, iack_r
  <2>2. CASE ~External(ipl) /\ At(ipl) # {}
        BY <2>2 DEF Interrupt, iack_r
  <2>3. CASE ~External(ipl) /\ At(ipl) = {}
    <3>1. ipl \in Requested /\ ipl # 0
          BY TypesOfRequests, HighestIsRequested DEF IplIsHighest, HighestOK, Interrupt
    <3>2. ~ \E s \in pending : level[s] = ipl
          BY <2>3 DEF At
    <3>3. \E c \in Channels : dma[c].coc /\ dma[c].ine /\ dma[c].level = ipl
          BY <3>1, <3>2, <2>3 DEF Requested, External
    <3>4. QED  BY <2>3, <3>3 DEF Interrupt, iack_r
  <2>4. QED  BY <2>1, <2>2, <2>3
<1>2. QED  BY <1>1, SccTypeCorrect, IplCorrect, PTL DEF Spec, AcknowledgeIsExact

-----------------------------------------------------------------------------
(* The display interrupt. *)

\* INT1 is up only for a flag.
LineHasFlag == int1_line => it # {}

LEMMA DisplayStep ==
    TypeOK /\ LineHasFlag /\ DisplayInterruptIsSeen /\ [Next]_vars
    => LineHasFlag' /\ DisplayInterruptIsSeen'
<1> SUFFICES ASSUME TypeOK, LineHasFlag, DisplayInterruptIsSeen, [Next]_vars
             PROVE  LineHasFlag' /\ DisplayInterruptIsSeen'
    OBVIOUS
<1> USE DEF LineHasFlag, DisplayInterruptIsSeen
<1>1. ASSUME NEW state \in BOOLEAN, in2_w(state) \/ in4_w(state)
      PROVE  LineHasFlag' /\ DisplayInterruptIsSeen'
      BY <1>1 DEF in2_w, in4_w, display, requests
<1>2. ASSUME NEW Path \in Paths, process_ica(Path)
      PROVE  LineHasFlag' /\ DisplayInterruptIsSeen'
      BY <1>2 DEF process_ica, int1_w, TypeOK
<1>3. CASE csr2_r
      BY <1>3 DEF csr2_r, int1_w, TypeOK
<1>4. CASE timer0_callback \/ tx_callback
      BY <1>4 DEF timer0_callback, tx_callback, display
<1>5. ASSUME NEW latched, NEW l1, NEW l2, lir_w(latched, l1, l2)
      PROVE  LineHasFlag' /\ DisplayInterruptIsSeen'
      BY <1>5 DEF lir_w
<1>6. ASSUME NEW source \in {"timer", "tx"}, NEW l, NEW clear, picr_w(source, l, clear)
      PROVE  LineHasFlag' /\ DisplayInterruptIsSeen'
      BY <1>6 DEF picr_w, display
<1>7. CASE timer_w \/ ucsr_w \/ \E enabled \in BOOLEAN : ucr_w(enabled)
      BY <1>7 DEF timer_w, ucsr_w, ucr_w, display, requests
<1>8. ASSUME NEW c \in Channels,
             dma_status_w(c) \/ \E so, ine \in BOOLEAN, l \in Levels : dma_control_w(c, so, ine, l)
      PROVE  LineHasFlag' /\ DisplayInterruptIsSeen'
      BY <1>8 DEF dma_status_w, dma_control_w, display
<1>9. CASE Interrupt
      BY <1>9 DEF Interrupt, iack_r
<1>10. CASE m68k_reset_peripherals \/ device_reset
       BY <1>10 DEF m68k_reset_peripherals, device_reset
<1>11. CASE UNCHANGED vars
       BY <1>11 DEF vars, display, requests
<1>12. QED
       BY <1>1, <1>2, <1>3, <1>4, <1>5, <1>6, <1>7, <1>8, <1>9, <1>10, <1>11
       DEF Next, Devices, Guest

\* The edge detector loses no display interrupt, however the raising of flags, the
\* reading of the status register and the acknowledge are interleaved.
THEOREM DisplayCorrect == Spec => []DisplayInterruptIsSeen
<1>1. Init => LineHasFlag /\ DisplayInterruptIsSeen
      BY DEF Init, LineHasFlag, DisplayInterruptIsSeen
<1>2. QED  BY <1>1, DisplayStep, SccTypeCorrect, PTL DEF Spec
=============================================================================
