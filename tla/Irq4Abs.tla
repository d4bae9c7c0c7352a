------------------------------ MODULE Irq4Abs ------------------------------
(***************************************************************************)
(* What the board promises the 68070 about its level 4 input: a set of     *)
(* devices request the line, at most one of them owns it, and an owner     *)
(* that goes on requesting is displaced by nothing but a saved state that  *)
(* replaces the machine's.  Such a step starts an era, so that no other    *)
(* step passes for one.                                                    *)
(***************************************************************************)
CONSTANTS
    Devices,  \* the devices that share the line
    IDLE      \* the owner while nobody requests, not a device

VARIABLES
    requests, \* the devices that request the line
    owner,    \* the device whose vector an acknowledge cycle returns
    saved,    \* the requests of the state that can be restored, as a set of one
    era       \* flips when a state is restored, and at no other time

vars == <<requests, owner, saved, era>>

\* The owner a set of requests may be given when the line is free.
Grantable(reqs) == IF reqs = {} THEN {IDLE} ELSE reqs

Init ==
    /\ requests = {}
    /\ owner = IDLE
    /\ saved = {}
    /\ era = FALSE

\* One device changes its mind; an owner that still requests stays.
Change(d) ==
    /\ d \in Devices
    /\ \E on \in BOOLEAN :
          requests' = IF on THEN requests \cup {d} ELSE requests \ {d}
    /\ owner' \in IF owner \in requests' THEN {owner} ELSE Grantable(requests')
    /\ UNCHANGED <<saved, era>>

\* Power-on or reset: every device withdraws.
Reset ==
    /\ requests' = {}
    /\ owner' = IDLE
    /\ UNCHANGED <<saved, era>>

Save ==
    /\ saved' = {requests}
    /\ UNCHANGED <<requests, owner, era>>

\* The requests of a saved state come back and the owner is granted anew.
Restore ==
    /\ requests' \in saved
    /\ owner' \in Grantable(requests')
    /\ era' = ~era
    /\ UNCHANGED saved

Next == (\E d \in Devices : Change(d)) \/ Reset \/ Save \/ Restore

Spec == Init /\ [][Next]_vars
=============================================================================
