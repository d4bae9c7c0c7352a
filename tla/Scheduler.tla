----------------------------- MODULE Scheduler -----------------------------
(***************************************************************************)
(* The device scheduler (src/src/emu/schedule.cpp) driving one CPU, one    *)
(* input line of that CPU (device_input, src/src/emu/diexec.cpp), the      *)
(* timers of the devices, and save and load between two time slices.       *)
(*                                                                         *)
(* Time is counted in ticks; one CPU cycle is Cycle ticks.  The list of    *)
(* timers always ends in never-expiring ones: Sentinel is there from the   *)
(* constructor.  A device's timer is permanent; a line event allocates an  *)
(* anonymous one, which a state does not hold.                             *)
(***************************************************************************)
EXTENDS Naturals, Sequences, SequencesExt, FiniteSets

CONSTANTS
    Devs,           \* the permanent timers of devices
    Screen,         \* the permanent timer of the screen, always armed
    Frame,          \* its period
    Temps,          \* anonymous timers that may be allocated at once
    Sentinel,       \* the timer that never expires
    NoTimer,        \* no callback is running
    Delays,         \* start delays of adjust()
    Periods,        \* periods of adjust(), which in this driver are never zero
    Cycle,          \* ticks of a CPU cycle
    Lengths,        \* cycles an instruction may take
    Quantum,        \* ticks of a scheduling quantum
    QueueSize,      \* events an input line queues
    MaxTime         \* bound: timeslice() is not called at or after this time

Perms == Devs \cup {Screen}

ASSUME SchedulerAssumption ==
    /\ Perms \cap Temps = {} /\ Sentinel \notin Perms \cup Temps
    /\ NoTimer \notin Perms \cup Temps \cup {Sentinel}
    /\ IsFiniteSet(Devs) /\ Screen \notin Devs
    /\ Delays \subseteq Nat /\ Periods \subseteq Nat \ {0}
    /\ Lengths \subseteq Nat \ {0} /\ Lengths # {} /\ IsFiniteSet(Lengths)
    /\ Cycle \in Nat \ {0} /\ Quantum \in Nat \ {0} /\ QueueSize \in Nat \ {0}
    /\ Frame \in Nat \ {0} /\ MaxTime \in Nat

VARIABLES
    m_timer_list,   \* the live timers, first the next to expire
    m_enabled, m_expire, m_period,   \* of every timer
    m_basetime,     \* no device is further behind
    m_localtime,    \* where the CPU stopped
    phase,          \* where timeslice() is; "idle" between two slices
    target, now, stop,   \* of the running CPU: the end of its slice, its local
                         \* time and the time at which it gives way
    m_callback_timer, m_callback_timer_modified, m_callback_timer_expire_time,
    m_queue,        \* events of the input line that were not applied
    m_curstate,     \* the state the CPU sees on the line
    m_ipl,          \* the state its owner last gave it
    requests,       \* the state the registers of its owner ask for
    saved,          \* what a state holds, or NoState
    dropped         \* history: a save or a load lost an anonymous timer

timers == <<m_timer_list, m_enabled, m_expire, m_period>>
cpu == <<m_localtime, target, now, stop>>
callback == <<m_callback_timer, m_callback_timer_modified, m_callback_timer_expire_time>>
line == <<m_queue, m_curstate, m_ipl, requests>>
vars == <<timers, m_basetime, cpu, phase, callback, line, saved, dropped>>

Timers == Perms \cup Temps \cup {Sentinel}
m_temporary(t) == t \notin Perms
Never == 1000 * (MaxTime + Frame)       \* later than any time of a run
is_never(x) == x >= Never
Plus(x, d) == IF is_never(x) \/ is_never(d) \/ is_never(x + d) THEN Never ELSE x + d
States == {"ASSERT", "CLEAR"}
NoState == [none |-> TRUE]

(***************************************************************************)
(* The list.                                                               *)
(***************************************************************************)
\* Without t.
timer_list_remove(list, t) ==
    IF t \in ToSet(list) THEN RemoveAt(list, CHOOSE i \in DOMAIN list : list[i] = t)
    ELSE list

\* t goes before the first entry that expires later.  A disabled timer counts
\* as never expiring, but a disabled entry is compared by the time it had.
timer_list_insert(list, t, enabled, expire) ==
    LET key == IF enabled[t] THEN expire[t] ELSE Never
        Later == {i \in DOMAIN list : expire[list[i]] > key}
    IN  IF Later = {} THEN Append(list, t)
        ELSE InsertAt(list, CHOOSE i \in Later : \A j \in Later : i <= j, t)

m_timer_first == Head(m_timer_list)

\* device_scheduler::time().
time ==
    CASE m_callback_timer # NoTimer -> m_callback_timer_expire_time
      [] m_callback_timer = NoTimer /\ phase = "run" -> now
      [] OTHER -> m_basetime

\* abort_timeslice() of the CPU: the instruction it executes is its last.
abort_timeslice == stop' = IF phase = "run" THEN now ELSE stop

\* Mutant: the CPU goes on to the end of its slice.
adjust_no_abort(t, delay, period) ==
    /\ m_callback_timer_modified' = (m_callback_timer_modified \/ m_callback_timer = t)
    /\ m_enabled' = [m_enabled EXCEPT ![t] = TRUE]
    /\ m_expire' = [m_expire EXCEPT ![t] = Plus(time, delay)]
    /\ m_period' = [m_period EXCEPT ![t] = period]
    /\ m_timer_list' = timer_list_insert(timer_list_remove(m_timer_list, t), t, m_enabled', m_expire')
    /\ UNCHANGED <<stop, m_callback_timer, m_callback_timer_expire_time>>

\* emu_timer::adjust(), also of a timer just allocated.
adjust(t, delay, period) ==
    /\ m_callback_timer_modified' = (m_callback_timer_modified \/ m_callback_timer = t)
    /\ m_enabled' = [m_enabled EXCEPT ![t] = TRUE]
    /\ m_expire' = [m_expire EXCEPT ![t] = Plus(time, delay)]
    /\ m_period' = [m_period EXCEPT ![t] = period]
    /\ m_timer_list' = timer_list_insert(timer_list_remove(m_timer_list, t), t, m_enabled', m_expire')
    /\ IF t = Head(m_timer_list') THEN abort_timeslice ELSE stop' = stop
    /\ UNCHANGED <<m_callback_timer, m_callback_timer_expire_time>>

(***************************************************************************)
(* The input line.                                                         *)
(***************************************************************************)
FreeTemps == Temps \ ToSet(m_timer_list)

AppliedFirst(queue, state) == IF queue = <<>> THEN state ELSE Head(queue)   \* mutant

\* empty_event_queue(): every event is applied in turn.
Applied(queue, state) == IF queue = <<>> THEN state ELSE Last(queue)

\* set_state_synced(): the first event of a queue synchronizes; a full queue is
\* applied on the spot.
set_state_synced(state) ==
    LET full == Len(m_queue) >= QueueSize
        queue == IF full THEN <<>> ELSE m_queue
    IN  /\ m_ipl' = state
        /\ m_curstate' = IF full THEN Applied(m_queue, m_curstate) ELSE m_curstate
        /\ m_queue' = Append(queue, state)
        /\ IF queue = <<>>
             THEN /\ FreeTemps # {}
                  /\ adjust(CHOOSE t \in FreeTemps : TRUE, 0, Never)
             ELSE UNCHANGED <<timers, callback, stop>>

\* update_ipl() of the 68070, after its registers came to ask for "state".
update_ipl(state) ==
    IF m_ipl # state THEN set_state_synced(state)
    ELSE UNCHANGED <<timers, callback, stop, m_queue, m_curstate, m_ipl>>

\* What a device does to the scheduler from a callback or a register access.
\* A write of LIR or PICR1 changes the level without an update_ipl().
DeviceWork ==
    \/ /\ \E t \in Devs, d \in Delays \cup {Never}, p \in Periods \cup {Never} :
              adjust(t, d, p)
       /\ UNCHANGED line
    \/ \E state \in States : update_ipl(state) /\ requests' = state
    \/ /\ \E state \in States : requests' = state
       /\ UNCHANGED <<timers, callback, stop, m_queue, m_curstate, m_ipl>>

(***************************************************************************)
(* timeslice()                                                             *)
(***************************************************************************)
\* One round of the loop: the CPU has until the next timer or the end of the
\* quantum, in whole cycles from where it stopped.
StartSlice ==
    /\ phase \in {"idle", "slice"}
    /\ phase = "idle" => m_basetime < MaxTime
    /\ m_basetime < m_expire[m_timer_first]
    /\ LET next == m_expire[m_timer_first]
           end == IF next < m_basetime + Quantum THEN next ELSE m_basetime + Quantum
       IN  IF end >= m_localtime + Cycle
           THEN /\ phase' = "run"
                /\ target' = end
                /\ now' = m_localtime
                /\ stop' = m_localtime + Cycle * ((end - m_localtime) \div Cycle)
                /\ UNCHANGED <<m_basetime, m_localtime>>
           ELSE /\ phase' = "slice"
                /\ m_basetime' = end
                /\ UNCHANGED cpu
    /\ UNCHANGED <<timers, callback, line, saved, dropped>>

\* A register access of the instruction that started at "now".
Access ==
    /\ phase = "run"
    /\ DeviceWork
    /\ UNCHANGED <<m_basetime, m_localtime, target, now, phase, saved, dropped>>

\* The CPU gives way, and the base time moves to what it reached.
EndRun(reached) ==
    /\ phase' = "slice"
    /\ m_localtime' = reached
    /\ m_basetime' = IF reached >= target THEN target
                     ELSE IF reached > m_basetime THEN reached ELSE m_basetime
    /\ target' = 0 /\ now' = 0 /\ stop' = 0

\* The instruction ends, with or without an access.
Instruction ==
    /\ phase = "run"
    /\ \E n \in Lengths :
         LET reached == now + n * Cycle
         IN  IF reached < stop
             THEN now' = reached /\ UNCHANGED <<phase, m_localtime, m_basetime, target, stop>>
             ELSE EndRun(reached)
    /\ UNCHANGED <<timers, callback, line, saved, dropped>>

\* The loop ends when the first timer is due.
SliceEnds ==
    /\ phase \in {"idle", "slice"}
    /\ m_basetime >= m_expire[m_timer_first]
    /\ phase' = "timers"
    /\ UNCHANGED <<timers, m_basetime, cpu, callback, line, saved, dropped>>

(***************************************************************************)
(* execute_timers()                                                        *)
(***************************************************************************)
OneShot(t) == m_period[t] = 0 \/ is_never(m_period[t])

\* The callback of the first timer starts, unless the timer was disabled; a
\* one-shot is disabled before.
ExpireTimer ==
    /\ phase = "timers"
    /\ m_expire[m_timer_first] <= m_basetime
    /\ phase' = IF m_enabled[m_timer_first] THEN "callback" ELSE "called"
    /\ m_enabled' = [m_enabled EXCEPT ![m_timer_first] = @ /\ ~OneShot(m_timer_first)]
    /\ m_callback_timer' = m_timer_first
    /\ m_callback_timer_modified' = FALSE
    /\ m_callback_timer_expire_time' = m_expire[m_timer_first]
    /\ UNCHANGED <<m_timer_list, m_expire, m_period, m_basetime, cpu, line, saved, dropped>>

\* The callback of a device's timer works; that of a line event applies all
\* events of the line.
DeviceTimer ==
    /\ phase = "callback" /\ m_callback_timer \in Perms
    /\ \/ m_callback_timer \in Devs /\ DeviceWork /\ phase' = phase
       \/ phase' = "called" /\ UNCHANGED <<timers, callback, stop, line>>
    /\ UNCHANGED <<m_basetime, m_localtime, target, now, saved, dropped>>

empty_event_queue ==
    /\ phase = "callback" /\ m_callback_timer \in Temps
    /\ phase' = "called"
    /\ m_curstate' = Applied(m_queue, m_curstate)
    /\ m_queue' = <<>>
    /\ UNCHANGED <<timers, m_basetime, cpu, callback, m_ipl, requests, saved, dropped>>

\* The callback returned: a timer it did not touch is removed when anonymous,
\* and otherwise put back one period later.
Reschedule ==
    /\ phase = "called"
    /\ phase' = "timers"
    /\ LET t == m_callback_timer
           rest == timer_list_remove(m_timer_list, t)
       IN  CASE m_callback_timer_modified -> UNCHANGED timers
             [] ~m_callback_timer_modified /\ m_temporary(t) ->
                    /\ m_timer_list' = rest
                    /\ m_expire' = [m_expire EXCEPT ![t] = Never]   \* no state when free
                    /\ UNCHANGED <<m_enabled, m_period>>
             [] OTHER ->
                    /\ m_expire' = [m_expire EXCEPT ![t] = Plus(@, m_period[t])]
                    /\ m_timer_list' = timer_list_insert(rest, t, m_enabled, m_expire')
                    /\ UNCHANGED <<m_enabled, m_period>>
    /\ UNCHANGED <<m_basetime, cpu, callback, line, saved, dropped>>

TimersDone ==
    /\ phase = "timers"
    /\ m_expire[m_timer_first] > m_basetime
    /\ phase' = "idle"
    /\ m_callback_timer' = NoTimer
    /\ UNCHANGED <<timers, m_basetime, cpu, m_callback_timer_modified,
                   m_callback_timer_expire_time, line, saved, dropped>>

(***************************************************************************)
(* The frontend, between two slices.                                       *)
(***************************************************************************)
\* can_save(): no anonymous timer is outstanding.
can_save == \A t \in ToSet(m_timer_list) : m_temporary(t) => is_never(m_expire[t])

\* retro_serialize().  Of a timer a state holds all but its place in the list.
retro_serialize ==
    /\ phase = "idle"
    /\ saved' = [m_enabled |-> [t \in Perms |-> m_enabled[t]],
                 m_expire |-> [t \in Perms |-> m_expire[t]],
                 m_period |-> [t \in Perms |-> m_period[t]],
                 m_basetime |-> m_basetime, m_localtime |-> m_localtime,
                 m_curstate |-> m_curstate, m_ipl |-> m_ipl, requests |-> requests]
    /\ dropped' = (dropped \/ ~can_save)
    /\ UNCHANGED <<timers, m_basetime, cpu, phase, callback, line>>

\* device_scheduler::postload(): anonymous timers go, the others are inserted
\* again in the order they had.
Goes(t) == m_temporary(t) /\ ~is_never(m_expire[t])

\* Mutant: the order is that of the session in which the state is loaded.
postload_unsorted(enabled, expire) == SelectSeq(m_timer_list, LAMBDA t : ~Goes(t))

postload(enabled, expire) ==
    LET inserted[n \in 0 .. Len(m_timer_list)] ==
            IF n = 0 THEN <<>>
            ELSE IF Goes(m_timer_list[n]) THEN inserted[n - 1]
            ELSE timer_list_insert(inserted[n - 1], m_timer_list[n], enabled, expire)
    IN  inserted[Len(m_timer_list)]

\* What do_read() puts back into the timers; an anonymous one is freed.
Restored(held, other) == [t \in Timers |-> IF t \in Perms THEN held[t] ELSE other]

\* retro_unserialize(): the scheduler's postload, then that of the board, which
\* gives IN4 its level and has the 68070 look at its requests again.  The queue
\* of the line is not part of a state.
retro_unserialize ==
    /\ phase = "idle" /\ saved # NoState
    /\ m_basetime' = saved.m_basetime
    /\ m_localtime' = saved.m_localtime
    /\ m_ipl' = saved.requests /\ requests' = saved.requests
    /\ dropped' = (dropped \/ ~can_save)
    /\ LET enabled == [Restored(saved.m_enabled, FALSE) EXCEPT ![Sentinel] = TRUE]
           expire == Restored(saved.m_expire, Never)
           list == postload(enabled, expire)
           event == saved.m_ipl # saved.requests
           full == event /\ Len(m_queue) >= QueueSize
           queue == IF full THEN <<>> ELSE m_queue
           free == Temps \ ToSet(list)
           temp == CHOOSE t \in free : TRUE
       IN  /\ m_curstate' = IF full THEN Applied(m_queue, saved.m_curstate) ELSE saved.m_curstate
           /\ m_queue' = IF event THEN Append(queue, saved.requests) ELSE m_queue
           /\ m_period' = Restored(saved.m_period, Never)
           /\ IF event /\ queue = <<>>
                THEN /\ free # {}
                     /\ m_enabled' = [enabled EXCEPT ![temp] = TRUE]
                     /\ m_expire' = [expire EXCEPT ![temp] = m_basetime']
                     /\ m_timer_list' = timer_list_insert(list, temp, m_enabled', m_expire')
                ELSE /\ m_enabled' = enabled /\ m_expire' = expire /\ m_timer_list' = list
    /\ UNCHANGED <<target, now, stop, phase, callback, saved>>

-----------------------------------------------------------------------------
Init ==
    /\ \E order \in SetToSeqs(Devs) : m_timer_list = <<Screen, Sentinel>> \o order
    /\ m_enabled = [t \in Timers |-> t \in {Screen, Sentinel}]
    /\ m_expire = [t \in Timers |-> IF t = Screen THEN Frame ELSE Never]
    /\ m_period = [t \in Timers |-> IF t = Screen THEN Frame ELSE Never]
    /\ m_basetime = 0 /\ m_localtime = 0
    /\ phase = "idle"
    /\ target = 0 /\ now = 0 /\ stop = 0
    /\ m_callback_timer = NoTimer /\ m_callback_timer_modified = FALSE
    /\ m_callback_timer_expire_time = 0
    /\ m_queue = <<>> /\ m_curstate = "CLEAR" /\ m_ipl = "CLEAR" /\ requests = "CLEAR"
    /\ saved = NoState /\ dropped = FALSE

Next ==
    \/ StartSlice \/ Access \/ Instruction \/ SliceEnds
    \/ ExpireTimer \/ DeviceTimer \/ empty_event_queue \/ Reschedule \/ TimersDone
    \/ retro_serialize \/ retro_unserialize

Spec == Init /\ [][Next]_vars

-----------------------------------------------------------------------------
(* Properties. *)

\* No enabled timer hides behind a later one, whatever was adjusted, disabled,
\* rescheduled, or restored into a list of another session: the head is enough
\* to know when the CPU must stop (timer_list_insert() compares with the time
\* a disabled entry had).
HeadIsEarliest ==
    \A t \in ToSet(m_timer_list) :
        m_enabled[t] => m_expire[m_timer_first] <= m_expire[t]

\* A callback runs at most one instruction after its time: a timer the CPU sets
\* ahead of all others ends its slice, and the base time never passes a timer.
LongestInstruction == CHOOSE n \in Lengths : \A k \in Lengths : k <= n

CallbackOnTime ==
    phase \in {"callback", "called"} =>
        m_basetime <= m_callback_timer_expire_time + LongestInstruction * Cycle

\* Events that wait on a line fit its queue and have a timer that will apply
\* them, and with none waiting the CPU sees what the owner gave the line last.
\* (Unless a load lost that timer: retro_unserialize() does not ask can_save().)
LineIsServed ==
    /\ Len(m_queue) <= QueueSize
    /\ ~dropped =>
           IF m_queue = <<>> THEN m_curstate = m_ipl
           ELSE \/ phase = "callback" /\ m_callback_timer \in Temps
                \/ \E t \in ToSet(m_timer_list) \cap Temps :
                       m_enabled[t] /\ ~is_never(m_expire[t])
=============================================================================
