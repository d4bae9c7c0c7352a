----------------------------- MODULE InputState -----------------------------
(***************************************************************************)
(* The pointing device from the ports of the emulator core (emu/ioport.cpp)*)
(* to the SLAVE (machine/cdislavehle.cpp), with the save states of the     *)
(* libretro interface, which carry the two in different parts: the SLAVE   *)
(* in the core layout, the ports in a trailer that older builds lack.      *)
(* Port values are modulo PortRange.                                       *)
(***************************************************************************)
EXTENDS Integers

CONSTANTS
    PortRange,      \* values of a port (0x10000)
    Width, Height,  \* the last coordinates of the guest's screen (767, 559)
    Reach,          \* the last coordinate the guest can give (1023)
    MaxDelta        \* the most a host moves its mouse along an axis in a frame

ASSUME InputConstants ==
    /\ PortRange \in Nat /\ PortRange > 2
    /\ Reach \in Nat /\ Width \in 1..Reach /\ Height \in 1..Reach
    /\ MaxDelta \in Nat /\ MaxDelta < PortRange \div 2

VARIABLES
    port,    \* the accumulated positions, and the button
    oldval,  \* the button that last brought about a callback (dynamic_field)
    mouse,   \* the SLAVE: base (m_input_mouse_x and _y), device (m_device_mouse_x
             \* and _y) and the button state it was last told
    saved,   \* a save state, {} before the first
    legacy,  \* history: the ports are not those of the SLAVE's past
    fresh    \* history: the SLAVE has seen no port since its reset

ports == <<port, oldval>>
past == <<legacy, fresh>>
input_vars == <<ports, mouse, saved, past>>

\* 0xffff marks a SLAVE that has seen no update.  It is also a position.
Unset == PortRange - 1
PortPositions == 0 .. PortRange - 1

\* What a host moves its mouse by in a frame.
Moves == [x : -MaxDelta..MaxDelta, y : -MaxDelta..MaxDelta]

\* A displacement is taken modulo the port's range and as a signed number.
Signed(n) == LET m == n % PortRange IN IF m < PortRange \div 2 THEN m ELSE m - PortRange

Clamp(n, last) == IF n < 0 THEN 0 ELSE IF n > last THEN last ELSE n

-----------------------------------------------------------------------------
(* Frames. *)

\* The pointer after a displacement.
Displaced(device, dx, dy) ==
    [x |-> Clamp(device.x + dx, Width), y |-> Clamp(device.y + dy, Height)]

\* mouse_update() with the ports at x and y and the button b: without a baseline
\* in either axis there is no displacement in any.
pointer_update(m, x, y, b) ==
    [base |-> [x |-> x, y |-> y],
     device |-> IF m.base.x # Unset /\ m.base.y # Unset
                THEN Displaced(m.device, Signed(x - m.base.x), Signed(y - m.base.y))
                ELSE Displaced(m.device, 0, 0),
     told |-> b]

Accumulated(position, delta) == (position + delta) % PortRange

\* frame_update() of the ports, one after the other and in the order of their
\* names: MOUSEBTN, MOUSEX, MOUSEY.  A port that differs from what it was when it
\* last called brings about a callback, which reads those behind it as they were.
frame_update(delta, button) ==
    LET x == Accumulated(port.x, delta.x)
        y == Accumulated(port.y, delta.y)
        pressed == IF button # oldval THEN pointer_update(mouse, port.x, port.y, button)
                   ELSE mouse
        across == IF x # port.x THEN pointer_update(pressed, x, port.y, button) ELSE pressed
        called == button # oldval \/ x # port.x \/ y # port.y
    IN /\ port' = [x |-> x, y |-> y, button |-> button]
       /\ oldval' = button
       /\ mouse' = IF y # port.y THEN pointer_update(across, x, y, button) ELSE across
       /\ legacy' = (legacy /\ ~called) /\ fresh' = (fresh /\ ~called)
       /\ UNCHANGED saved

\* The guest puts its pointer somewhere, also beyond the screen.
set_mouse_position ==
    /\ \E place \in [x : 0..Reach, y : 0..Reach] : mouse' = [mouse EXCEPT !.device = place]
    /\ UNCHANGED <<ports, saved, past>>

pointer_reset ==
    /\ mouse' = [base |-> [x |-> Unset, y |-> Unset], device |-> [x |-> 0, y |-> 0],
                 told |-> mouse.told]
    /\ fresh' = TRUE
    /\ UNCHANGED <<ports, saved, legacy>>

-----------------------------------------------------------------------------
(* Save states. *)

\* Mutant: the history of the buttons is not in the state.
retro_serialize_bare ==
    /\ saved' = {[port |-> port, oldval |-> FALSE, mouse |-> mouse, legacy |-> legacy]}
    /\ UNCHANGED <<ports, mouse, past>>

retro_serialize ==
    /\ saved' = {[port |-> port, oldval |-> oldval, mouse |-> mouse, legacy |-> legacy]}
    /\ UNCHANGED <<ports, mouse, past>>

\* ioport_manager::read_state()
read_state(s) == port' = s.port /\ oldval' = s.oldval

\* Mutant: the baseline that is in the state stays.
device_post_load_absent(s, p) == mouse' = s.mouse

\* device_post_load() of the SLAVE: its baseline is where the ports are now.
device_post_load(s, p) == mouse' = [s.mouse EXCEPT !.base = [x |-> p.x, y |-> p.y]]

\* A state with trailers: the ports are restored before the core layout, whose
\* post-load reads them.
LoadWithInput(s) ==
    /\ read_state(s)
    /\ device_post_load(s, port')
    /\ legacy' = s.legacy /\ fresh' = FALSE

\* A state of an older build has the core layout alone.
LoadCore(s) ==
    /\ UNCHANGED ports
    /\ device_post_load(s, port)
    /\ legacy' = TRUE /\ fresh' = FALSE

\* The header of the core layout is refused when the ports are restored already;
\* they get back the values they had.
RefuseCore(s) ==
    LET previous_input == [port |-> port, oldval |-> oldval] IN
    /\ read_state(previous_input)
    /\ UNCHANGED <<mouse, past>>

retro_unserialize ==
    /\ \E s \in saved : LoadWithInput(s) \/ LoadCore(s) \/ RefuseCore(s)
    /\ UNCHANGED saved

-----------------------------------------------------------------------------
InputInit ==
    /\ port = [x |-> 0, y |-> 0, button |-> FALSE] /\ oldval = FALSE
    /\ mouse = [base |-> [x |-> Unset, y |-> Unset], device |-> [x |-> 0, y |-> 0],
                told |-> FALSE]
    /\ saved = {} /\ legacy = FALSE /\ fresh = TRUE

InputNext ==
    \/ \E delta \in Moves, button \in BOOLEAN : frame_update(delta, button)
    \/ set_mouse_position \/ pointer_reset \/ retro_serialize \/ retro_unserialize

InputSpec == InputInit /\ [][InputNext]_input_vars

-----------------------------------------------------------------------------
(* Properties. *)

Port == [x : PortPositions, y : PortPositions, button : BOOLEAN]
Mouse ==
    [base : [x : PortPositions, y : PortPositions], device : [x : 0..Reach, y : 0..Reach],
     told : BOOLEAN]

\* Type invariant.
InputTypeOK ==
    /\ port \in Port /\ oldval \in BOOLEAN
    /\ mouse \in Mouse
    /\ saved \in SUBSET [port : Port, oldval : BOOLEAN, mouse : Mouse, legacy : BOOLEAN]
    /\ legacy \in BOOLEAN /\ fresh \in BOOLEAN

\* A callback of the frame finds a port at 0xffff, which it takes for no baseline:
\* where the frame begins, or before the second axis calls.
MeetsUnset(delta) ==
    \/ port.x = Unset \/ port.y = Unset
    \/ delta.y # 0 /\ Accumulated(port.x, delta.x) = Unset

OnScreen == mouse.device.x \in 0..Width /\ mouse.device.y \in 0..Height

\* In every frame the guest's pointer moves by what the host moved its mouse in
\* that frame, in both axes and in one step, though the axes call one after the
\* other; the frames after a state was restored or refused are no exception: no
\* jump by the distance between two sessions.  Exceptions are three: before the
\* first callback after a reset there is no baseline, while a port stands at
\* 0xffff the displacements of both axes are dropped, and a pointer that the
\* guest put beyond the screen is first brought back to its edge.
PointerFollows ==
    [][ \A delta \in Moves :
          frame_update(delta, port'.button) /\ ~fresh /\ OnScreen /\ ~MeetsUnset(delta)
          => mouse'.device = Displaced(mouse.device, delta.x, delta.y) ]_input_vars

\* The SLAVE has been told of the button that the ports hold, so that a later
\* edge is one for both: a press is never lost to a restored state, unless the
\* state has no ports in it.
ButtonIsTold == ~legacy => mouse.told = port.button /\ oldval = port.button
=============================================================================
