SPECIFICATION Spec
CONSTANTS
    Devs = {a}
    Screen = screen
    Frame = 6
    Temps = {e1, e2}
    Sentinel = never
    NoTimer = none
    Delays = {0, 3}
    Periods = {2}
    Cycle = 2
    Lengths = {1, 2}
    Quantum = 5
    QueueSize = 2
    MaxTime = 3
INVARIANTS
    HeadIsEarliest
    CallbackOnTime
    LineIsServed
