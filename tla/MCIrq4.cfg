SPECIFICATION FairSpec
INVARIANTS
    LineFollowsDevices
PROPERTIES
    CdicIsServed
    DvcCauseIsSeen
    ImplementsOwnership
