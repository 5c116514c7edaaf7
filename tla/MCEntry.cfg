CONSTANTS
    ReadTimeout = 30
    JoinTimeout = 5
SPECIFICATION Spec
INVARIANTS TypeOK ContextOutlivesThread UnloadedServesNothing
PROPERTY IdleSessionEnds
