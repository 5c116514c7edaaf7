CONSTANTS
    Scenes = {scene}
    NoScene = NoScene
    Requests = {r1, r2}
    NoCaller = NoCaller
    Standalone = TRUE
SPECIFICATION Spec
INVARIANTS
    SessionIsWatched
    DisabledIsStopped
    SidesAgree
    UnloadedIsStopped
PROPERTIES
    OthersAreNotCutOff
    EveryCallEnds
    ImplementsEngineSession
\* an unloaded entry whose timers have run out does nothing more
CHECK_DEADLOCK FALSE
