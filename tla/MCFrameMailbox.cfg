CONSTANTS
    Threads = {t1, t2}
    MaxFrames = 6
SPECIFICATION Spec
INVARIANTS
    Conservation
    AtMostOneCallback
    NoStrandedFrame
PROPERTY ImplementsLatestFrame
\* the TV stops after MaxFrames frames, and a closed loop runs nothing
CHECK_DEADLOCK FALSE
