CONSTANTS
    Scenes = {scene}
    NoScene = NoScene
    NLights = 2
    Colours = {blue}
    NoColour = NoColour
    Dark = {}
    Bodies <- AllBodies
    Tasks = {t1, t2}
    NoTask = NoTask
    Flaky = {1}
    SendsMayFail = TRUE
SPECIFICATION Spec
INVARIANTS
    SuppressedIsFlushed
    NothingStranded
    SessionHasDrain
    OffStandsAlone
PROPERTY SuppressedSendsNothing
SYMMETRY TaskSymmetry
VIEW ControlView
