CONSTANTS
    Scenes = {scene}
    NoScene = NoScene
    NLights = 2
    Colours = {blue}
    NoColour = NoColour
    Dark = {}
    Bodies <- OneBody
    Tasks = {t1, t2}
    NoTask = NoTask
    Flaky = {}
    SendsMayFail = FALSE
SPECIFICATION Spec
INVARIANT OneCommandAtATime
SYMMETRY TaskSymmetry
VIEW ControlView
