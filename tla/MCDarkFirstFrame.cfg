CONSTANTS
    Scenes = {scene}
    NoScene = NoScene
    NLights = 1
    Colours = {blue, black}
    NoColour = NoColour
    Dark = {black}
    Bodies <- NoBodies
    Tasks = {t1}
    NoTask = NoTask
    Flaky = {}
    SendsMayFail = FALSE
SPECIFICATION Spec
PROPERTY MostRecentColour
