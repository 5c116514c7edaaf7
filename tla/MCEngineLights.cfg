CONSTANTS
    Scenes = {scene}
    NoScene = NoScene
    NLights = 2
    Colours = {blue, black}
    NoColour = NoColour
    Dark = {black}
    Bodies <- NoBodies
    Tasks = {t1}
    NoTask = NoTask
    Flaky = {}
    SendsMayFail = FALSE
SPECIFICATION Spec
INVARIANT TypeOK
PROPERTIES
    NoStarvation
    RecentColourIsShown
