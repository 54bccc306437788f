SPECIFICATION Spec
CONSTANTS
    Keys = {esc, key}
    Buttons = {}
    Esc = esc
    Sizes <- ThreeSizes
    Size0 = 1
    EventCap = 3
    WindowCap = 3
    MaxPosts = 2
INVARIANT PressedIsTransition
CHECK_DEADLOCK FALSE
