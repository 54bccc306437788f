SPECIFICATION FairSpec
CONSTANTS
    Keys = {esc, button}
    Buttons = {button}
    Esc = esc
    Sizes <- ThreeSizes
    Size0 = 1
    EventCap = 2
    WindowCap = 2
    MaxPosts = 4
INVARIANTS
    TypeOK
    KeysFollow
    EdgesExplain
    SizesAgree
PROPERTY AskedToEnd
CHECK_DEADLOCK FALSE
