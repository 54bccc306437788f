SPECIFICATION Spec
CONSTANTS
    Groups <- MCGroups
    Members <- MCMembers
    Others <- MCOthers
    GroupOf <- MCGroupOf
    LastMode = 2
    Animation <- MCAnimation
    DefaultMode = 1
    Poses <- MCPoses
    Base = 0
    Views <- MCViews
    MaxBuilds = 3
INVARIANTS
    TypeOK
    FrameSubmitted
