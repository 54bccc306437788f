---------------------------- MODULE MCFramePrep ----------------------------
(* Small instances of FramePrep for TLC: two groups with one member each,  *)
(* one object that never moves, and a mode for each animation.             *)
EXTENDS FramePrep

MCGroups == {"g1", "g2"}
MCMembers == {"m1", "m2"}
MCOthers == {"o1"}
MCGroupOf == [m \in MCMembers |-> IF m = "m1" THEN "g1" ELSE "g2"]
MCAnimation == [i \in 0..2 |-> <<"Static", "Leaves", "ParentSubtree">>[i + 1]]
MCPoses == 0..2
MCViews == 1..2
=============================================================================
