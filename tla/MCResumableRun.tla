--------------------------- MODULE MCResumableRun ---------------------------
(* Two blocks of one case and one of another, whose trust anchors are in   *)
(* different firmware images: the schedule is regrouped, both images are   *)
(* flashed, and one case has rows from more than one block.                *)
EXTENDS ResumableRun, TLC

CONSTANTS j1, j2, j3, c1, c2, p1, p2

MCCaseOf == (j1 :> c1) @@ (j2 :> c1) @@ (j3 :> c2)
MCProfileOf == (c1 :> p1) @@ (c2 :> p2)

EveryPoint == ProgramPoints

(* Without the window between the two rewrites of the round manifests. *)
OutsideReplanWindow == ProgramPoints \ {"ops"}
=============================================================================
