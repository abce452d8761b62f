---------------------------- MODULE MCDeviceBench ----------------------------
(* Two algorithms, two attempts each; a case file that repeats a case and   *)
(* disables another one, and one with a name the runner does not know.      *)
EXTENDS DeviceBench

MCCase(a, e) == [alg |-> a, enabled |-> e]
MCCaseFiles == {<<MCCase("a", TRUE), MCCase("b", TRUE), MCCase("a", TRUE),
                  MCCase("x", FALSE)>>,
                <<MCCase("x", TRUE)>>}
=============================================================================
