---------------------------- MODULE MCSourceRound ----------------------------
(* Two transfers, one retry: enough for a try to leave metrics behind and    *)
(* for the next one to meet them.                                            *)
EXTENDS SourceRound
=============================================================================
