----------------------------- MODULE MCRunSetup -----------------------------
(* Three roots, one of them under two chains, in an image with room for five *)
(* units of certificates: by their sizes one or two profiles, or none.       *)
EXTENDS RunSetup
MCRootOf == <<1, 1, 2, 3>>
MCSizes == {<<1, 1, 1>>, <<2, 3, 2>>, <<1, 1, 6>>}
MCBase == <<4, 5>>
MCExtra == <<1, 1, 1>>
=============================================================================
