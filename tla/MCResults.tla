----------------------------- MODULE MCResults -----------------------------
(* Ten kinds of blocks: handshake times, energies and heaps that order cases  *)
(* in chains and ties, overlapping parts, a success without a time, with an   *)
(* incomplete capture or with reconnects, a warm-up, three kinds of failure,  *)
(* and complete, incomplete and unpowered transfer rounds.                    *)
EXTENDS Results, TLC
MCRow(warm, status, hs, kem, sig, power, energy, reconnects, heap) ==
    [warm |-> warm, status |-> status, hs |-> hs, kem |-> kem, sig |-> sig,
     comm |-> IF hs = Blank THEN Blank ELSE 1, heap |-> heap, power |-> power,
     energy |-> energy, reconnects |-> reconnects,
     dur |-> IF energy = Blank THEN Blank ELSE 4,   \* of the same window as the energy
     chain |-> IF status = "unsupported" THEN Blank ELSE 2]
MCRound(complete, up, down, power, energy) ==
    <<[dir |-> "device_to_server", status |-> up, complete |-> complete, power |-> power,
       ms |-> IF up = "success" THEN 2 ELSE Blank, energy |-> energy],
      [dir |-> "server_to_device", status |-> down, complete |-> complete, power |-> power,
       ms |-> IF down = "success" THEN 3 ELSE Blank, energy |-> energy]>>
MCBlock(row, transfers) == [row |-> row, transfers |-> transfers]
MCWhole == MCRound(TRUE, "success", "success", "success", 4)
MCUnpowered == MCRound(TRUE, "success", "success", "incomplete", Blank)
MCBroken == MCRound(FALSE, "success", "not_run", "incomplete", Blank)
MCBlocks ==
    {MCBlock(MCRow(FALSE, "success", 4, 1, 1, "success", 2, 0, 1), MCWhole),
     MCBlock(MCRow(FALSE, "success", 5, 3, 3, "success", 2, 0, 2), MCUnpowered),
     MCBlock(MCRow(FALSE, "success", 6, 2, 2, "success", 3, 0, 2), MCWhole),
     MCBlock(MCRow(FALSE, "success", 5, 2, Blank, "success", 1, 0, 2), <<>>),
     MCBlock(MCRow(FALSE, "success", Blank, 9, Blank, "success", 3, 0, Blank), MCWhole),
     MCBlock(MCRow(FALSE, "success", 3, 1, 1, "incomplete", 7, 1, 1), <<>>),
     MCBlock(MCRow(TRUE, "success", 8, 2, 2, "success", 8, 0, 3), <<>>),
     MCBlock(MCRow(FALSE, "fail", 6, 2, 2, "incomplete", 6, 1, 4), MCBroken),
     MCBlock(MCRow(FALSE, "timeout", Blank, Blank, Blank, "incomplete", Blank, 1, Blank), MCBroken),
     MCBlock(MCRow(FALSE, "unsupported", Blank, Blank, Blank, "", Blank, 0, Blank), <<>>)}
MCSymmetry == Permutations(Cases)
=============================================================================
