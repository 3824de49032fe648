-------------------------- MODULE MCSwarmTeammates --------------------------
(* A pair that sees each other, and a row of three whose ends do not.       *)
EXTENDS SwarmTeammatesProps

MCPair == {1, 2}
MCPairSees == {<<1, 2>>, <<2, 1>>}

MCRow == {1, 2, 3}
MCRowSees == {<<1, 2>>, <<2, 1>>, <<2, 3>>, <<3, 2>>}

\* Only the one in the middle sees the others, and it is in contact with both.
MCMiddleSees == {<<2, 1>>, <<2, 3>>}
MCMiddleMet == {<<1, 2>>, <<2, 1>>, <<2, 3>>, <<3, 2>>}

MCNobodyMet == {}
=============================================================================
