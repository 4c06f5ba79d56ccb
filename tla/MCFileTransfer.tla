---------------------------- MODULE MCFileTransfer -----------------------------
(* Instances of FileTransfer for TLC.                                        *)
EXTENDS FileTransfer

\* A map.ini, which fits into a packet, and a map, which does not.
IniAndMap == <<"map.ini", "map">>
TwoChunks == [f \in FileNames |-> IF f = "map" THEN 2 ELSE 1]

\* Player 1 may not be able to write the map.
MapOf1 == {<<1, "map">>}

\* A copy of the first chunk of the map comes late.
ChunkOfMap == {File("map", 0)}

===============================================================================
