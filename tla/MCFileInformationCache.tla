----------------------- MODULE MCFileInformationCache -----------------------
(* A tree of a directory with a child and a sibling, and its instances.    *)
EXTENDS FileInformationCache, TLC

MCPaths == {<<"d">>, <<"d", "f">>}
MCKindsOf == [p \in MCPaths |-> IF Len(p) = 1 THEN {"file", "dir"} ELSE {"file"}]
MCDirectory == [p \in MCPaths |-> IF Len(p) = 1 THEN {"dir"} ELSE {"file"}]
MCReported == MCPaths
MCTopLevel == {<<"d">>}
Symmetry == Permutations(Threads)
=============================================================================
