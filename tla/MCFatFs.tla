------------------------------ MODULE MCFatFs ------------------------------
EXTENDS FatFs

\* Byte values that tell apart who wrote them and where
MCPayload(f, o) == <<f, o>>
MCPaths == {<<"a">>, <<"d">>, <<"d", "a">>, <<"d", "b">>, <<"d", "c">>}
MCModes == {FileModeToFSMode(m) : m \in {{}, {"O_RDWR"}}} \cup {{"READ", "WRITE", "CREATE_ALWAYS"}}
FilSymmetry == Permutations(Fils)
=============================================================================
