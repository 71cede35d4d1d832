----------------------------- MODULE MCTreeSync -----------------------------
(* TreeSync on small instances.                                            *)
EXTENDS TreeSync

FileA == {<<"a">>}
FolderD == {<<"d">>}
NoPaths == {}
NewNames == {<<"b">>, <<"d">>, <<"d", "b">>}
=============================================================================
