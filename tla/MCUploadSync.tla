---------------------------- MODULE MCUploadSync ----------------------------
(* UploadSync on small instances.                                          *)
EXTENDS UploadSync

FileA == {<<"a">>}
NoPaths == {}
=============================================================================
