---------------------------- MODULE MCFolderSync ----------------------------
(* Small instances of FolderSync: two or three messages, one edit, click and *)
(* fault of each kind.                                                      *)
EXTENDS FolderSync
=============================================================================
