---------------------------- MODULE MCFilesList ----------------------------
(* Instances of FilesList for TLC. *)
EXTENDS FilesList, TLC

CONSTANTS recent, filesView, folder, inner

MCParent == inner :> folder
=============================================================================
