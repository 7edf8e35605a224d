---------------------------- MODULE MCInodeFile ----------------------------
(***************************************************************************)
(* Model-checking instance of InodeFile with sectors of 4 bytes.           *)
(***************************************************************************)
EXTENDS InodeFile
=============================================================================
