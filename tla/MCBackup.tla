------------------------------ MODULE MCBackup ------------------------------
(* Two copies to keep, enough contents and faults for more to pile up. *)
EXTENDS Backup
=============================================================================
