---------------------------- MODULE MCLedgerFile ----------------------------
(* The module of the run of LedgerFile; the cfg gives the constants. *)
EXTENDS LedgerFile
=============================================================================
