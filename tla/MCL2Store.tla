------------------------------ MODULE MCL2Store ------------------------------
(***************************************************************************)
(* Two processes, one bitemporal and one derived table, two keys with two  *)
(* versions each: processes race on a key, frames repeat a key, a rebuild  *)
(* deletes between another process's statements.                           *)
(***************************************************************************)
EXTENDS L2Store
=============================================================================
