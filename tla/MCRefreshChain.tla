--------------------------- MODULE MCRefreshChain ---------------------------
(***************************************************************************)
(* The chain run day after day over a calendar of three days.              *)
(***************************************************************************)
EXTENDS RefreshChain

CONSTANTS usdtry, xu100

MCFactorOrder == <<usdtry, xu100>>
=============================================================================
