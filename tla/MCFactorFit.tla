----------------------------- MODULE MCFactorFit -----------------------------
(***************************************************************************)
(* Both scripts at once over one name, two factors and three days; one of  *)
(* them may fail once, while returns are rebuilt and factors land.         *)
(***************************************************************************)
EXTENDS FactorFit
=============================================================================
