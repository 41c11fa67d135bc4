--------------------------- MODULE MCControlGraph ---------------------------
(***************************************************************************)
(* Two issuers and an outside parent.  GLEIF reports a directly under b    *)
(* and b ultimately under the outside parent lx, the other legs not; KAP   *)
(* declares a under b as well, b under a and lx under a, which closes      *)
(* control cycles of two and of three, and b under itself.  The name       *)
(* matcher may give both issuers one LEI.                                  *)
(***************************************************************************)
EXTENDS ControlGraph

CONSTANTS a, b, la, lb, lx, s1, s2

MCMatches == [i \in Issuers |-> IF i = a THEN {la} ELSE {la, lb}]

Parents(l, d, u) == [lei |-> l, direct |-> d, ultimate |-> u]
MCAnswers == {Parents(la, lb, None), Parents(lb, None, lx)}

Declares(p, c, k, f) == [parent |-> p, child |-> c, kind |-> k, pct |-> f]
MCRelations == {Declares(b, a, "subsidiary", FALSE), Declares(b, b, "subsidiary", FALSE),
                Declares(a, lx, "subsidiary", FALSE), Declares(a, b, "subsidiary", FALSE),
                Declares(a, b, "jv", TRUE)}

MCReferences == {[i \in Issuers |-> IF i = a THEN s1 ELSE None],
                 [i \in Issuers |-> IF i = a THEN s2 ELSE s1]}
=============================================================================
