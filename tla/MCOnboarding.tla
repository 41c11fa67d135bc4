---------------------------- MODULE MCOnboarding ----------------------------
(* Two companies.  a's list of instruments is ambiguous and runs past the  *)
(* page cap; the code that spells its second ticker comes after those the  *)
(* cache keeps.  The reference names an equity code of another company for *)
(* the first ticker and a human's ruling exists for the second.            *)
EXTENDS Onboarding

MCMatchOf == [o \in {"a", "b"} |-> IF o = "a" THEN "la" ELSE "lb"]
MCInstruments == [l \in {"la", "lb"} |-> IF l = "la" THEN {"i1", "i2", "i5"} ELSE {"i4"}]
MCRank == [i \in {"i1", "i2", "i3", "i4", "i5"} |->
  CASE i = "i1" -> 1 [] i = "i2" -> 2 [] i = "i3" -> 3 [] i = "i4" -> 4 [] i = "i5" -> 5]
MCEmbeds == {<<"i5", "T2">>}
MCReference == [t \in {"T1", "T2"} |-> IF t = "T1" THEN "i3" ELSE None]
MCRulings == [t \in {"T1", "T2"} |->
  [confirmed |-> t = "T2", chosen |-> "i2", candidates |-> {"i1", "i2"}]]
MCListed0 == [o \in {"a", "b"} |-> IF o = "a" THEN "T1" ELSE None]
=============================================================================
