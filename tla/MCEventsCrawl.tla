--------------------------- MODULE MCEventsCrawl ---------------------------
(***************************************************************************)
(* Two days of two files; one record is no typed event.                    *)
(***************************************************************************)
EXTENDS EventsCrawl

CONSTANTS r1, r2, r3, noise

MCRecords == {r1, r2, r3, noise}
MCTyped == MCRecords \ {noise}
MCFileOf == [r \in MCRecords |-> CASE r = r1 -> <<1, 1>> [] r = r2 -> <<1, 2>>
                                   [] OTHER -> <<2, 1>>]
=============================================================================
