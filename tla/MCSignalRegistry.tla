-------------------------- MODULE MCSignalRegistry --------------------------
(***************************************************************************)
(* Either two runs of the scripts, over panels of six to eight rows and    *)
(* three folds, or the gate over three banks and a name without a sector.  *)
(* Neither reads what the other writes - the gate's decision is for people *)
(* - so a behaviour is about one of them: the scripts where the gate has   *)
(* no rows, the gate where it has.                                         *)
(***************************************************************************)
EXTENDS SignalRegistry, ResidualNetwork

CONSTANTS b1, b2, b3, sectorless, bank

MCNames == {b1, b2, b3, sectorless}
MCSector == [a \in MCNames |-> IF a = sectorless THEN Unplaced ELSE bank]

MCEventDays == {4}

(* The store has a few days of history when the first script is run.       *)
MCInit == Init /\ GateInit /\ today >= 6 /\ (rows > 0 => today = 6)

Scripts == rows = 0 /\ Next /\ UNCHANGED gateVars

Gate == rows > 0 /\ GateNext /\ UNCHANGED vars

(* The gate ends with its decision.                                        *)
Decided == rows > 0 /\ decision # "none" /\ UNCHANGED <<vars, gateVars>>

MCNext == Scripts \/ Gate \/ Decided

MCSpec == MCInit /\ [][MCNext]_<<vars, gateVars>>
=============================================================================
