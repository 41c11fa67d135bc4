------------------------------ MODULE Linkage ------------------------------
(***************************************************************************)
(* The linkage side of the risk spine (risk/run_linkage.py,                *)
(* risk/linkage_propagation.py): the shock of a company is followed up the *)
(* stakes that hold it, chain by chain, on an explicit stack; then a       *)
(* breadth-first search over the control edges finds who controls it and   *)
(* whom it controls.  Nothing is written.                                  *)
(*                                                                         *)
(* A chain stands for its contribution, the product of its fractions and   *)
(* the shock: what a holder is exposed to is the sum over its chains.      *)
(***************************************************************************)
EXTENDS Integers, Sequences, FiniteSets, SequencesExt

CONSTANTS Names,         \* companies, by ticker or name
          Stakes,        \* [holder, held, fraction, confidence] records
          Controls,      \* <<controller, controlled>> pairs
          Shocked,       \* the origins, in order
          MinConfidence,
          MaxHops,       \* of propagate_ownership_shock
          MaxReach       \* max_hops of control_blast_radius

ASSUME BoundsAssumption ==
    /\ MaxHops \in Nat /\ MaxReach \in Nat
    /\ Shocked \in Seq(Names) /\ Shocked # <<>> /\ IsInjective(Shocked)

ASSUME EdgesAssumption ==
    /\ IsFiniteSet(Stakes) /\ \A s \in Stakes : s.holder \in Names /\ s.held \in Names
    /\ IsFiniteSet(Controls) /\ Controls \subseteq Names \X Names

VARIABLES stakes,    \* the HOLDS_STAKE edges of the graph
          controls,  \* its CONTROLS edges
          at,
          shock,     \* index of the origin in hand
          stack,     \* chains to be extended
          found,     \* chains recorded, in order
          queue,     \* <<name, depth>> pairs of the search
          seen       \* by direction: [origins -> [name -> hops]]

vars == <<stakes, controls, at, shock, stack, found, queue, seen>>

Directions == {"up", "down"}

(***************************************************************************)
(* Chains.                                                                 *)
(***************************************************************************)
Origin == Shocked[shock]

(* A chain is its origin and the stakes up from it.                        *)
Start(o) == [origin |-> o, stakes |-> <<>>]

Path(c) == <<c.origin>> \o [i \in 1 .. Len(c.stakes) |-> c.stakes[i].holder]

(* Mutant of Holding: one stake of a holder, the largest, as a dictionary  *)
(* keyed by the holder would keep.                                         *)
HoldingByHolder(name) ==
    LET all == {s \in stakes : s.held = name /\ s.confidence >= MinConfidence}
    IN  {s \in all : \A t \in all : t.holder = s.holder => t.fraction <= s.fraction}

(* The dictionary `up`: edges of little confidence are left out.           *)
Holding(name) == {s \in stakes : s.held = name /\ s.confidence >= MinConfidence}

(* Tested before a chain is extended: chains of max_hops hops still are.   *)
TooLong(c) == Len(Path(c)) > MaxHops + 1

(* A holder that is on the path already is a cycle, recorded apart.        *)
Extensions(c) ==
    IF TooLong(c) THEN {}
    ELSE {[c EXCEPT !.stakes = Append(@, s)] :
            s \in {s \in Holding(Last(Path(c))) : ~Contains(Path(c), s.holder)}}

(***************************************************************************)
(* The run.                                                                *)
(***************************************************************************)
NoneSeen == [d \in Directions |-> [i \in 1 .. Len(Shocked) |-> <<>>]]

Init ==
    /\ stakes \in SUBSET Stakes
    /\ controls \in SUBSET Controls
    /\ at = "read" /\ shock = 1
    /\ stack = <<>> /\ found = <<>>
    /\ queue = <<>> /\ seen = NoneSeen

Invalid == \E s \in stakes : s.fraction \notin 0 .. 100

(* A fraction outside [0, 1] raises, also on an edge of little confidence. *)
Read ==
    /\ at = "read"
    /\ IF Invalid THEN at' = "raised" /\ UNCHANGED stack
                  ELSE at' = "chains" /\ stack' = <<Start(Origin)>>
    /\ UNCHANGED <<stakes, controls, shock, found, queue, seen>>

(* One turn of the while loop.                                             *)
Extend ==
    /\ at = "chains" /\ stack # <<>>
    /\ LET longer == SetToSeq(Extensions(Last(stack)))
       IN  /\ found' = found \o longer
           /\ stack' = Front(stack) \o longer
    /\ UNCHANGED <<stakes, controls, at, shock, queue, seen>>

NextOrigin ==
    /\ at = "chains" /\ stack = <<>>
    /\ IF shock < Len(Shocked)
         THEN /\ shock' = shock + 1
              /\ stack' = <<Start(Shocked[shock + 1])>>
              /\ UNCHANGED <<at, queue>>
         ELSE /\ shock' = 1
              /\ at' = "up"
              /\ queue' = <<<<Shocked[1], 0>>>>
              /\ UNCHANGED stack
    /\ UNCHANGED <<stakes, controls, found, seen>>

(***************************************************************************)
(* control_blast_radius, for each origin up and then down.                 *)
(***************************************************************************)
Neighbours(d, name) ==
    IF d = "up" THEN {e[1] : e \in {e \in controls : e[2] = name}}
                ELSE {e[2] : e \in {e \in controls : e[1] = name}}

(* Mutant of New: a company seen before is visited again.                  *)
NewAgain(d, name) == {x \in Neighbours(d, name) : x # Origin}

New(d, name) ==
    {x \in Neighbours(d, name) : x # Origin /\ x \notin DOMAIN seen[d][shock]}

Visit ==
    /\ at \in Directions /\ queue # <<>>
    /\ LET name == Head(queue)[1]
           depth == Head(queue)[2]
           new == IF depth >= MaxReach THEN {} ELSE New(at, name)
           old == seen[at][shock]
       IN  /\ seen' = [seen EXCEPT ![at][shock] =
                         [x \in DOMAIN old \cup new |->
                            IF x \in new THEN depth + 1 ELSE old[x]]]
           /\ queue' = Tail(queue) \o SetToSeq({<<x, depth + 1>> : x \in new})
    /\ UNCHANGED <<stakes, controls, at, shock, stack, found>>

NextSearch ==
    /\ at \in Directions /\ queue = <<>>
    /\ CASE at = "up" ->
              at' = "down" /\ queue' = <<<<Origin, 0>>>> /\ UNCHANGED shock
         [] at = "down" /\ shock < Len(Shocked) ->
              at' = "up" /\ shock' = shock + 1 /\ queue' = <<<<Shocked[shock + 1], 0>>>>
         [] OTHER -> at' = "done" /\ UNCHANGED <<shock, queue>>
    /\ UNCHANGED <<stakes, controls, stack, found, seen>>

Next == Read \/ Extend \/ NextOrigin \/ Visit \/ NextSearch

Spec == Init /\ [][Next]_vars

(***************************************************************************)
(* Properties.                                                             *)
(***************************************************************************)
Usable == {s \in stakes : s.confidence >= MinConfidence}

(* A chain of the graph: each stake is in what the last holder is, and no  *)
(* company comes twice.                                                    *)
IsChain(c) ==
    /\ c.stakes # <<>>
    /\ \A i \in 1 .. Len(c.stakes) : c.stakes[i].held = Path(c)[i]
    /\ IsInjective(Path(c))

ChainsUpTo(hops) ==
    {c \in [origin : ToSet(Shocked), stakes : BoundedSeq(Usable, hops)] : IsChain(c)}

(* Every ownership chain above an origin is counted once and only once,    *)
(* around cycles and where stakes run in parallel, so that a holder's      *)
(* exposure is a sum over all chains of the same lengths: those the test   *)
(* at linkage_propagation.py:100 lets be extended, and one hop more.       *)
EveryChainOnce ==
    at \in {"up", "down", "done"} =>
        /\ ToSet(found) = ChainsUpTo(MaxHops + 1)
        /\ IsInjective(found)

(* "Chains longer than max_hops are truncated", says the docstring of      *)
(* propagate_ownership_shock (linkage_propagation.py:74-75).               *)
TruncatedAtMaxHops ==
    \A k \in DOMAIN found : Len(found[k].stakes) <= MaxHops

(* Who is within k control edges of the origin.                            *)
Within(d, o) ==
    LET f[k \in 0 .. MaxReach] ==
          IF k = 0 THEN {o}
          ELSE f[k - 1] \cup UNION {Neighbours(d, x) : x \in f[k - 1]}
    IN  f

(* The blast radius is who is within max_hops, and the hops reported are   *)
(* the fewest, around cycles of control as well.                           *)
NearestHops ==
    at = "done" =>
        \A d \in Directions, i \in 1 .. Len(Shocked) :
            LET within == Within(d, Shocked[i])
            IN  \A x \in Names \ {Shocked[i]} :
                  IF x \in DOMAIN seen[d][i]
                    THEN LET k == seen[d][i][x] IN x \in within[k] /\ x \notin within[k - 1]
                    ELSE x \notin within[MaxReach]
=============================================================================
