---------------------------- MODULE LinkageProofs ----------------------------
(***************************************************************************)
(* Proofs about the linkage run, for any graph of stakes and control       *)
(* edges, cycles included, any shocked companies and any bounds.           *)
(*                                                                         *)
(* The depth-first walk over chains is a loop with an explicit stack: the  *)
(* invariant says that the chains still missing are exactly those that     *)
(* some chain on the stack leads to.  The breadth-first search keeps the   *)
(* hops it reports distances, because its queue is in the order of them.   *)
(***************************************************************************)
EXTENDS Linkage, FiniteSetTheorems, SequenceTheorems, TLAPS

Chain == [origin : Names, stakes : Seq(Stakes)]

(* The chains to be counted.                                               *)
Counted == ChainsUpTo(MaxHops + 1)

(* The chain d is c, or c extended.                                        *)
LeadsTo(c, d) ==
    /\ c.origin = d.origin
    /\ Len(c.stakes) <= Len(d.stakes)
    /\ \A i \in 1 .. Len(c.stakes) : c.stakes[i] = d.stakes[i]

Shorter(c, d) == LeadsTo(c, d) /\ Len(c.stakes) < Len(d.stakes)

Earlier(o, n) == \E j \in 1 .. n - 1 : Shocked[j] = o

(* While the n-th origin is in hand its chains are found but those that    *)
(* some chain on the stack leads to, and no chain on the stack leads to    *)
(* another there.                                                          *)
InHand(n, q, f) ==
    /\ \A i \in 1 .. Len(q) : q[i] = Start(Shocked[n]) \/ q[i] \in Counted
    /\ \A i \in 1 .. Len(q) : q[i].origin = Shocked[n]
    /\ \A i, j \in 1 .. Len(q) : LeadsTo(q[i], q[j]) => i = j
    /\ \A c \in Counted :
          c \in ToSet(f) <=>
              \/ Earlier(c.origin, n)
              \/ c.origin = Shocked[n] /\ \A i \in 1 .. Len(q) : ~Shorter(q[i], c)

ChainsInv ==
    /\ found \in Seq(Chain) /\ stack \in Seq(Chain)
    /\ ToSet(found) \subseteq Counted /\ IsInjective(found)
    /\ at \in {"read", "raised"} => found = <<>>
    /\ at = "chains" => InHand(shock, stack, found)
    /\ at \in {"up", "down", "done"} => ToSet(found) = Counted

(* Who the search from o has met, with what it has seen, and in how many   *)
(* hops.                                                                   *)
Known(s, o) == DOMAIN s \cup {o}

Hops(s, o, x) == IF x = o THEN 0 ELSE s[x]

(* What is reported is a distance.                                         *)
HopsRight(d, o, s) ==
    \A x \in DOMAIN s :
        /\ x \in Names \ {o} /\ s[x] \in 1 .. MaxReach
        /\ x \in Within(d, o)[s[x]] /\ x \notin Within(d, o)[s[x] - 1]

Waiting(q, x) == \E j \in 1 .. Len(q) : q[j][1] = x

(* The queue holds whom the search has met, in the order of their hops,    *)
(* which differ by at most one; who waits no longer has met its neighbours. *)
Searching(d, o, s, q) ==
    /\ \A j \in 1 .. Len(q) : q[j][1] \in Known(s, o) /\ q[j][2] = Hops(s, o, q[j][1])
    /\ \A j, k \in 1 .. Len(q) : j < k => q[j][2] <= q[k][2] /\ q[k][2] <= q[j][2] + 1
    /\ \A x \in Known(s, o) :
          ~Waiting(q, x) /\ Hops(s, o, x) < MaxReach => Neighbours(d, x) \subseteq Known(s, o)

Ended(d, i) ==
    \/ at = "done"
    \/ at \in Directions /\ (i < shock \/ (i = shock /\ d = "up" /\ at = "down"))

Current(d, i) == d = at /\ i = shock

SearchInv ==
    /\ queue \in Seq(Names \X (0 .. MaxReach))
    /\ seen = [d \in Directions |-> [i \in 1 .. Len(Shocked) |-> seen[d][i]]]
    /\ \A d \in Directions, i \in 1 .. Len(Shocked) :
          /\ HopsRight(d, Shocked[i], seen[d][i])
          /\ Ended(d, i) =>
                Within(d, Shocked[i])[MaxReach] \subseteq Known(seen[d][i], Shocked[i])
          /\ ~Ended(d, i) /\ ~Current(d, i) => DOMAIN seen[d][i] = {}
    /\ at \in Directions => Searching(at, Origin, seen[at][shock], queue)

LinkageInv ==
    /\ at \in {"read", "raised", "chains", "up", "down", "done"}
    /\ shock \in 1 .. Len(Shocked)
    /\ stakes \subseteq Stakes /\ controls \subseteq Controls
    /\ at \in {"read", "raised"} => shock = 1
    /\ ChainsInv /\ SearchInv

-----------------------------------------------------------------------------
(***************************************************************************)
(* Numbers, sets and sequences.                                            *)
(***************************************************************************)

LEMMA LeastNumber ==
    ASSUME NEW T \in SUBSET Nat, T # {}
    PROVE  \E m \in T : \A k \in T : m <= k
<1> DEFINE R == OpToRel(<, Nat)
<1>1. IsWellFoundedOn(R, Nat)
  BY NatLessThanWellFounded
<1>2. PICK m \in T : \A k \in T : <<k, m>> \notin R
  <2> HIDE DEF R
  <2> QED
    BY <1>1, WFMin
<1>3. \A k \in T : ~ (k < m)
  BY <1>2 DEF OpToRel
<1> QED
  BY <1>3

(* SetToSeq lists a finite set, each element once.                         *)
LEMMA SetListed ==
    ASSUME NEW S, IsFiniteSet(S)
    PROVE  /\ SetToSeq(S) \in Seq(S) /\ IsInjective(SetToSeq(S))
           /\ ToSet(SetToSeq(S)) = S
<1> DEFINE n == Cardinality(S)
           f == SetToSeq(S)
<1>1. n \in Nat /\ ExistsBijection(1 .. n, S)
  BY FS_CardinalityType
<1>2. \E g \in [1 .. n -> S] : IsInjective(g)
  BY <1>1 DEF ExistsBijection, Bijection, Injection
<1>3. f \in [1 .. n -> S] /\ IsInjective(f)
  BY <1>2 DEF SetToSeq
<1>4. f \in Seq(S)
  BY <1>1, <1>3
<1>5. f \in Injection(1 .. n, S)
  BY <1>3 DEF Injection
<1>6. IsFiniteSet(1 .. n) /\ Cardinality(1 .. n) = n
  BY <1>1, FS_Interval
<1>7. f \in Surjection(1 .. n, S)
  BY <1>5, <1>6, FS_Injection
<1>8. ToSet(f) = S
  BY <1>3, <1>7 DEF ToSet, Surjection
<1> QED
  BY <1>3, <1>4, <1>8

LEMMA ListedSequence ==
    ASSUME NEW S, NEW T, S \subseteq T, IsFiniteSet(S)
    PROVE  /\ SetToSeq(S) \in Seq(T) /\ Len(SetToSeq(S)) \in Nat
           /\ \A i \in 1 .. Len(SetToSeq(S)) : SetToSeq(S)[i] \in S
           /\ \A x \in S : \E i \in 1 .. Len(SetToSeq(S)) : SetToSeq(S)[i] = x
           /\ \A i, j \in 1 .. Len(SetToSeq(S)) : SetToSeq(S)[i] = SetToSeq(S)[j] => i = j
<1> DEFINE f == SetToSeq(S)
<1>1. f \in Seq(S) /\ IsInjective(f) /\ ToSet(f) = S
  BY SetListed
<1> HIDE DEF f
<1>2. DOMAIN f = 1 .. Len(f) /\ Len(f) \in Nat /\ f \in Seq(T)
  BY <1>1, SeqMonotonic
<1>3. \A i \in 1 .. Len(f) : f[i] \in S
  BY <1>1
<1>4. \A x \in S : \E i \in 1 .. Len(f) : f[i] = x
  BY <1>1, <1>2 DEF ToSet
<1>5. \A i, j \in 1 .. Len(f) : f[i] = f[j] => i = j
  BY <1>1, <1>2 DEF IsInjective
<1> QED
  BY <1>2, <1>3, <1>4, <1>5 DEF f

-----------------------------------------------------------------------------
(***************************************************************************)
(* Chains and the chains that lead to them.                                *)
(***************************************************************************)

LEMMA PathIs ==
    ASSUME NEW c \in Chain
    PROVE  /\ Len(c.stakes) \in Nat
           /\ Path(c) \in Seq(Names) /\ Len(Path(c)) = Len(c.stakes) + 1
           /\ Path(c)[1] = c.origin
           /\ \A i \in 1 .. Len(c.stakes) : Path(c)[i + 1] = c.stakes[i].holder
           /\ Last(Path(c)) = Path(c)[Len(c.stakes) + 1]
<1> DEFINE n == Len(c.stakes)
           up == [i \in 1 .. n |-> c.stakes[i].holder]
<1>1. c.origin \in Names /\ c.stakes \in Seq(Stakes) /\ n \in Nat
  BY DEF Chain
<1>2. \A i \in 1 .. n : c.stakes[i] \in Stakes /\ c.stakes[i].holder \in Names
  BY <1>1, EdgesAssumption
<1>3. up \in Seq(Names) /\ Len(up) = n /\ \A i \in 1 .. n : up[i] = c.stakes[i].holder
  <2>1. up \in [1 .. n -> Names]
    BY <1>2
  <2> QED
    BY <1>1, <2>1
<1>4. <<c.origin>> \in Seq(Names) /\ Len(<<c.origin>>) = 1 /\ <<c.origin>>[1] = c.origin
  BY <1>1
<1>5. Path(c) = <<c.origin>> \o up
  BY DEF Path
<1> HIDE DEF up, n
<1>6. /\ Path(c) \in Seq(Names) /\ Len(Path(c)) = 1 + n
      /\ \A i \in 1 .. 1 + n : Path(c)[i] = IF i <= 1 THEN <<c.origin>>[i] ELSE up[i - 1]
  BY <1>3, <1>4, <1>5, ConcatProperties
<1>7. Path(c)[1] = c.origin
  BY <1>1, <1>4, <1>6
<1>8. \A i \in 1 .. n : Path(c)[i + 1] = c.stakes[i].holder
  <2> TAKE i \in 1 .. n
  <2>1. i + 1 \in 1 .. 1 + n /\ ~(i + 1 <= 1) /\ (i + 1) - 1 = i
    BY <1>1
  <2> QED
    BY <1>3, <1>6, <2>1
<1> QED
  BY <1>1, <1>6, <1>7, <1>8 DEF Last, n

LEMMA StartIs ==
    ASSUME NEW o \in Names
    PROVE  Start(o) \in Chain /\ Start(o).origin = o /\ Len(Start(o).stakes) = 0
<1>1. <<>> \in Seq(Stakes) /\ Len(<<>>) = 0
  OBVIOUS
<1> QED
  BY <1>1 DEF Start, Chain

LEMMA CountedIs ==
    ASSUME stakes \subseteq Stakes, NEW c
    PROVE  c \in Counted <=>
               /\ c \in Chain /\ c.origin \in ToSet(Shocked) /\ IsChain(c)
               /\ Len(c.stakes) <= MaxHops + 1
               /\ \A i \in 1 .. Len(c.stakes) : c.stakes[i] \in Usable
<1>0. MaxHops \in Nat /\ ToSet(Shocked) \subseteq Names
  BY BoundsAssumption DEF ToSet
<1> DEFINE n == Len(c.stakes)
<1>1. ASSUME c \in Counted
      PROVE  /\ c \in Chain /\ c.origin \in ToSet(Shocked) /\ IsChain(c)
             /\ n <= MaxHops + 1 /\ \A i \in 1 .. n : c.stakes[i] \in Usable
  <2>1. /\ c \in [origin : ToSet(Shocked), stakes : BoundedSeq(Usable, MaxHops + 1)]
        /\ IsChain(c)
    BY <1>1 DEF Counted, ChainsUpTo
  <2>2. PICK m \in 0 .. MaxHops + 1 : c.stakes \in [1 .. m -> Usable]
    BY <2>1 DEF BoundedSeq, SeqOf
  <2>3. c.stakes \in Seq(Usable) /\ n = m
    BY <1>0, <2>2
  <2>4. Usable \subseteq Stakes
    BY DEF Usable
  <2>5. c.stakes \in Seq(Stakes)
    BY <2>3, <2>4, SeqMonotonic
  <2>6. c \in Chain
    BY <1>0, <2>1, <2>5 DEF Chain
  <2> QED
    BY <1>0, <2>1, <2>2, <2>3, <2>6
<1>2. ASSUME c \in Chain, c.origin \in ToSet(Shocked), IsChain(c), n <= MaxHops + 1,
             \A i \in 1 .. n : c.stakes[i] \in Usable
      PROVE  c \in Counted
  <2>1. c.stakes \in Seq(Stakes) /\ n \in 0 .. MaxHops + 1
    BY <1>0, <1>2 DEF Chain
  <2>2. c.stakes \in [1 .. n -> Usable]
    BY <1>2, <2>1
  <2>3. c.stakes \in BoundedSeq(Usable, MaxHops + 1)
    BY <2>1, <2>2 DEF BoundedSeq, SeqOf
  <2>4. c = [origin |-> c.origin, stakes |-> c.stakes]
    BY <1>2 DEF Chain
  <2>5. c \in [origin : ToSet(Shocked), stakes : BoundedSeq(Usable, MaxHops + 1)]
    BY <1>2, <2>3, <2>4
  <2> QED
    BY <1>2, <2>5 DEF Counted, ChainsUpTo
<1> QED
  BY <1>1, <1>2

(* LeadsTo is an order.                                                    *)
LEMMA LeadsToSelf ==
    ASSUME NEW c \in Chain
    PROVE  LeadsTo(c, c) /\ ~Shorter(c, c)
<1>1. Len(c.stakes) \in Nat
  BY DEF Chain
<1> QED
  BY <1>1 DEF LeadsTo, Shorter

LEMMA LeadsToEqual ==
    ASSUME NEW c \in Chain, NEW d \in Chain, LeadsTo(c, d), Len(d.stakes) <= Len(c.stakes)
    PROVE  c = d
<1>1. c.stakes \in Seq(Stakes) /\ d.stakes \in Seq(Stakes)
  BY DEF Chain
<1>2. Len(c.stakes) = Len(d.stakes)
  BY <1>1 DEF LeadsTo
<1>3. c.stakes = d.stakes
  BY <1>1, <1>2, SeqEqual DEF LeadsTo
<1>4. /\ c = [origin |-> c.origin, stakes |-> c.stakes]
      /\ d = [origin |-> d.origin, stakes |-> d.stakes]
  BY DEF Chain
<1> QED
  BY <1>3, <1>4 DEF LeadsTo

LEMMA LeadsToTransitive ==
    ASSUME NEW c \in Chain, NEW d \in Chain, NEW e \in Chain, LeadsTo(c, d), LeadsTo(d, e)
    PROVE  LeadsTo(c, e)
<1>1. Len(c.stakes) \in Nat /\ Len(d.stakes) \in Nat /\ Len(e.stakes) \in Nat
  BY DEF Chain
<1> QED
  BY <1>1 DEF LeadsTo

(* Of two chains that lead to a third, the shorter leads to the longer.    *)
LEMMA LeadsToBetween ==
    ASSUME NEW c \in Chain, NEW d \in Chain, NEW e \in Chain, LeadsTo(c, e), LeadsTo(d, e),
           Len(c.stakes) <= Len(d.stakes)
    PROVE  LeadsTo(c, d)
<1>1. Len(c.stakes) \in Nat /\ Len(d.stakes) \in Nat /\ Len(e.stakes) \in Nat
  BY DEF Chain
<1> QED
  BY <1>1 DEF LeadsTo

(* An extension is the chain and a stake of its last holder's above it.    *)
LEMMA ExtensionIs ==
    ASSUME stakes \subseteq Stakes, NEW c \in Chain, NEW e \in Extensions(c)
    PROVE  /\ e \in Chain /\ Shorter(c, e) /\ ~TooLong(c)
           /\ Len(e.stakes) = Len(c.stakes) + 1
           /\ LET s == e.stakes[Len(e.stakes)]
              IN  s \in Usable /\ s.held = Last(Path(c)) /\ ~Contains(Path(c), s.holder)
<1>1. ~TooLong(c)
  BY DEF Extensions
<1>2. PICK s \in Holding(Last(Path(c))) :
        ~Contains(Path(c), s.holder) /\ e = [c EXCEPT !.stakes = Append(c.stakes, s)]
  BY <1>1 DEF Extensions
<1>3. s \in Usable /\ s \in Stakes /\ s.held = Last(Path(c))
  BY <1>2 DEF Holding, Usable
<1>4. c.stakes \in Seq(Stakes) /\ c.origin \in Names
  BY DEF Chain
<1>5. e.origin = c.origin /\ e.stakes = Append(c.stakes, s) /\ e \in Chain
  <2>1. Append(c.stakes, s) \in Seq(Stakes)
    BY <1>3, <1>4, AppendProperties
  <2>2. e = [origin |-> c.origin, stakes |-> Append(c.stakes, s)]
    BY <1>2 DEF Chain
  <2> QED
    BY <1>4, <2>1, <2>2 DEF Chain
<1>6. /\ Len(e.stakes) = Len(c.stakes) + 1 /\ Len(c.stakes) \in Nat
      /\ \A i \in 1 .. Len(c.stakes) : e.stakes[i] = c.stakes[i]
      /\ e.stakes[Len(c.stakes) + 1] = s
  BY <1>3, <1>4, <1>5, AppendProperties
<1>7. Shorter(c, e)
  BY <1>5, <1>6 DEF Shorter, LeadsTo
<1> QED
  BY <1>1, <1>2, <1>3, <1>5, <1>6, <1>7

LEMMA ExtensionMade ==
    ASSUME stakes \subseteq Stakes, NEW c \in Chain, ~TooLong(c), NEW s \in Usable,
           s.held = Last(Path(c)), ~Contains(Path(c), s.holder)
    PROVE  [origin |-> c.origin, stakes |-> Append(c.stakes, s)] \in Extensions(c)
<1>1. [c EXCEPT !.stakes = Append(c.stakes, s)] \in Extensions(c)
  BY DEF Extensions, Holding, Usable
<1>2. PICK e \in Extensions(c) : e = [c EXCEPT !.stakes = Append(c.stakes, s)]
  BY <1>1
<1>3. e = [origin |-> c.origin, stakes |-> Append(c.stakes, s)]
  BY <1>2 DEF Chain
<1> QED
  BY <1>2, <1>3

LEMMA ExtensionsFinite ==
    ASSUME stakes \subseteq Stakes, NEW c \in Chain
    PROVE  IsFiniteSet(Extensions(c)) /\ Extensions(c) \subseteq Chain
<1>1. Extensions(c) \subseteq Chain
  BY ExtensionIs
<1>2. CASE TooLong(c)
  BY <1>1, <1>2, FS_EmptySet DEF Extensions
<1>3. CASE ~TooLong(c)
  <2> DEFINE T == {s \in Holding(Last(Path(c))) : ~Contains(Path(c), s.holder)}
             f == [s \in T |-> [c EXCEPT !.stakes = Append(c.stakes, s)]]
  <2>1. T \in SUBSET Stakes
    BY DEF Holding
  <2>2. IsFiniteSet(T)
    BY <2>1, EdgesAssumption, FS_Subset
  <2>3. f \in Surjection(T, Extensions(c))
    BY <1>3 DEF Surjection, Extensions
  <2> HIDE DEF T, f
  <2> QED
    BY <1>1, <2>2, <2>3, FS_Surjection
<1> QED
  BY <1>2, <1>3

(* A sequence r is q and then a set's elements, once each.                 *)
Lists(r, q, S) ==
    /\ Len(r) \in Nat /\ Len(q) \in Nat /\ Len(q) <= Len(r)
    /\ \A i \in 1 .. Len(q) : r[i] = q[i]
    /\ \A i \in Len(q) + 1 .. Len(r) : r[i] \in S
    /\ \A x \in S : \E i \in Len(q) + 1 .. Len(r) : r[i] = x
    /\ \A i, j \in Len(q) + 1 .. Len(r) : r[i] = r[j] => i = j

LEMMA Joined ==
    ASSUME NEW T, NEW q \in Seq(T), NEW S, S \subseteq T, IsFiniteSet(S),
           NEW r, r = q \o SetToSeq(S)
    PROVE  r \in Seq(T) /\ Lists(r, q, S)
<1> DEFINE f == SetToSeq(S)
           n == Len(q)
<1>1. /\ f \in Seq(T) /\ Len(f) \in Nat
      /\ \A i \in 1 .. Len(f) : f[i] \in S
      /\ \A x \in S : \E i \in 1 .. Len(f) : f[i] = x
      /\ \A i, j \in 1 .. Len(f) : f[i] = f[j] => i = j
  BY ListedSequence
<1>0. r = q \o f
  OBVIOUS
<1> HIDE DEF f
<1>2. /\ r \in Seq(T) /\ Len(r) = n + Len(f) /\ n \in Nat
      /\ \A i \in 1 .. n + Len(f) : r[i] = IF i <= n THEN q[i] ELSE f[i - n]
  BY <1>0, <1>1, ConcatProperties
<1> HIDE DEF n
<1>3. \A i \in 1 .. n : r[i] = q[i]
  <2> TAKE i \in 1 .. n
  <2>1. i \in 1 .. n + Len(f) /\ i <= n
    BY <1>1, <1>2
  <2> QED
    BY <1>2, <2>1
<1>4. \A i \in n + 1 .. Len(r) : i - n \in 1 .. Len(f) /\ r[i] = f[i - n]
  <2> TAKE i \in n + 1 .. Len(r)
  <2>1. i \in 1 .. n + Len(f) /\ ~(i <= n) /\ i - n \in 1 .. Len(f)
    BY <1>1, <1>2
  <2> QED
    BY <1>2, <2>1
<1>5. ASSUME NEW x \in S
      PROVE  \E i \in n + 1 .. Len(r) : r[i] = x
  <2>1. PICK k \in 1 .. Len(f) : f[k] = x
    BY <1>1
  <2>2. k + n \in n + 1 .. Len(r) /\ (k + n) - n = k
    BY <1>1, <1>2
  <2> QED
    BY <1>4, <2>1, <2>2
<1>6. ASSUME NEW i \in n + 1 .. Len(r), NEW j \in n + 1 .. Len(r), r[i] = r[j]
      PROVE  i = j
  <2>1. f[i - n] = f[j - n] /\ i - n \in 1 .. Len(f) /\ j - n \in 1 .. Len(f)
    BY <1>4, <1>6
  <2>2. i - n = j - n
    BY <1>1, <2>1
  <2> QED
    BY <1>2, <2>2
<1>7. n <= Len(r)
  BY <1>1, <1>2
<1>8. /\ \A i \in n + 1 .. Len(r) : r[i] \in S
      /\ \A x \in S : \E i \in n + 1 .. Len(r) : r[i] = x
      /\ \A i, j \in n + 1 .. Len(r) : r[i] = r[j] => i = j
  BY <1>1, <1>4, <1>5, <1>6
<1>9. Len(r) \in Nat
  BY <1>2
<1> QED
  BY <1>2, <1>3, <1>7, <1>8, <1>9, Zenon DEF n, Lists

LEMMA PathPrefix ==
    ASSUME NEW c \in Chain, NEW d \in Chain, LeadsTo(c, d)
    PROVE  \A i \in 1 .. Len(c.stakes) + 1 : Path(d)[i] = Path(c)[i]
<1> TAKE i \in 1 .. Len(c.stakes) + 1
<1>1. CASE i = 1
  BY <1>1, PathIs DEF LeadsTo
<1>2. CASE i # 1
  <2>0. Len(c.stakes) \in Nat /\ Len(d.stakes) \in Nat
    BY PathIs
  <2>1. i - 1 \in 1 .. Len(c.stakes) /\ i - 1 \in 1 .. Len(d.stakes) /\ (i - 1) + 1 = i
    BY <1>2, <2>0 DEF LeadsTo
  <2>2. Path(c)[(i - 1) + 1] = c.stakes[i - 1].holder /\ Path(d)[(i - 1) + 1] = d.stakes[i - 1].holder
    BY <2>1, PathIs
  <2> QED
    BY <2>1, <2>2 DEF LeadsTo
<1> QED
  BY <1>1, <1>2

(* What is counted, and an origin, extends to what is to be counted.       *)
LEMMA ExtensionCounted ==
    ASSUME stakes \subseteq Stakes, NEW c, NEW o \in ToSet(Shocked),
           c \in Counted \/ c = Start(o), NEW e \in Extensions(c)
    PROVE  e \in Counted
<1> DEFINE n == Len(c.stakes)
           s == e.stakes[Len(e.stakes)]
<1>0. MaxHops \in Nat /\ ToSet(Shocked) \subseteq Names
  BY BoundsAssumption DEF ToSet
<1>1. /\ c \in Chain /\ c.origin \in ToSet(Shocked)
      /\ \A i \in 1 .. n : c.stakes[i] \in Usable /\ c.stakes[i].held = Path(c)[i]
      /\ \A i, j \in 1 .. n + 1 : Path(c)[i] = Path(c)[j] => i = j
  <2>1. CASE c \in Counted
    <3>1. c \in Chain /\ IsChain(c) /\ c.origin \in ToSet(Shocked)
          /\ \A i \in 1 .. n : c.stakes[i] \in Usable
      BY <2>1, CountedIs
    <3>2. DOMAIN Path(c) = 1 .. n + 1
      BY <3>1, PathIs
    <3> QED
      BY <3>1, <3>2 DEF IsChain, IsInjective
  <2>2. CASE c = Start(o)
    BY <1>0, <2>2, StartIs
  <2> QED
    BY <2>1, <2>2
<1>2. /\ e \in Chain /\ LeadsTo(c, e) /\ Len(e.stakes) = n + 1 /\ n \in Nat
      /\ s \in Usable /\ s.held = Path(c)[n + 1] /\ ~Contains(Path(c), s.holder)
      /\ ~TooLong(c)
  BY <1>1, ExtensionIs, PathIs DEF Shorter
<1>3. /\ Path(e) \in Seq(Names) /\ Len(Path(e)) = n + 2
      /\ \A i \in 1 .. n + 1 : Path(e)[i] = Path(c)[i]
      /\ Path(e)[n + 2] = s.holder
  <2>1. Path(e) \in Seq(Names) /\ Len(Path(e)) = (n + 1) + 1
    BY <1>2, PathIs
  <2>2. n + 1 \in 1 .. Len(e.stakes)
    BY <1>2
  <2>3. Path(e)[(n + 1) + 1] = e.stakes[n + 1].holder
    BY <1>2, <2>2, PathIs
  <2>4. (n + 1) + 1 = n + 2
    BY <1>2
  <2> QED
    BY <1>1, <1>2, <2>1, <2>3, <2>4, PathPrefix
<1>4. n + 1 <= MaxHops + 1
  BY <1>0, <1>1, <1>2, PathIs DEF TooLong
<1>5. ASSUME NEW i \in 1 .. Len(e.stakes)
      PROVE  e.stakes[i] \in Usable /\ e.stakes[i].held = Path(e)[i]
  <2>1. CASE i = n + 1
    BY <1>2, <1>3, <2>1
  <2>2. CASE i # n + 1
    <3>1. i \in 1 .. n
      BY <1>2, <2>2
    <3> QED
      BY <1>1, <1>2, <1>3, <3>1 DEF LeadsTo
  <2> QED
    BY <2>1, <2>2
<1>6. \A i \in 1 .. n + 1 : Path(e)[i] # Path(e)[n + 2]
  BY <1>1, <1>2, <1>3, PathIs DEF Contains
<1>7. IsInjective(Path(e))
  <2>1. DOMAIN Path(e) = 1 .. n + 2
    BY <1>3
  <2>2. \A i \in 1 .. n + 2 : i = n + 2 \/ i \in 1 .. n + 1
    BY <1>2
  <2> QED
    BY <1>1, <1>3, <1>6, <2>1, <2>2 DEF IsInjective
<1>8. e.stakes # <<>>
  BY <1>2
<1>9. IsChain(e) /\ e.origin \in ToSet(Shocked)
  BY <1>1, <1>2, <1>5, <1>7, <1>8 DEF IsChain, LeadsTo
<1> HIDE DEF s, n
<1> QED
  BY <1>2, <1>4, <1>5, <1>9, CountedIs

(* A chain to be counted is reached by way of an extension of any it       *)
(* extends.                                                                *)
LEMMA ExtensionOnTheWay ==
    ASSUME stakes \subseteq Stakes, NEW c \in Chain, NEW d \in Counted, Shorter(c, d)
    PROVE  \E e \in Extensions(c) : LeadsTo(e, d)
<1> DEFINE n == Len(c.stakes)
           s == d.stakes[n + 1]
           e == [origin |-> c.origin, stakes |-> Append(c.stakes, s)]
<1>0. MaxHops \in Nat
  BY BoundsAssumption
<1>1. /\ d \in Chain /\ IsChain(d) /\ Len(d.stakes) <= MaxHops + 1
      /\ \A i \in 1 .. Len(d.stakes) : d.stakes[i] \in Usable
  BY CountedIs
<1>2. n \in Nat /\ Len(d.stakes) \in Nat /\ n + 1 \in 1 .. Len(d.stakes)
  BY <1>1, PathIs DEF Shorter
<1>3. s \in Usable /\ s.held = Path(d)[n + 1] /\ Path(d)[(n + 1) + 1] = s.holder
  BY <1>1, <1>2, PathIs DEF IsChain
<1>4. \A i \in 1 .. n + 1 : Path(d)[i] = Path(c)[i]
  BY <1>1, PathPrefix DEF Shorter
<1>5. s.held = Last(Path(c))
  <2>1. n + 1 \in 1 .. n + 1
    BY <1>2
  <2> QED
    BY <1>3, <1>4, <2>1, PathIs
<1>6. ~Contains(Path(c), s.holder)
  <2> SUFFICES ASSUME NEW i \in 1 .. Len(Path(c)), Path(c)[i] = s.holder
               PROVE  FALSE
    BY DEF Contains
  <2>1. i \in 1 .. n + 1 /\ Path(d)[i] = Path(d)[(n + 1) + 1]
    BY <1>3, <1>4, PathIs
  <2>2. DOMAIN Path(d) = 1 .. Len(d.stakes) + 1
    BY <1>1, PathIs
  <2>3. i \in DOMAIN Path(d) /\ (n + 1) + 1 \in DOMAIN Path(d) /\ i # (n + 1) + 1
    BY <1>2, <2>1, <2>2
  <2> QED
    BY <1>1, <2>1, <2>3 DEF IsChain, IsInjective
<1>7. ~TooLong(c)
  BY <1>0, <1>1, <1>2, PathIs DEF TooLong
<1>8. e \in Extensions(c)
  BY <1>3, <1>5, <1>6, <1>7, ExtensionMade
<1>9. LeadsTo(e, d)
  <2> HIDE DEF s
  <2>2. c.stakes \in Seq(Stakes) /\ s \in Stakes
    BY <1>3 DEF Chain, Usable
  <2>3. /\ Len(Append(c.stakes, s)) = n + 1
        /\ \A i \in 1 .. n : Append(c.stakes, s)[i] = c.stakes[i]
        /\ Append(c.stakes, s)[n + 1] = s
    BY <2>2, AppendProperties
  <2>4. e.origin = c.origin /\ e.stakes = Append(c.stakes, s)
    OBVIOUS
  <2> HIDE DEF e
  <2>5. \A i \in 1 .. n + 1 : e.stakes[i] = d.stakes[i]
    <3>1. \A i \in 1 .. n + 1 : i = n + 1 \/ i \in 1 .. n
      BY <1>2
    <3>2. \A i \in 1 .. n : c.stakes[i] = d.stakes[i]
      BY DEF Shorter, LeadsTo
    <3>3. e.stakes[n + 1] = d.stakes[n + 1]
      BY <2>3, <2>4 DEF s
    <3> HIDE DEF n
    <3> QED
      BY <2>3, <2>4, <3>1, <3>2, <3>3
  <2> QED
    BY <1>2, <2>3, <2>4, <2>5 DEF Shorter, LeadsTo
<1> QED
  BY <1>8, <1>9

-----------------------------------------------------------------------------
(***************************************************************************)
(* The walk over the chains.                                               *)
(***************************************************************************)

LEMMA FrontIs ==
    ASSUME NEW T, NEW q \in Seq(T), q # <<>>
    PROVE  /\ Front(q) \in Seq(T) /\ Len(q) \in Nat \ {0} /\ Len(Front(q)) = Len(q) - 1
           /\ \A i \in 1 .. Len(q) - 1 : Front(q)[i] = q[i]
           /\ Last(q) = q[Len(q)] /\ Last(q) \in T
<1>1. Len(q) \in Nat \ {0} /\ q[Len(q)] \in T
  OBVIOUS
<1>2. /\ SubSeq(q, 1, Len(q) - 1) \in Seq(T)
      /\ Len(SubSeq(q, 1, Len(q) - 1)) = Len(q) - 1
      /\ \A i \in 1 .. Len(q) - 1 : SubSeq(q, 1, Len(q) - 1)[i] = q[i]
  <2> DEFINE m == Len(q) - 1
  <2>1. m \in Nat /\ \A i \in 1 .. m : q[i] \in T
    BY <1>1
  <2> HIDE DEF m
  <2>2. \A i \in 1 .. m : (1 + i) - 1 = i
    BY <2>1
  <2>3. (IF 1 <= m THEN (m - 1) + 1 ELSE 0) = m /\ (m - 1) + 1 = m
    BY <2>1
  <2>4. /\ SubSeq(q, 1, m) \in Seq(T)
        /\ Len(SubSeq(q, 1, m)) = IF 1 <= m THEN (m - 1) + 1 ELSE 0
        /\ \A i \in 1 .. (m - 1) + 1 : SubSeq(q, 1, m)[i] = q[(1 + i) - 1]
    BY <2>1, SubSeqProperties
  <2>5. \A i \in 1 .. m : SubSeq(q, 1, m)[i] = q[i]
    BY <2>2, <2>3, <2>4
  <2> QED
    BY <2>3, <2>4, <2>5 DEF m
<1> QED
  BY <1>1, <1>2 DEF Front, Last

LEMMA Origins ==
    /\ Len(Shocked) \in Nat \ {0} /\ ToSet(Shocked) \subseteq Names
    /\ \A i \in 1 .. Len(Shocked) : Shocked[i] \in ToSet(Shocked)
    /\ \A i, j \in 1 .. Len(Shocked) : Shocked[i] = Shocked[j] => i = j
    /\ \A i \in 1 .. Len(Shocked) : ~Earlier(Shocked[i], i)
<1>1. /\ Shocked \in Seq(Names) /\ Shocked # <<>> /\ DOMAIN Shocked = 1 .. Len(Shocked)
      /\ \A i, j \in DOMAIN Shocked : Shocked[i] = Shocked[j] => i = j
  BY BoundsAssumption DEF IsInjective
<1>2. Len(Shocked) \in Nat \ {0} /\ ToSet(Shocked) \subseteq Names
  BY <1>1 DEF ToSet
<1>3. \A i \in 1 .. Len(Shocked) : Shocked[i] \in ToSet(Shocked)
  BY <1>1 DEF ToSet
<1>4. ASSUME NEW i \in 1 .. Len(Shocked)
      PROVE  ~Earlier(Shocked[i], i)
  <2> SUFFICES ASSUME NEW j \in 1 .. i - 1, Shocked[j] = Shocked[i]
               PROVE  FALSE
    BY DEF Earlier
  <2>1. j \in 1 .. Len(Shocked) /\ j # i
    BY <1>2
  <2> QED
    BY <1>1, <2>1
<1> QED
  BY <1>1, <1>2, <1>3, <1>4

(* An origin whose chains come next.                                       *)
LEMMA OriginInHand ==
    ASSUME stakes \subseteq Stakes, NEW n \in 1 .. Len(Shocked), NEW f,
           \A c \in Counted : c \in ToSet(f) <=> Earlier(c.origin, n)
    PROVE  <<Start(Shocked[n])>> \in Seq(Chain) /\ InHand(n, <<Start(Shocked[n])>>, f)
<1> DEFINE o == Start(Shocked[n])
           q == <<o>>
<1>1. o \in Chain /\ o.origin = Shocked[n] /\ Len(o.stakes) = 0
  BY Origins, StartIs
<1> HIDE DEF o
<1>2. q \in Seq(Chain) /\ Len(q) = 1 /\ q[1] = o
  BY <1>1
<1> HIDE DEF q
<1>3. \A i \in 1 .. Len(q) : i = 1 /\ q[i] = o
  BY <1>2
<1>4. ASSUME NEW c \in Counted
      PROVE  c \in ToSet(f) <=>
               \/ Earlier(c.origin, n)
               \/ c.origin = Shocked[n] /\ \A i \in 1 .. Len(q) : ~Shorter(q[i], c)
  <2>1. ASSUME c.origin = Shocked[n]
        PROVE  Shorter(q[1], c) /\ 1 \in 1 .. Len(q)
    <3>1. c \in Chain /\ c.stakes # <<>>
      BY CountedIs DEF IsChain
    <3>2. Len(c.stakes) \in Nat \ {0}
      BY <3>1 DEF Chain
    <3> QED
      BY <1>1, <1>2, <2>1, <3>2 DEF Shorter, LeadsTo
  <2> QED
    BY <2>1
<1>5. \A i \in 1 .. Len(q) : q[i] = Start(Shocked[n]) /\ q[i].origin = Shocked[n]
  BY <1>1, <1>3 DEF o
<1>6. \A i, j \in 1 .. Len(q) : LeadsTo(q[i], q[j]) => i = j
  BY <1>3
<1>7. InHand(n, q, f)
  BY <1>4, <1>5, <1>6 DEF InHand
<1> QED
  BY <1>2, <1>7 DEF q, o

(* What one turn of the loop has on the stack and has found.               *)
StackAfter(q) == Front(q) \o SetToSeq(Extensions(Last(q)))

FoundAfter(q, f) == f \o SetToSeq(Extensions(Last(q)))

LEMMA Extended ==
    ASSUME stakes \subseteq Stakes, NEW n \in 1 .. Len(Shocked),
           NEW q \in Seq(Chain), q # <<>>, NEW f \in Seq(Chain),
           ToSet(f) \subseteq Counted, IsInjective(f), InHand(n, q, f)
    PROVE  /\ StackAfter(q) \in Seq(Chain) /\ FoundAfter(q, f) \in Seq(Chain)
           /\ ToSet(FoundAfter(q, f)) \subseteq Counted /\ IsInjective(FoundAfter(q, f))
           /\ InHand(n, StackAfter(q), FoundAfter(q, f))
<1> DEFINE r == StackAfter(q)
           g == FoundAfter(q, f)
           p == Last(q)
           E == Extensions(p)
           o == Shocked[n]
           k == Len(q)
           F == Front(q)
<1>1. /\ F \in Seq(Chain) /\ k \in Nat \ {0} /\ Len(F) = k - 1 /\ p = q[k] /\ p \in Chain
      /\ \A i \in 1 .. k - 1 : F[i] = q[i] /\ q[i] \in Chain
  <2>1. \A i \in 1 .. k : q[i] \in Chain
    OBVIOUS
  <2> HIDE DEF p, E, k, F
  <2>2. /\ F \in Seq(Chain) /\ k \in Nat \ {0} /\ Len(F) = k - 1 /\ p = q[k] /\ p \in Chain
        /\ \A i \in 1 .. k - 1 : F[i] = q[i]
    BY FrontIs DEF p, k, F
  <2>3. \A i \in 1 .. k - 1 : i \in 1 .. k
    BY <2>2
  <2> QED
    BY <2>1, <2>2, <2>3
<1>2. p.origin = o /\ (p = Start(o) \/ p \in Counted)
  BY <1>1 DEF InHand
<1>3. ASSUME NEW e \in E
      PROVE  /\ e \in Counted /\ e \in Chain /\ Shorter(p, e) /\ LeadsTo(p, e)
             /\ e.origin = o /\ Len(e.stakes) = Len(p.stakes) + 1
  <2>1. e \in Counted
    BY <1>2, ExtensionCounted, Origins
  <2>2. e \in Chain /\ Shorter(p, e) /\ Len(e.stakes) = Len(p.stakes) + 1
    BY <1>1, ExtensionIs
  <2> QED
    BY <1>2, <2>1, <2>2 DEF Shorter, LeadsTo
<1>4. IsFiniteSet(E) /\ E \subseteq Chain
  BY <1>1, ExtensionsFinite
<1>5. r = F \o SetToSeq(E) /\ g = f \o SetToSeq(E)
  BY DEF StackAfter, FoundAfter
<1> HIDE DEF p, E, k, F, r, g
<1>6. /\ r \in Seq(Chain) /\ Len(r) \in Nat /\ k - 1 <= Len(r)
      /\ \A i \in 1 .. k - 1 : r[i] = q[i]
      /\ \A i \in k .. Len(r) : r[i] \in E
      /\ \A x \in E : \E i \in k .. Len(r) : r[i] = x
      /\ \A i, j \in k .. Len(r) : r[i] = r[j] => i = j
  <2>1. Len(F) + 1 = k
    BY <1>1
  <2>2. r \in Seq(Chain) /\ Lists(r, F, E)
    BY <1>1, <1>4, <1>5, Joined
  <2>3. /\ Len(r) \in Nat /\ Len(F) <= Len(r)
        /\ \A i \in 1 .. Len(F) : r[i] = F[i]
        /\ \A i \in k .. Len(r) : r[i] \in E
        /\ \A x \in E : \E i \in k .. Len(r) : r[i] = x
        /\ \A i, j \in k .. Len(r) : r[i] = r[j] => i = j
    BY <2>1, <2>2 DEF Lists
  <2> QED
    BY <1>1, <2>2, <2>3
<1>7. /\ g \in Seq(Chain) /\ Len(g) \in Nat /\ Len(f) \in Nat /\ Len(f) <= Len(g)
      /\ \A i \in 1 .. Len(f) : g[i] = f[i]
      /\ \A i \in Len(f) + 1 .. Len(g) : g[i] \in E
      /\ \A x \in E : \E i \in Len(f) + 1 .. Len(g) : g[i] = x
      /\ \A i, j \in Len(f) + 1 .. Len(g) : g[i] = g[j] => i = j
  <2>1. g \in Seq(Chain) /\ Lists(g, f, E)
    BY <1>4, <1>5, Joined
  <2> QED
    BY <2>1, Zenon DEF Lists
<1>8. /\ DOMAIN f = 1 .. Len(f) /\ DOMAIN g = 1 .. Len(g)
      /\ \A i \in 1 .. Len(g) : i \in 1 .. Len(f) \/ i \in Len(f) + 1 .. Len(g)
      /\ \A i \in 1 .. Len(f) : i \in 1 .. Len(g)
      /\ \A i \in Len(f) + 1 .. Len(g) : i \in 1 .. Len(g)
  BY <1>7
<1>9. ToSet(g) = ToSet(f) \cup E
  <2>1. ASSUME NEW x \in ToSet(g)
        PROVE  x \in ToSet(f) \cup E
    <3>1. PICK i \in 1 .. Len(g) : x = g[i]
      BY <1>8 DEF ToSet
    <3> QED
      BY <1>7, <1>8, <3>1 DEF ToSet
  <2>2. ASSUME NEW x \in ToSet(f)
        PROVE  x \in ToSet(g)
    <3>1. PICK i \in 1 .. Len(f) : x = f[i]
      BY <1>8 DEF ToSet
    <3> QED
      BY <1>7, <1>8, <3>1 DEF ToSet
  <2>3. ASSUME NEW x \in E
        PROVE  x \in ToSet(g)
    <3>1. PICK i \in Len(f) + 1 .. Len(g) : x = g[i]
      BY <1>7
    <3> QED
      BY <1>8, <3>1 DEF ToSet
  <2> QED
    BY <2>1, <2>2, <2>3
<1>10. /\ k \in 1 .. k
       /\ \A i \in 1 .. k : (q[i] = Start(o) \/ q[i] \in Counted) /\ q[i].origin = o
       /\ \A i, j \in 1 .. k : LeadsTo(q[i], q[j]) => i = j
  BY <1>1 DEF InHand, k
<1>11. E \cap ToSet(f) = {}
  <2> SUFFICES ASSUME NEW e \in E, e \in ToSet(f)
               PROVE  FALSE
    OBVIOUS
  <2>1. ~Earlier(e.origin, n)
    BY <1>3, Origins
  <2>2. \A i \in 1 .. Len(q) : ~Shorter(q[i], e)
    BY <1>3, <2>1 DEF InHand
  <2> QED
    BY <1>1, <1>3, <1>10, <2>2 DEF k
<1>12. IsInjective(g)
  <2> SUFFICES ASSUME NEW i \in 1 .. Len(g), NEW j \in 1 .. Len(g), g[i] = g[j]
               PROVE  i = j
    BY <1>8 DEF IsInjective
  <2>1. CASE i \in 1 .. Len(f) /\ j \in 1 .. Len(f)
    BY <1>7, <1>8, <2>1 DEF IsInjective
  <2>2. CASE i \in Len(f) + 1 .. Len(g) /\ j \in Len(f) + 1 .. Len(g)
    BY <1>7, <2>2
  <2>3. ASSUME NEW a \in 1 .. Len(f), NEW b \in Len(f) + 1 .. Len(g), g[a] = g[b]
        PROVE  FALSE
    <3>1. g[b] \in E /\ g[a] \in ToSet(f)
      BY <1>7, <1>8 DEF ToSet
    <3> QED
      BY <1>11, <2>3, <3>1
  <2> QED
    BY <1>8, <2>1, <2>2, <2>3
(* No chain that stays on the stack leads to an extension, or is led to by *)
(* one.                                                                    *)
<1>13. ASSUME NEW i \in 1 .. k - 1, NEW e \in E
       PROVE  ~LeadsTo(q[i], e) /\ ~LeadsTo(e, q[i])
  <2>1. i \in 1 .. k /\ i # k /\ q[i] \in Chain
    BY <1>1
  <2>2. ~LeadsTo(q[i], p) /\ ~LeadsTo(p, q[i])
    BY <1>1, <1>10, <2>1 DEF InHand, k
  <2>3. Len(q[i].stakes) \in Nat /\ Len(p.stakes) \in Nat
    BY <1>1, <2>1, PathIs
  <2>4. ASSUME LeadsTo(q[i], e)
        PROVE  FALSE
    BY <1>1, <1>3, <2>1, <2>2, <2>3, <2>4, LeadsToBetween
  <2>5. ASSUME LeadsTo(e, q[i])
        PROVE  FALSE
    BY <1>1, <1>3, <2>1, <2>2, <2>5, LeadsToTransitive
  <2> QED
    BY <2>4, <2>5
<1>14. \A i \in 1 .. Len(r) : i \in 1 .. k - 1 \/ i \in k .. Len(r)
  BY <1>1, <1>6
<1>15. \A i \in 1 .. k - 1 : i \in 1 .. k /\ i \in 1 .. Len(r)
  BY <1>1, <1>6
<1>16. \A i \in k .. Len(r) : i \in 1 .. Len(r)
  BY <1>1, <1>6
<1>17. \A i \in 1 .. Len(r) : (r[i] = Start(o) \/ r[i] \in Counted) /\ r[i].origin = o
  <2> TAKE i \in 1 .. Len(r)
  <2>1. CASE i \in 1 .. k - 1
    BY <1>6, <1>10, <1>15, <2>1
  <2>2. CASE i \in k .. Len(r)
    BY <1>3, <1>6, <2>2
  <2> QED
    BY <1>14, <2>1, <2>2
<1>18. \A i, j \in 1 .. Len(r) : LeadsTo(r[i], r[j]) => i = j
  <2> SUFFICES ASSUME NEW i \in 1 .. Len(r), NEW j \in 1 .. Len(r), LeadsTo(r[i], r[j])
               PROVE  i = j
    OBVIOUS
  <2>0. LeadsTo(r[i], r[j])
    OBVIOUS
  <2>1. CASE i \in 1 .. k - 1 /\ j \in 1 .. k - 1
    BY <1>6, <1>15, <1>10, <2>1
  <2>2. CASE i \in k .. Len(r) /\ j \in k .. Len(r)
    <3>1. r[i] \in E /\ r[j] \in E
      BY <1>6, <2>2
    <3>2. /\ Len(r[i].stakes) = Len(p.stakes) + 1
          /\ Len(r[j].stakes) = Len(p.stakes) + 1
          /\ Len(p.stakes) \in Nat
      BY <1>1, <1>3, <3>1, PathIs
    <3>4. Len(r[j].stakes) <= Len(r[i].stakes)
      BY <3>2
    <3>3. r[i] = r[j]
      BY <1>3, <2>0, <3>1, <3>4, LeadsToEqual
    <3> QED
      BY <1>6, <2>2, <3>3
  <2>3. CASE i \in 1 .. k - 1 /\ j \in k .. Len(r)
    BY <1>6, <1>13, <2>3
  <2>4. CASE i \in k .. Len(r) /\ j \in 1 .. k - 1
    BY <1>6, <1>13, <2>4
  <2> QED
    BY <1>14, <2>1, <2>2, <2>3, <2>4
<1>19. ASSUME NEW c \in Counted
       PROVE  c \in ToSet(g) <=>
                \/ Earlier(c.origin, n)
                \/ c.origin = o /\ \A i \in 1 .. Len(r) : ~Shorter(r[i], c)
  <2>0. c \in Chain /\ Len(c.stakes) \in Nat /\ Len(p.stakes) \in Nat
    BY <1>1, CountedIs, PathIs
  <2>1. c \in ToSet(f) <=>
          \/ Earlier(c.origin, n)
          \/ c.origin = o /\ \A i \in 1 .. k : ~Shorter(q[i], c)
    BY DEF InHand, k
  <2>2. ASSUME c \in ToSet(f), ~Earlier(c.origin, n)
        PROVE  c.origin = o /\ \A i \in 1 .. Len(r) : ~Shorter(r[i], c)
    <3>1. c.origin = o /\ \A i \in 1 .. k : ~Shorter(q[i], c)
      BY <2>1, <2>2
    <3>2. ASSUME NEW i \in 1 .. Len(r), Shorter(r[i], c)
          PROVE  FALSE
      <4>1. CASE i \in 1 .. k - 1
        BY <1>6, <1>15, <3>1, <3>2, <4>1
      <4>2. CASE i \in k .. Len(r)
        <5>1. r[i] \in E /\ LeadsTo(r[i], c)
          BY <1>6, <3>2, <4>2 DEF Shorter
        <5>2. LeadsTo(p, c)
          BY <1>1, <1>3, <2>0, <5>1, LeadsToTransitive
        <5>3. Len(p.stakes) < Len(c.stakes)
          <6>1. Len(r[i].stakes) = Len(p.stakes) + 1
            BY <1>3, <5>1
          <6>2. Len(r[i].stakes) < Len(c.stakes)
            BY <3>2 DEF Shorter
          <6> QED
            BY <2>0, <6>1, <6>2
        <5> QED
          BY <1>1, <1>10, <3>1, <5>2, <5>3 DEF Shorter
      <4> QED
        BY <1>14, <4>1, <4>2
    <3> QED
      BY <3>1, <3>2
  <2>3. ASSUME c \in E
        PROVE  c.origin = o /\ \A i \in 1 .. Len(r) : ~Shorter(r[i], c)
    <3>1. ASSUME NEW i \in 1 .. Len(r), Shorter(r[i], c)
          PROVE  FALSE
      <4>1. CASE i \in 1 .. k - 1
        BY <1>6, <1>13, <2>3, <3>1, <4>1 DEF Shorter
      <4>2. CASE i \in k .. Len(r)
        <5>1. r[i] \in E
          BY <1>6, <4>2
        <5> QED
          BY <1>3, <2>0, <2>3, <3>1, <5>1 DEF Shorter
      <4> QED
        BY <1>14, <4>1, <4>2
    <3> QED
      BY <1>3, <2>3, <3>1
  <2>4. ASSUME c.origin = o, \A i \in 1 .. Len(r) : ~Shorter(r[i], c)
        PROVE  c \in ToSet(g)
    <3>1. CASE Shorter(p, c)
      <4>1. PICK e \in E : LeadsTo(e, c)
        BY <1>1, <3>1, ExtensionOnTheWay DEF E
      <4>2. PICK i \in k .. Len(r) : r[i] = e
        BY <1>6
      <4>3. ~Shorter(e, c)
        BY <1>16, <2>4, <4>2
      <4>4. Len(c.stakes) <= Len(e.stakes)
        BY <1>3, <2>0, <4>1, <4>3 DEF Shorter
      <4>5. c = e
        BY <1>3, <2>0, <4>1, <4>4, LeadsToEqual
      <4> QED
        BY <1>9, <4>5
    <3>2. CASE ~Shorter(p, c)
      <4>1. \A i \in 1 .. k : i = k \/ i \in 1 .. k - 1
        BY <1>1
      <4>2. \A i \in 1 .. k : ~Shorter(q[i], c)
        BY <1>1, <1>6, <1>15, <2>4, <3>2, <4>1
      <4> QED
        BY <1>9, <2>1, <2>4, <4>2
    <3> QED
      BY <3>1, <3>2
  <2> QED
    BY <1>9, <2>1, <2>2, <2>3, <2>4
<1>20. ToSet(g) \subseteq Counted
  BY <1>3, <1>9
<1>21. InHand(n, r, g)
  BY <1>17, <1>18, <1>19 DEF InHand
<1> QED
  BY <1>6, <1>7, <1>12, <1>20, <1>21 DEF r, g

-----------------------------------------------------------------------------
(***************************************************************************)
(* Distances.                                                              *)
(***************************************************************************)

(* Within as far as m hops.                                                *)
IsWithin(A, d, o, m) ==
    A = [k \in 0 .. m |->
           IF k = 0 THEN {o}
           ELSE A[k - 1] \cup UNION {Neighbours(d, x) : x \in A[k - 1]}]

LEMMA WithinExists ==
    ASSUME NEW d, NEW o, NEW m \in Nat
    PROVE  \E A : IsWithin(A, d, o, m)
<1> DEFINE Without == {k \in Nat : ~ \E A : IsWithin(A, d, o, k)}
           More(S) == S \cup UNION {Neighbours(d, x) : x \in S}
<1>1. SUFFICES ASSUME Without # {} PROVE FALSE
  OBVIOUS
<1>2. PICK k \in Without : \A j \in Without : k <= j
  <2> HIDE DEF Without
  <2>1. Without \in SUBSET Nat
    BY DEF Without
  <2> QED
    BY <1>1, <2>1, LeastNumber
<1>3. CASE k = 0
  <2> DEFINE A == [n \in 0 .. 0 |-> {o}]
  <2>1. A = [n \in 0 .. 0 |-> IF n = 0 THEN {o} ELSE More(A[n - 1])]
    OBVIOUS
  <2> QED
    BY <1>3, <2>1 DEF IsWithin
<1>4. CASE k # 0
  <2>1. k - 1 \in Nat /\ k - 1 \notin Without
    BY <1>2, <1>4
  <2>2. PICK A : IsWithin(A, d, o, k - 1)
    BY <2>1
  <2>3. A = [n \in 0 .. k - 1 |-> IF n = 0 THEN {o} ELSE More(A[n - 1])]
    BY <2>2 DEF IsWithin
  <2> HIDE DEF More
  <2> DEFINE B == [n \in 0 .. k |-> IF n = k THEN More(A[k - 1]) ELSE A[n]]
  <2>4. ASSUME NEW n \in 0 .. k
        PROVE  B[n] = IF n = 0 THEN {o} ELSE More(B[n - 1])
    <3>1. CASE n = k
      <4>1. B[n] = More(A[k - 1]) /\ B[n - 1] = A[k - 1] /\ n # 0
        BY <1>2, <1>4, <3>1
      <4> QED
        BY <3>1, <4>1
    <3>2. CASE n # k
      <4>1. n \in 0 .. k - 1 /\ B[n] = A[n]
        BY <1>2, <3>2
      <4>2. n # 0 => n - 1 \in 0 .. k /\ n - 1 # k /\ B[n - 1] = A[n - 1]
        BY <1>2, <3>2
      <4>3. A[n] = IF n = 0 THEN {o} ELSE More(A[n - 1])
        BY <2>3, <4>1
      <4> QED
        BY <4>1, <4>2, <4>3
    <3> QED
      BY <3>1, <3>2
  <2>5. B = [n \in 0 .. k |-> IF n = 0 THEN {o} ELSE More(B[n - 1])]
    BY <2>4
  <2> HIDE DEF B
  <2>6. IsWithin(B, d, o, k)
    BY <2>5 DEF IsWithin, More
  <2> QED
    BY <1>2, <2>6
<1> QED
  BY <1>3, <1>4

LEMMA WithinIs ==
    ASSUME NEW d, NEW o
    PROVE  /\ MaxReach \in Nat /\ Within(d, o)[0] = {o}
           /\ \A k \in 1 .. MaxReach :
                Within(d, o)[k] =
                  Within(d, o)[k - 1] \cup UNION {Neighbours(d, x) : x \in Within(d, o)[k - 1]}
<1>1. MaxReach \in Nat
  BY BoundsAssumption
<1>2. \E A : IsWithin(A, d, o, MaxReach)
  BY <1>1, WithinExists
<1>3. Within(d, o) = CHOOSE A : IsWithin(A, d, o, MaxReach)
  BY DEF Within, IsWithin
<1>4. IsWithin(Within(d, o), d, o, MaxReach)
  BY <1>2, <1>3
<1> DEFINE W == Within(d, o)
<1>5. W = [k \in 0 .. MaxReach |->
             IF k = 0 THEN {o}
             ELSE W[k - 1] \cup UNION {Neighbours(d, x) : x \in W[k - 1]}]
  BY <1>4 DEF IsWithin
<1> HIDE DEF W
<1>6. 0 \in 0 .. MaxReach /\ \A k \in 1 .. MaxReach : k \in 0 .. MaxReach /\ k # 0
  BY <1>1
<1>7. W[0] = {o}
  BY <1>5, <1>6
<1>8. \A k \in 1 .. MaxReach :
        W[k] = W[k - 1] \cup UNION {Neighbours(d, x) : x \in W[k - 1]}
  BY <1>5, <1>6
<1> QED
  BY <1>1, <1>7, <1>8 DEF W

(* Nobody leaves as the bound grows.                                       *)
LEMMA WithinGrows ==
    ASSUME NEW d, NEW o, NEW j \in 0 .. MaxReach, NEW k \in j .. MaxReach
    PROVE  Within(d, o)[j] \subseteq Within(d, o)[k]
<1> DEFINE W == Within(d, o)
           Wrong == {n \in j .. MaxReach : ~(W[j] \subseteq W[n])}
<1>0. MaxReach \in Nat
  BY BoundsAssumption
<1>1. SUFFICES ASSUME Wrong # {} PROVE FALSE
  OBVIOUS
<1>2. PICK n \in Wrong : \A m \in Wrong : n <= m
  <2> HIDE DEF Wrong
  <2>1. Wrong \in SUBSET Nat
    BY <1>0 DEF Wrong
  <2> QED
    BY <1>1, <2>1, LeastNumber
<1>3. n # j /\ n \in j .. MaxReach
  BY <1>2
<1>4. n - 1 \in j .. MaxReach /\ n - 1 \notin Wrong /\ n \in 1 .. MaxReach
  <2>1. n - 1 \in j .. MaxReach /\ n \in 1 .. MaxReach /\ ~(n <= n - 1)
    BY <1>0, <1>3
  <2> QED
    BY <1>2, <2>1
<1>5. W[j] \subseteq W[n - 1]
  BY <1>4
<1>6. W[n - 1] \subseteq W[n]
  BY <1>4, WithinIs
<1> QED
  BY <1>2, <1>5, <1>6

LEMMA NeighboursAreNames ==
    ASSUME controls \subseteq Controls, NEW d, NEW x
    PROVE  Neighbours(d, x) \subseteq Names /\ IsFiniteSet(Neighbours(d, x))
<1>1. IsFiniteSet(controls) /\ \A e \in controls : e[1] \in Names /\ e[2] \in Names
  BY EdgesAssumption, FS_Subset
<1> DEFINE U == {e \in controls : e[2] = x}
           V == {e \in controls : e[1] = x}
<1>2. IsFiniteSet(U) /\ IsFiniteSet(V)
  BY <1>1, FS_Subset
<1>3. IsFiniteSet({e[1] : e \in U})
  <2> DEFINE f == [e \in U |-> e[1]]
  <2>1. f \in Surjection(U, {e[1] : e \in U})
    BY DEF Surjection
  <2> HIDE DEF U, f
  <2> QED
    BY <1>2, <2>1, FS_Surjection
<1>4. IsFiniteSet({e[2] : e \in V})
  <2> DEFINE f == [e \in V |-> e[2]]
  <2>1. f \in Surjection(V, {e[2] : e \in V})
    BY DEF Surjection
  <2> HIDE DEF V, f
  <2> QED
    BY <1>2, <2>1, FS_Surjection
<1>5. Neighbours(d, x) = IF d = "up" THEN {e[1] : e \in U} ELSE {e[2] : e \in V}
  BY DEF Neighbours
<1>6. {e[1] : e \in U} \subseteq Names /\ {e[2] : e \in V} \subseteq Names
  BY <1>1
<1> HIDE DEF U, V
<1> QED
  BY <1>3, <1>4, <1>5, <1>6

LEMMA WithinUnchanged ==
    ASSUME UNCHANGED controls, NEW d, NEW o
    PROVE  Within(d, o)' = Within(d, o) /\ \A x : Neighbours(d, x)' = Neighbours(d, x)
BY DEF Within, Neighbours

-----------------------------------------------------------------------------
(***************************************************************************)
(* The breadth-first search.                                               *)
(***************************************************************************)

(* Whoever is met within so many hops has no more of them.                 *)
LEMMA HopsLeast ==
    ASSUME NEW d, NEW o, NEW s, HopsRight(d, o, s),
           NEW x \in Known(s, o), NEW j \in 0 .. MaxReach, x \in Within(d, o)[j]
    PROVE  Hops(s, o, x) \in 0 .. j
<1>0. MaxReach \in Nat
  BY BoundsAssumption
<1>1. CASE x = o
  BY <1>1 DEF Hops
<1>2. CASE x # o
  <2>1. /\ x \in DOMAIN s /\ Hops(s, o, x) = s[x] /\ s[x] \in 1 .. MaxReach
        /\ x \notin Within(d, o)[s[x] - 1]
    BY <1>2 DEF Known, Hops, HopsRight
  <2>2. ASSUME s[x] > j
        PROVE  FALSE
    <3>1. s[x] - 1 \in j .. MaxReach
      BY <1>0, <2>1, <2>2
    <3> QED
      BY <2>1, <3>1, WithinGrows
  <2> QED
    BY <1>0, <2>1, <2>2
<1> QED
  BY <1>1, <1>2

(* When only those at h hops or beyond wait, all within h have been met.   *)
LEMMA Reached ==
    ASSUME NEW d, NEW o, NEW s, NEW q, HopsRight(d, o, s), Searching(d, o, s, q),
           NEW h \in 0 .. MaxReach, \A j \in 1 .. Len(q) : q[j][2] >= h
    PROVE  Within(d, o)[h] \subseteq Known(s, o)
<1> DEFINE W == Within(d, o)
           Wrong == {n \in 0 .. h : ~(W[n] \subseteq Known(s, o))}
<1>0. MaxReach \in Nat
  BY BoundsAssumption
<1>1. SUFFICES ASSUME Wrong # {} PROVE FALSE
  BY <1>0
<1>2. PICK n \in Wrong : \A m \in Wrong : n <= m
  <2> HIDE DEF Wrong
  <2>1. Wrong \in SUBSET Nat
    BY <1>0 DEF Wrong
  <2> QED
    BY <1>1, <2>1, LeastNumber
<1>3. n # 0
  BY <1>2, WithinIs DEF Known
<1>4. n - 1 \in 0 .. h /\ n - 1 \in 0 .. MaxReach /\ n \in 1 .. MaxReach /\ n - 1 \notin Wrong
  <2>1. n \in 0 .. h
    BY <1>2
  <2>2. n - 1 \in 0 .. h /\ n - 1 \in 0 .. MaxReach /\ n \in 1 .. MaxReach /\ ~(n <= n - 1)
    BY <1>0, <1>3, <2>1
  <2> QED
    BY <1>2, <2>2
<1>5. W[n - 1] \subseteq Known(s, o)
  BY <1>4
<1>6. ASSUME NEW x \in W[n - 1]
      PROVE  Neighbours(d, x) \subseteq Known(s, o)
  <2>1. x \in Known(s, o) /\ Hops(s, o, x) \in 0 .. n - 1
    BY <1>4, <1>5, <1>6, HopsLeast
  <2>2. Hops(s, o, x) < h /\ Hops(s, o, x) < MaxReach
    BY <1>0, <1>2, <1>4, <2>1
  <2>3. ~Waiting(q, x)
    <3> SUFFICES ASSUME NEW j \in 1 .. Len(q), q[j][1] = x
                 PROVE  FALSE
      BY DEF Waiting
    <3>1. q[j][2] = Hops(s, o, x)
      BY DEF Searching
    <3> QED
      BY <1>0, <2>1, <2>2, <3>1
  <2> QED
    BY <2>1, <2>2, <2>3 DEF Searching
<1>7. W[n] = W[n - 1] \cup UNION {Neighbours(d, x) : x \in W[n - 1]}
  BY <1>4, WithinIs
<1>8. W[n] \subseteq Known(s, o)
  BY <1>5, <1>6, <1>7
<1> QED
  BY <1>2, <1>8

(* A search begins with its origin.                                        *)
LEMMA SearchBegun ==
    ASSUME NEW d, NEW o, NEW s, DOMAIN s = {}
    PROVE  HopsRight(d, o, s) /\ Searching(d, o, s, <<<<o, 0>>>>)
<1> DEFINE q == <<<<o, 0>>>>
<1>1. Len(q) = 1 /\ q[1] = <<o, 0>>
  OBVIOUS
<1>2. Known(s, o) = {o} /\ Hops(s, o, o) = 0
  BY DEF Known, Hops
<1> HIDE DEF q
<1>3. \A j \in 1 .. Len(q) : j = 1 /\ q[j][1] = o /\ q[j][2] = 0
  BY <1>1
<1>4. Waiting(q, o)
  <2>1. 1 \in 1 .. Len(q)
    BY <1>1
  <2> QED
    BY <1>3, <2>1 DEF Waiting
<1>5. /\ \A j \in 1 .. Len(q) : q[j][1] \in Known(s, o) /\ q[j][2] = Hops(s, o, q[j][1])
      /\ \A x \in Known(s, o) : Waiting(q, x)
  BY <1>2, <1>3, <1>4
<1>6. \A j, k \in 1 .. Len(q) : ~(j < k)
  BY <1>3
<1>7. Searching(d, o, s, q)
  BY <1>5, <1>6 DEF Searching
<1> QED
  BY <1>7 DEF HopsRight, q

LEMMA TailIs ==
    ASSUME NEW T, NEW q \in Seq(T), q # <<>>
    PROVE  /\ Len(q) \in Nat \ {0} /\ 1 \in 1 .. Len(q)
           /\ Head(q) = q[1] /\ Head(q) \in T /\ \A j \in 1 .. Len(q) : q[j] \in T
           /\ Tail(q) \in Seq(T) /\ Len(Tail(q)) = Len(q) - 1
           /\ \A j \in 1 .. Len(q) - 1 : Tail(q)[j] = q[j + 1]
<1>1. Len(q) \in Nat \ {0} /\ \A j \in 1 .. Len(q) : q[j] \in T
  OBVIOUS
<1>2. Head(q) = q[1]
  OBVIOUS
<1> QED
  BY <1>1, <1>2, HeadTailProperties

(* What one turn of the search meets, and then has seen and waiting.       *)
Met(d, o, s, q) ==
    IF Head(q)[2] >= MaxReach THEN {}
    ELSE {x \in Neighbours(d, Head(q)[1]) : x # o /\ x \notin DOMAIN s}

SeenAfter(d, o, s, q) ==
    [x \in DOMAIN s \cup Met(d, o, s, q) |->
       IF x \in Met(d, o, s, q) THEN Head(q)[2] + 1 ELSE s[x]]

QueueAfter(d, o, s, q) ==
    Tail(q) \o SetToSeq({<<x, Head(q)[2] + 1>> : x \in Met(d, o, s, q)})

LEMMA Visited ==
    ASSUME controls \subseteq Controls, NEW d, NEW o \in Names, NEW s,
           NEW q \in Seq(Names \X (0 .. MaxReach)), q # <<>>,
           HopsRight(d, o, s), Searching(d, o, s, q)
    PROVE  /\ QueueAfter(d, o, s, q) \in Seq(Names \X (0 .. MaxReach))
           /\ HopsRight(d, o, SeenAfter(d, o, s, q))
           /\ Searching(d, o, SeenAfter(d, o, s, q), QueueAfter(d, o, s, q))
<1> DEFINE name == Head(q)[1]
           depth == Head(q)[2]
           new == Met(d, o, s, q)
           t == SeenAfter(d, o, s, q)
           r == QueueAfter(d, o, s, q)
           l == Len(q)
           W == Within(d, o)
           R == Tail(q)
           E == {<<x, depth + 1>> : x \in new}
<1>0. MaxReach \in Nat
  BY BoundsAssumption
<1>1. /\ l \in Nat \ {0} /\ 1 \in 1 .. l /\ Head(q) = q[1]
      /\ Head(q) \in Names \X (0 .. MaxReach)
      /\ R \in Seq(Names \X (0 .. MaxReach)) /\ Len(R) = l - 1
      /\ \A j \in 1 .. l - 1 : R[j] = q[j + 1]
  BY TailIs
<1>2. /\ name \in Names /\ depth \in 0 .. MaxReach /\ name = q[1][1] /\ depth = q[1][2]
      /\ depth \in Int /\ depth + 1 \in Int
  BY <1>0, <1>1
<1>3. name \in Known(s, o) /\ depth = Hops(s, o, name)
  BY <1>1, <1>2 DEF Searching
<1>4. /\ new \subseteq Names /\ IsFiniteSet(new)
      /\ new \cap Known(s, o) = {} /\ new \subseteq Neighbours(d, name)
      /\ depth >= MaxReach => new = {}
      /\ depth < MaxReach => Neighbours(d, name) \subseteq Known(s, o) \cup new
  <2>1. new \subseteq Neighbours(d, name) /\ new \cap Known(s, o) = {}
    BY DEF Known, Met
  <2>2. new \subseteq Names /\ IsFiniteSet(new)
    BY <2>1, NeighboursAreNames, FS_Subset
  <2>3. depth >= MaxReach => new = {}
    BY DEF Met
  <2>4. depth < MaxReach => Neighbours(d, name) \subseteq Known(s, o) \cup new
    BY <1>0, <1>2 DEF Known, Met
  <2> QED
    BY <2>1, <2>2, <2>3, <2>4
<1> HIDE DEF new
<1>5. /\ DOMAIN t = DOMAIN s \cup new
      /\ \A x \in new : t[x] = depth + 1
      /\ \A x \in DOMAIN s \ new : t[x] = s[x]
  BY DEF SeenAfter, new
<1>6. r = R \o SetToSeq(E)
  BY DEF QueueAfter, new
<1> HIDE DEF t, r
<1>7. IsFiniteSet(E)
  <2> DEFINE f == [x \in new |-> <<x, depth + 1>>]
  <2>1. f \in Surjection(new, E)
    BY DEF Surjection
  <2> HIDE DEF f
  <2> QED
    BY <1>4, <2>1, FS_Surjection
<1>8. \A e \in E : e[1] \in new /\ e[2] = depth + 1
  OBVIOUS
<1>9. \A x \in new : <<x, depth + 1>> \in E
  OBVIOUS
<1>10. E \subseteq Names \X (0 .. MaxReach)
  BY <1>0, <1>2, <1>4
<1>11. \A j \in 1 .. l : depth <= q[j][2] /\ q[j][2] <= depth + 1 /\ q[j] \in Names \X (0 .. MaxReach)
  <2> TAKE j \in 1 .. l
  <2>1. q[j] \in Names \X (0 .. MaxReach)
    OBVIOUS
  <2>2. CASE j = 1
    BY <1>0, <1>2, <2>1, <2>2
  <2>3. CASE j # 1
    <3>1. 1 < j
      BY <1>1, <2>3
    <3> QED
      BY <1>1, <1>2, <2>1, <3>1 DEF Searching
  <2> QED
    BY <2>2, <2>3
<1>12. W[depth] \subseteq Known(s, o)
  <2>1. \A j \in 1 .. Len(q) : q[j][2] >= depth
    BY <1>0, <1>2, <1>11
  <2> QED
    BY <1>2, <2>1, Reached
<1>13. name \in W[depth]
  <2>1. CASE name = o
    BY <1>3, <2>1, WithinIs DEF Hops
  <2>2. CASE name # o
    BY <1>3, <2>2 DEF Hops, Known, HopsRight
  <2> QED
    BY <2>1, <2>2
<1>14. /\ Known(t, o) = Known(s, o) \cup new
       /\ \A x \in new : Hops(t, o, x) = depth + 1
       /\ \A x \in Known(s, o) : Hops(t, o, x) = Hops(s, o, x)
  BY <1>4, <1>5 DEF Known, Hops
<1> HIDE DEF name, depth, l, R, E
<1>15. /\ r \in Seq(Names \X (0 .. MaxReach)) /\ Len(r) \in Nat /\ l - 1 <= Len(r)
       /\ \A j \in 1 .. l - 1 : r[j] = q[j + 1]
       /\ \A j \in l .. Len(r) : r[j] \in E
       /\ \A x \in E : \E j \in l .. Len(r) : r[j] = x
  <2>1. r \in Seq(Names \X (0 .. MaxReach)) /\ Lists(r, R, E)
    BY <1>1, <1>6, <1>7, <1>10, Joined
  <2>2. Len(R) + 1 = l
    BY <1>1
  <2>3. /\ Len(r) \in Nat /\ Len(R) <= Len(r)
        /\ \A j \in 1 .. Len(R) : r[j] = R[j]
        /\ \A j \in l .. Len(r) : r[j] \in E
        /\ \A x \in E : \E j \in l .. Len(r) : r[j] = x
    BY <2>1, <2>2 DEF Lists
  <2> QED
    BY <1>1, <2>1, <2>3
<1>16. HopsRight(d, o, t)
  <2> SUFFICES ASSUME NEW x \in DOMAIN t
               PROVE  /\ x \in Names \ {o} /\ t[x] \in 1 .. MaxReach
                      /\ x \in W[t[x]] /\ x \notin W[t[x] - 1]
    BY DEF HopsRight
  <2>1. CASE x \in new
    <3>1. depth < MaxReach /\ t[x] = depth + 1 /\ x # o
      BY <1>0, <1>2, <1>4, <1>5, <2>1 DEF Known
    <3>2. depth + 1 \in 1 .. MaxReach /\ (depth + 1) - 1 = depth
      BY <1>0, <1>2, <3>1
    <3>3. W[depth + 1] = W[depth] \cup UNION {Neighbours(d, y) : y \in W[depth]}
      BY <3>2, WithinIs
    <3>4. x \in W[depth + 1]
      BY <1>4, <1>13, <2>1, <3>3
    <3>5. x \notin W[depth]
      BY <1>4, <1>12, <2>1
    <3> QED
      BY <1>4, <2>1, <3>1, <3>2, <3>4, <3>5
  <2>2. CASE x \notin new
    BY <1>5, <2>2 DEF HopsRight
  <2> QED
    BY <2>1, <2>2
<1>17. \A j \in 1 .. Len(r) : j \in 1 .. l - 1 \/ j \in l .. Len(r)
  BY <1>1, <1>15
<1>18. \A j \in 1 .. l - 1 : j + 1 \in 1 .. l /\ r[j] = q[j + 1]
  <2> TAKE j \in 1 .. l - 1
  <2>1. j + 1 \in 1 .. l
    BY <1>1
  <2> QED
    BY <1>15, <2>1
<1>19. \A j \in l .. Len(r) : r[j][1] \in new /\ r[j][2] = depth + 1
  BY <1>8, <1>15
<1>20. \A j \in 1 .. l : q[j][1] \in Known(s, o) /\ q[j][2] = Hops(s, o, q[j][1])
  BY DEF Searching, l
<1>21. ASSUME NEW j \in 1 .. Len(r)
       PROVE  r[j][1] \in Known(t, o) /\ r[j][2] = Hops(t, o, r[j][1])
  <2>1. CASE j \in 1 .. l - 1
    <3>1. j + 1 \in 1 .. l /\ r[j] = q[j + 1]
      BY <1>18, <2>1
    <3>2. q[j + 1][1] \in Known(s, o) /\ q[j + 1][2] = Hops(s, o, q[j + 1][1])
      BY <1>20, <3>1
    <3> QED
      BY <1>14, <3>1, <3>2
  <2>2. CASE j \in l .. Len(r)
    BY <1>14, <1>19, <2>2
  <2> QED
    BY <1>17, <2>1, <2>2
<1>22. ASSUME NEW j \in 1 .. Len(r), NEW k \in 1 .. Len(r), j < k
       PROVE  r[j][2] <= r[k][2] /\ r[k][2] <= r[j][2] + 1
  <2>1. CASE k \in 1 .. l - 1
    <3>0. j \in 1 .. l - 1 /\ j + 1 < k + 1
      BY <1>1, <1>22, <2>1
    <3>1. j + 1 \in 1 .. l /\ k + 1 \in 1 .. l /\ j + 1 < k + 1
          /\ r[j] = q[j + 1] /\ r[k] = q[k + 1]
      BY <1>18, <2>1, <3>0
    <3> QED
      BY <3>1 DEF Searching, l
  <2>2. CASE k \in l .. Len(r) /\ j \in 1 .. l - 1
    <3>1. /\ r[k][2] = depth + 1 /\ depth <= r[j][2] /\ r[j][2] <= depth + 1
          /\ r[j] \in Names \X (0 .. MaxReach)
      BY <1>11, <1>18, <1>19, <2>2
    <3>2. r[j][2] \in Int
      <4>1. r[j][2] \in 0 .. MaxReach
        BY <3>1
      <4> QED
        BY <1>0, <4>1
    <3> DEFINE a == r[j][2]
    <3>3. a \in Int /\ depth <= a /\ a <= depth + 1 /\ r[k][2] = depth + 1
      BY <3>1, <3>2
    <3> HIDE DEF a
    <3>4. a <= r[k][2] /\ r[k][2] <= a + 1
      BY <1>2, <3>3
    <3> QED
      BY <3>4 DEF a
  <2>3. CASE k \in l .. Len(r) /\ j \in l .. Len(r)
    <3>1. r[j][2] = depth + 1 /\ r[k][2] = depth + 1
      BY <1>19, <2>3
    <3> QED
      BY <1>2, <3>1
  <2> QED
    BY <1>17, <2>1, <2>2, <2>3
<1>23. ASSUME NEW x \in Known(t, o), ~Waiting(r, x), Hops(t, o, x) < MaxReach
       PROVE  Neighbours(d, x) \subseteq Known(t, o)
  <2>1. x \notin new
    <3> SUFFICES ASSUME x \in new
                 PROVE  FALSE
      OBVIOUS
    <3>1. PICK j \in l .. Len(r) : r[j] = <<x, depth + 1>>
      BY <1>9, <1>15
    <3>2. j \in 1 .. Len(r) /\ r[j][1] = x
      BY <1>1, <3>1
    <3> QED
      BY <1>23, <3>2 DEF Waiting
  <2>2. x \in Known(s, o) /\ Hops(s, o, x) < MaxReach
    BY <1>14, <1>23, <2>1
  <2>3. CASE x = name
    BY <1>3, <1>4, <1>14, <2>2, <2>3
  <2>4. CASE x # name
    <3>1. ~Waiting(q, x)
      <4> SUFFICES ASSUME NEW j \in 1 .. l, q[j][1] = x
                   PROVE  FALSE
        BY DEF Waiting, l
      <4>1. j # 1
        BY <1>2, <2>4
      <4>2. j - 1 \in 1 .. l - 1 /\ (j - 1) + 1 = j
        BY <1>1, <4>1
      <4>3. j - 1 \in 1 .. Len(r) /\ r[j - 1] = q[j]
        <5>1. r[j - 1] = q[(j - 1) + 1]
          BY <1>18, <4>2
        <5>2. j - 1 \in 1 .. Len(r)
          BY <1>1, <1>15, <4>2
        <5> QED
          BY <4>2, <5>1, <5>2
      <4> QED
        BY <1>23, <4>3 DEF Waiting
    <3>2. Neighbours(d, x) \subseteq Known(s, o)
      BY <2>2, <3>1 DEF Searching
    <3> QED
      BY <1>14, <3>2
  <2> QED
    BY <2>3, <2>4
<1>24. Searching(d, o, t, r)
  BY <1>21, <1>22, <1>23 DEF Searching
<1> QED
  BY <1>15, <1>16, <1>24 DEF t, r

-----------------------------------------------------------------------------
(***************************************************************************)
(* The invariant of the run.                                               *)
(***************************************************************************)

LEMMA CountedUnchanged ==
    ASSUME UNCHANGED stakes
    PROVE  Counted' = Counted
BY DEF Counted, ChainsUpTo, Usable

LEMMA ChainsHeld ==
    ASSUME ChainsInv, UNCHANGED <<stakes, found, stack>>,
           at \in Directions, at' \in {"up", "down", "done"}
    PROVE  ChainsInv'
BY CountedUnchanged DEF ChainsInv, Directions

LEMMA SearchingUnchanged ==
    ASSUME UNCHANGED controls, Searching(at', Shocked[shock'], seen'[at'][shock'], queue')
    PROVE  Searching(at, Origin, seen[at][shock], queue)'
BY DEF Searching, Origin, Known, Hops, Waiting, Neighbours

(* A step that visits nobody keeps what the searches have found, if those  *)
(* that end have found all and the next begins with its origin.            *)
LEMMA SearchMoves ==
    ASSUME SearchInv, UNCHANGED <<controls, seen>>,
           queue' \in Seq(Names \X (0 .. MaxReach)),
           \A d \in Directions, i \in 1 .. Len(Shocked) :
              Ended(d, i)' =>
                 \/ Ended(d, i)
                 \/ Within(d, Shocked[i])[MaxReach] \subseteq Known(seen[d][i], Shocked[i]),
           \A d \in Directions, i \in 1 .. Len(Shocked) :
              ~Ended(d, i)' /\ ~Current(d, i)' => ~Ended(d, i) /\ ~Current(d, i),
           at' \in Directions =>
              DOMAIN seen[at'][shock'] = {} /\ queue' = <<<<Shocked[shock'], 0>>>>
    PROVE  SearchInv'
<1>1. ASSUME NEW d \in Directions, NEW i \in 1 .. Len(Shocked)
      PROVE  /\ HopsRight(d, Shocked[i], seen[d][i])'
             /\ (Ended(d, i) =>
                   Within(d, Shocked[i])[MaxReach] \subseteq Known(seen[d][i], Shocked[i]))'
             /\ (~Ended(d, i) /\ ~Current(d, i) => DOMAIN seen[d][i] = {})'
  <2>1. Within(d, Shocked[i])' = Within(d, Shocked[i]) /\ seen'[d][i] = seen[d][i]
    BY WithinUnchanged
  <2>2. HopsRight(d, Shocked[i], seen[d][i])
    BY DEF SearchInv
  <2>3. HopsRight(d, Shocked[i], seen[d][i])'
    BY <2>1, <2>2 DEF HopsRight
  <2>4. Ended(d, i)' => Within(d, Shocked[i])[MaxReach] \subseteq Known(seen[d][i], Shocked[i])
    BY DEF SearchInv
  <2>5. (Ended(d, i) =>
           Within(d, Shocked[i])[MaxReach] \subseteq Known(seen[d][i], Shocked[i]))'
    BY <2>1, <2>4 DEF Known
  <2>6. ~Ended(d, i)' /\ ~Current(d, i)' => DOMAIN seen[d][i] = {}
    BY DEF SearchInv
  <2>7. (~Ended(d, i) /\ ~Current(d, i) => DOMAIN seen[d][i] = {})'
    BY <2>1, <2>6
  <2> QED
    BY <2>3, <2>5, <2>7
<1>2. (at \in Directions => Searching(at, Origin, seen[at][shock], queue))'
  <2> SUFFICES ASSUME at' \in Directions
               PROVE  Searching(at, Origin, seen[at][shock], queue)'
    OBVIOUS
  <2> DEFINE q == <<<<Shocked[shock'], 0>>>>
  <2>1. queue' = q /\ DOMAIN seen[at'][shock'] = {} /\ seen' = seen
    OBVIOUS
  <2>2. Searching(at', Shocked[shock'], seen[at'][shock'], q)
    BY <2>1, SearchBegun
  <2>3. Searching(at', Shocked[shock'], seen'[at'][shock'], queue')
    BY <2>1, <2>2
  <2> QED
    BY <2>3, SearchingUnchanged
<1>3. (seen = [d \in Directions |-> [i \in 1 .. Len(Shocked) |-> seen[d][i]]])'
  BY DEF SearchInv
<1> QED
  BY <1>1, <1>2, <1>3 DEF SearchInv

LEMMA InitLinkage == Init => LinkageInv
<1> SUFFICES ASSUME Init
             PROVE  LinkageInv
  OBVIOUS
<1>1. Len(Shocked) \in Nat \ {0}
  BY Origins
<1>2. ChainsInv
  <2>1. <<>> \in Seq(Chain) /\ ToSet(<<>>) = {} /\ IsInjective(<<>>)
    BY DEF ToSet, IsInjective
  <2> QED
    BY <2>1 DEF Init, ChainsInv
<1>3. SearchInv
  <2>1. <<>> \in Seq(Names \X (0 .. MaxReach))
    OBVIOUS
  <2>2. \A d \in Directions, i \in 1 .. Len(Shocked) : seen[d][i] = <<>> /\ DOMAIN seen[d][i] = {}
    BY DEF Init, NoneSeen
  <2>3. \A d \in Directions, i \in 1 .. Len(Shocked) : ~Ended(d, i) /\ at \notin Directions
    BY DEF Init, Ended, Directions
  <2>4. seen = [d \in Directions |-> [i \in 1 .. Len(Shocked) |-> seen[d][i]]]
    BY <2>2 DEF Init, NoneSeen
  <2>5. \A d \in Directions, i \in 1 .. Len(Shocked) : HopsRight(d, Shocked[i], seen[d][i])
    BY <2>2 DEF HopsRight
  <2>6. queue = <<>> /\ at \notin Directions
    BY DEF Init, Directions
  <2> QED
    BY <2>1, <2>2, <2>3, <2>4, <2>5, <2>6 DEF SearchInv
<1>4. stakes \subseteq Stakes /\ controls \subseteq Controls /\ at = "read" /\ shock = 1
  BY DEF Init
<1> QED
  BY <1>1, <1>2, <1>3, <1>4 DEF LinkageInv

LEMMA ReadStep == LinkageInv /\ Read => LinkageInv'
<1> SUFFICES ASSUME LinkageInv, Read
             PROVE  LinkageInv'
  OBVIOUS
<1>1. /\ at = "read" /\ shock = 1 /\ shock' = 1 /\ found = <<>> /\ found' = <<>>
      /\ UNCHANGED <<stakes, controls, queue, seen>>
      /\ \/ at' = "raised" /\ UNCHANGED stack
         \/ at' = "chains" /\ stack' = <<Start(Shocked[1])>>
      /\ stakes \subseteq Stakes /\ controls \subseteq Controls
  BY DEF LinkageInv, Read, ChainsInv, Origin
<1>2. Len(Shocked) \in Nat \ {0} /\ 1 \in 1 .. Len(Shocked)
  BY Origins
<1>3. ToSet(found) = {} /\ \A o : ~Earlier(o, 1)
  BY <1>1 DEF ToSet, Earlier
<1>4. InHand(1, <<Start(Shocked[1])>>, found) /\ <<Start(Shocked[1])>> \in Seq(Chain)
  BY <1>1, <1>2, <1>3, OriginInHand
<1> DEFINE q == <<Start(Shocked[1])>>
<1> HIDE DEF q
<1>5. at' = "chains" => InHand(1, stack', found')
  BY <1>1, <1>4
<1>6. Counted' = Counted
  BY <1>1, CountedUnchanged
<1>7. (at = "chains" => InHand(shock, stack, found))'
  BY <1>1, <1>5, <1>6 DEF InHand
<1>8. ChainsInv'
  BY <1>1, <1>4, <1>6, <1>7 DEF LinkageInv, ChainsInv
<1>9. SearchInv'
  <2>1. /\ at \notin Directions /\ at # "done" /\ at' \notin Directions /\ at' # "done"
    BY <1>1 DEF Directions
  <2>2. SearchInv /\ queue' \in Seq(Names \X (0 .. MaxReach))
    BY <1>1 DEF LinkageInv, SearchInv
  <2>3. \A d \in Directions, i \in 1 .. Len(Shocked) :
          ~Ended(d, i)' /\ ~Current(d, i) /\ ~Ended(d, i)
    BY <2>1 DEF Ended, Current
  <2> QED
    BY <1>1, <2>1, <2>2, <2>3, SearchMoves
<1> QED
  BY <1>1, <1>2, <1>8, <1>9 DEF LinkageInv

LEMMA ExtendStep == LinkageInv /\ Extend => LinkageInv'
<1> SUFFICES ASSUME LinkageInv, Extend
             PROVE  LinkageInv'
  OBVIOUS
<1>1. /\ at = "chains" /\ at' = "chains" /\ stack # <<>>
      /\ found' = FoundAfter(stack, found) /\ stack' = StackAfter(stack)
      /\ UNCHANGED <<stakes, controls, shock, queue, seen>>
      /\ stakes \subseteq Stakes /\ controls \subseteq Controls /\ shock \in 1 .. Len(Shocked)
  BY DEF LinkageInv, Extend, StackAfter, FoundAfter
<1>2. /\ stack \in Seq(Chain) /\ found \in Seq(Chain)
      /\ ToSet(found) \subseteq Counted /\ IsInjective(found) /\ InHand(shock, stack, found)
  BY <1>1 DEF LinkageInv, ChainsInv
<1>3. /\ stack' \in Seq(Chain) /\ found' \in Seq(Chain)
      /\ ToSet(found') \subseteq Counted /\ IsInjective(found') /\ InHand(shock, stack', found')
  BY <1>1, <1>2, Extended
<1>4. Counted' = Counted
  BY <1>1, CountedUnchanged
<1>5. InHand(shock, stack, found)'
  BY <1>1, <1>3, <1>4 DEF InHand
<1>6. ChainsInv'
  BY <1>1, <1>3, <1>4, <1>5 DEF ChainsInv
<1>7. SearchInv'
  <2>1. /\ at \notin Directions /\ at # "done" /\ at' \notin Directions /\ at' # "done"
    BY <1>1 DEF Directions
  <2>2. SearchInv /\ queue' \in Seq(Names \X (0 .. MaxReach))
    BY <1>1 DEF LinkageInv, SearchInv
  <2>3. \A d \in Directions, i \in 1 .. Len(Shocked) :
          ~Ended(d, i)' /\ ~Current(d, i) /\ ~Ended(d, i)
    BY <2>1 DEF Ended, Current
  <2> QED
    BY <1>1, <2>1, <2>2, <2>3, SearchMoves
<1> QED
  BY <1>1, <1>6, <1>7 DEF LinkageInv

LEMMA NextOriginStep == LinkageInv /\ NextOrigin => LinkageInv'
<1> SUFFICES ASSUME LinkageInv, NextOrigin
             PROVE  LinkageInv'
  OBVIOUS
<1>1. /\ at = "chains" /\ stack = <<>> /\ UNCHANGED <<stakes, controls, found, seen>>
      /\ stakes \subseteq Stakes /\ controls \subseteq Controls /\ shock \in 1 .. Len(Shocked)
  BY DEF LinkageInv, NextOrigin
<1>2. /\ stack \in Seq(Chain) /\ found \in Seq(Chain)
      /\ ToSet(found) \subseteq Counted /\ IsInjective(found) /\ InHand(shock, stack, found)
  BY <1>1 DEF LinkageInv, ChainsInv
<1>3. Counted' = Counted
  BY <1>1, CountedUnchanged
<1>4. ASSUME NEW c \in Counted
      PROVE  c \in ToSet(found) <=> Earlier(c.origin, shock + 1)
  <2>1. c \in ToSet(found) <=> Earlier(c.origin, shock) \/ c.origin = Shocked[shock]
    <3>1. \A i \in 1 .. Len(stack) : FALSE
      BY <1>1
    <3> QED
      BY <1>2, <3>1 DEF InHand
  <2>2. Earlier(c.origin, shock + 1) <=> Earlier(c.origin, shock) \/ c.origin = Shocked[shock]
    <3>1. shock \in Nat \ {0} /\ (shock + 1) - 1 = shock
      BY <1>1, Origins
    <3>2. \A j \in 1 .. (shock + 1) - 1 : j = shock \/ j \in 1 .. shock - 1
      BY <3>1
    <3>3. shock \in 1 .. (shock + 1) - 1 /\ \A j \in 1 .. shock - 1 : j \in 1 .. (shock + 1) - 1
      BY <3>1
    <3> QED
      BY <3>2, <3>3 DEF Earlier
  <2> QED
    BY <2>1, <2>2
<1>5. Len(Shocked) \in Nat \ {0} /\ 1 \in 1 .. Len(Shocked) /\ Shocked[1] \in Names
  BY Origins
<1>6. SearchInv /\ at \notin Directions /\ at # "done"
  BY <1>1 DEF LinkageInv, Directions
<1>7. CASE shock < Len(Shocked)
  <2>1. /\ shock' = shock + 1 /\ stack' = <<Start(Shocked[shock + 1])>> /\ UNCHANGED <<at, queue>>
    BY <1>7 DEF NextOrigin
  <2>2. shock + 1 \in 1 .. Len(Shocked)
    BY <1>1, <1>5, <1>7
  <2>3. /\ <<Start(Shocked[shock + 1])>> \in Seq(Chain)
        /\ InHand(shock + 1, <<Start(Shocked[shock + 1])>>, found)
    BY <1>1, <1>4, <2>2, OriginInHand
  <2>4. stack' \in Seq(Chain) /\ InHand(shock', stack', found')
    BY <1>1, <2>1, <2>3
  <2>5. InHand(shock, stack, found)'
    BY <1>3, <2>4 DEF InHand
  <2>6. ChainsInv'
    BY <1>1, <1>2, <1>3, <2>1, <2>4, <2>5 DEF ChainsInv
  <2>7. SearchInv'
    <3>1. queue' \in Seq(Names \X (0 .. MaxReach)) /\ at' \notin Directions
      BY <1>6, <2>1 DEF SearchInv
    <3>2. \A d \in Directions, i \in 1 .. Len(Shocked) :
            ~Ended(d, i)' /\ ~Current(d, i) /\ ~Ended(d, i)
      BY <1>6, <2>1 DEF Ended, Current
    <3> QED
      BY <1>1, <1>6, <3>1, <3>2, SearchMoves
  <2> QED
    BY <1>1, <2>1, <2>2, <2>6, <2>7 DEF LinkageInv
<1>8. CASE ~(shock < Len(Shocked))
  <2>1. shock' = 1 /\ at' = "up" /\ queue' = <<<<Shocked[1], 0>>>> /\ UNCHANGED stack
    BY <1>8 DEF NextOrigin
  <2>2. shock = Len(Shocked)
    BY <1>1, <1>5, <1>8
  <2>3. ToSet(found) = Counted
    <3>1. ASSUME NEW c \in Counted
          PROVE  c \in ToSet(found)
      <4>1. c.origin \in ToSet(Shocked)
        BY <1>1, CountedIs
      <4>2. PICK j \in 1 .. Len(Shocked) : Shocked[j] = c.origin
        BY <4>1, BoundsAssumption DEF ToSet
      <4>3. j \in 1 .. (shock + 1) - 1
        BY <1>5, <2>2
      <4> QED
        BY <1>4, <4>2, <4>3 DEF Earlier
    <3> QED
      BY <1>2, <3>1
  <2>4. ChainsInv'
    BY <1>1, <1>2, <1>3, <2>1, <2>3 DEF ChainsInv
  <2>5. SearchInv'
    <3>1. queue' \in Seq(Names \X (0 .. MaxReach))
      BY <1>5, <2>1, BoundsAssumption
    <3>2. \A d \in Directions, i \in 1 .. Len(Shocked) :
            ~Ended(d, i)' /\ ~Current(d, i) /\ ~Ended(d, i)
      BY <1>6, <2>1 DEF Ended, Current
    <3>3. DOMAIN seen[at'][shock'] = {}
      BY <1>5, <1>6, <2>1, <3>2 DEF SearchInv, Directions
    <3> QED
      BY <1>1, <1>6, <2>1, <3>1, <3>2, <3>3, SearchMoves
  <2> QED
    BY <1>1, <1>5, <2>1, <2>4, <2>5 DEF LinkageInv
<1> QED
  BY <1>7, <1>8

LEMMA VisitStep == LinkageInv /\ Visit => LinkageInv'
<1> SUFFICES ASSUME LinkageInv, Visit
             PROVE  LinkageInv'
  OBVIOUS
<1> DEFINE old == seen[at][shock]
           t == SeenAfter(at, Shocked[shock], old, queue)
           r == QueueAfter(at, Shocked[shock], old, queue)
<1>1. /\ at \in Directions /\ queue # <<>> /\ SearchInv /\ ChainsInv
      /\ UNCHANGED <<stakes, controls, at, shock, stack, found>>
      /\ controls \subseteq Controls /\ shock \in 1 .. Len(Shocked)
  BY DEF LinkageInv, Visit
<1>2. /\ queue \in Seq(Names \X (0 .. MaxReach))
      /\ HopsRight(at, Shocked[shock], old) /\ Searching(at, Shocked[shock], old, queue)
  BY <1>1 DEF SearchInv, Origin
<1>3. Shocked[shock] \in Names
  BY <1>1, Origins
<1>4. (IF Head(queue)[2] >= MaxReach THEN {} ELSE New(at, Head(queue)[1]))
        = Met(at, Shocked[shock], old, queue)
  BY DEF New, Origin, Met
<1>5. seen' = [seen EXCEPT ![at][shock] = t] /\ queue' = r
  BY <1>4 DEF Visit, SeenAfter, QueueAfter
<1> HIDE DEF t, r, old
<1>6. /\ r \in Seq(Names \X (0 .. MaxReach))
      /\ HopsRight(at, Shocked[shock], t) /\ Searching(at, Shocked[shock], t, r)
  BY <1>1, <1>2, <1>3, Visited DEF t, r
<1>7. ChainsInv'
  BY <1>1, ChainsHeld DEF Directions
<1>8. /\ seen' = [d \in Directions |-> [i \in 1 .. Len(Shocked) |-> seen'[d][i]]]
      /\ seen'[at][shock] = t
      /\ \A d \in Directions, i \in 1 .. Len(Shocked) :
            d # at \/ i # shock => seen'[d][i] = seen[d][i]
  BY <1>1, <1>5 DEF SearchInv
<1>9. ASSUME NEW d \in Directions, NEW i \in 1 .. Len(Shocked)
      PROVE  /\ HopsRight(d, Shocked[i], seen[d][i])'
             /\ (Ended(d, i) =>
                   Within(d, Shocked[i])[MaxReach] \subseteq Known(seen[d][i], Shocked[i]))'
             /\ (~Ended(d, i) /\ ~Current(d, i) => DOMAIN seen[d][i] = {})'
  <2>1. Within(d, Shocked[i])' = Within(d, Shocked[i])
    BY <1>1, WithinUnchanged
  <2>2. Ended(d, i)' = Ended(d, i) /\ Current(d, i)' = Current(d, i)
    BY <1>1 DEF Ended, Current
  <2>3. /\ HopsRight(d, Shocked[i], seen[d][i])
        /\ Ended(d, i) => Within(d, Shocked[i])[MaxReach] \subseteq Known(seen[d][i], Shocked[i])
        /\ ~Ended(d, i) /\ ~Current(d, i) => DOMAIN seen[d][i] = {}
    BY <1>1 DEF SearchInv
  <2>4. CASE d = at /\ i = shock
    <3>1. seen'[d][i] = t /\ HopsRight(d, Shocked[i], t)
      BY <1>6, <1>8, <2>4
    <3>2. HopsRight(d, Shocked[i], seen[d][i])'
      BY <2>1, <3>1 DEF HopsRight
    <3>3. ~Ended(d, i) /\ Current(d, i)
      BY <1>1, <2>4 DEF Ended, Current, Directions
    <3> QED
      BY <2>2, <3>2, <3>3
  <2>5. CASE d # at \/ i # shock
    <3>1. seen'[d][i] = seen[d][i]
      BY <1>8, <2>5
    <3>2. HopsRight(d, Shocked[i], seen[d][i])'
      BY <2>1, <2>3, <3>1 DEF HopsRight
    <3>3. (Ended(d, i) =>
             Within(d, Shocked[i])[MaxReach] \subseteq Known(seen[d][i], Shocked[i]))'
      BY <2>1, <2>2, <2>3, <3>1 DEF Known
    <3>4. (~Ended(d, i) /\ ~Current(d, i) => DOMAIN seen[d][i] = {})'
      BY <2>2, <2>3, <3>1
    <3> QED
      BY <3>2, <3>3, <3>4
  <2> QED
    BY <2>4, <2>5
<1>10. Searching(at, Origin, seen[at][shock], queue)'
  <2>1. seen'[at'][shock'] = t /\ queue' = r /\ at' = at /\ shock' = shock
    BY <1>1, <1>5, <1>8
  <2>2. Searching(at', Shocked[shock'], seen'[at'][shock'], queue')
    BY <1>6, <2>1
  <2> QED
    BY <1>1, <2>2, SearchingUnchanged
<1>11. queue' \in Seq(Names \X (0 .. MaxReach))
  BY <1>5, <1>6
<1>12. SearchInv'
  BY <1>8, <1>9, <1>10, <1>11 DEF SearchInv
<1> QED
  BY <1>1, <1>7, <1>12 DEF LinkageInv

LEMMA NextSearchStep == LinkageInv /\ NextSearch => LinkageInv'
<1> SUFFICES ASSUME LinkageInv, NextSearch
             PROVE  LinkageInv'
  OBVIOUS
<1>1. /\ at \in {"up", "down"} /\ queue = <<>> /\ SearchInv /\ ChainsInv
      /\ UNCHANGED <<stakes, controls, stack, found, seen>>
      /\ shock \in 1 .. Len(Shocked) /\ stakes \subseteq Stakes /\ controls \subseteq Controls
  BY DEF LinkageInv, NextSearch, Directions
<1>2. Len(Shocked) \in Nat \ {0} /\ MaxReach \in Nat /\ Shocked \in Seq(Names)
  BY Origins, BoundsAssumption
(* Nobody waits, so all within the bound have been met.                    *)
<1>3. Within(at, Shocked[shock])[MaxReach] \subseteq Known(seen[at][shock], Shocked[shock])
  <2>1. /\ HopsRight(at, Shocked[shock], seen[at][shock])
        /\ Searching(at, Shocked[shock], seen[at][shock], queue)
    BY <1>1 DEF SearchInv, Origin, Directions
  <2>2. MaxReach \in 0 .. MaxReach /\ \A j \in 1 .. Len(queue) : queue[j][2] >= MaxReach
    BY <1>1, <1>2
  <2> QED
    BY <2>1, <2>2, Reached
<1>4. \A d \in Directions, i \in 1 .. Len(Shocked) :
        ~Ended(d, i) /\ ~Current(d, i) => DOMAIN seen[d][i] = {}
  BY <1>1 DEF SearchInv
<1>5. SUFFICES ASSUME /\ at' \in {"up", "down", "done"} /\ shock' \in 1 .. Len(Shocked)
                      /\ queue' \in Seq(Names \X (0 .. MaxReach))
                      /\ \A d \in Directions, i \in 1 .. Len(Shocked) :
                            /\ Ended(d, i)' => Ended(d, i) \/ Current(d, i)
                            /\ ~Ended(d, i)' /\ ~Current(d, i)' => ~Ended(d, i) /\ ~Current(d, i)
                      /\ at' \in Directions =>
                            /\ ~Ended(at', shock') /\ ~Current(at', shock')
                            /\ queue' = <<<<Shocked[shock'], 0>>>>
               PROVE  LinkageInv'
  <2>0. /\ \A i \in 1 .. Len(Shocked) : <<<<Shocked[i], 0>>>> \in Seq(Names \X (0 .. MaxReach))
        /\ queue \in Seq(Names \X (0 .. MaxReach))
    BY <1>1, <1>2 DEF SearchInv
  <2>1. CASE at = "up"
    <3>1. at' = "down" /\ queue' = <<<<Shocked[shock], 0>>>> /\ shock' = shock
      BY <2>1 DEF NextSearch, Origin
    <3> QED
      BY <1>1, <1>2, <1>5, <2>0, <2>1, <3>1 DEF Ended, Current, Directions
  <2>2. CASE at = "down" /\ shock < Len(Shocked)
    <3>1. at' = "up" /\ queue' = <<<<Shocked[shock + 1], 0>>>> /\ shock' = shock + 1
      BY <2>2 DEF NextSearch
    <3>2. shock + 1 \in 1 .. Len(Shocked) /\ shock \in Nat
      BY <1>1, <1>2, <2>2
    <3> QED
      BY <1>1, <1>2, <1>5, <2>0, <2>2, <3>1, <3>2 DEF Ended, Current, Directions
  <2>3. CASE at = "down" /\ ~(shock < Len(Shocked))
    <3>1. at' = "done" /\ UNCHANGED <<shock, queue>>
      BY <2>3 DEF NextSearch
    <3>2. shock = Len(Shocked)
      BY <1>1, <1>2, <2>3
    <3> QED
      BY <1>1, <1>2, <1>5, <2>0, <2>3, <3>1, <3>2 DEF Ended, Current, Directions
  <2> QED
    BY <1>1, <2>1, <2>2, <2>3
<1>6. ChainsInv'
  BY <1>1, <1>5, ChainsHeld DEF Directions
<1>7. SearchInv'
  <2>1. \A d \in Directions, i \in 1 .. Len(Shocked) :
          Ended(d, i)' =>
             \/ Ended(d, i)
             \/ Within(d, Shocked[i])[MaxReach] \subseteq Known(seen[d][i], Shocked[i])
    BY <1>3, <1>5 DEF Current
  <2>2. at' \in Directions => DOMAIN seen[at'][shock'] = {}
    BY <1>4, <1>5
  <2> QED
    BY <1>1, <1>5, <2>1, <2>2, SearchMoves
<1> QED
  BY <1>1, <1>5, <1>6, <1>7 DEF LinkageInv

(* The invariant holds in every reachable state.                           *)
THEOREM LinkageHolds == Spec => []LinkageInv
<1>1. LinkageInv /\ UNCHANGED vars => LinkageInv'
  <2> SUFFICES ASSUME LinkageInv, UNCHANGED vars
               PROVE  LinkageInv'
    OBVIOUS
  <2>1. UNCHANGED <<stakes, controls, at, shock, stack, found, queue, seen>>
    BY DEF vars
  <2>2. Counted' = Counted
    BY <2>1, CountedUnchanged
  <2>3. ChainsInv'
    BY <2>1, <2>2 DEF LinkageInv, ChainsInv, InHand
  <2>4. SearchInv'
    <3>1. ASSUME NEW d \in Directions, NEW i \in 1 .. Len(Shocked)
          PROVE  /\ HopsRight(d, Shocked[i], seen[d][i])'
                 /\ (Ended(d, i) =>
                       Within(d, Shocked[i])[MaxReach] \subseteq Known(seen[d][i], Shocked[i]))'
                 /\ (~Ended(d, i) /\ ~Current(d, i) => DOMAIN seen[d][i] = {})'
      <4>1. Within(d, Shocked[i])' = Within(d, Shocked[i]) /\ seen'[d][i] = seen[d][i]
        BY <2>1, WithinUnchanged
      <4>2. Ended(d, i)' = Ended(d, i) /\ Current(d, i)' = Current(d, i)
        BY <2>1 DEF Ended, Current
      <4>3. /\ HopsRight(d, Shocked[i], seen[d][i])
            /\ Ended(d, i) =>
                 Within(d, Shocked[i])[MaxReach] \subseteq Known(seen[d][i], Shocked[i])
            /\ ~Ended(d, i) /\ ~Current(d, i) => DOMAIN seen[d][i] = {}
        BY DEF LinkageInv, SearchInv
      <4> QED
        BY <4>1, <4>2, <4>3 DEF HopsRight, Known
    <3>2. (at \in Directions => Searching(at, Origin, seen[at][shock], queue))'
      BY <2>1, SearchingUnchanged DEF LinkageInv, SearchInv, Origin
    <3> QED
      BY <2>1, <3>1, <3>2 DEF LinkageInv, SearchInv
  <2> QED
    BY <2>1, <2>3, <2>4 DEF LinkageInv
<1>2. LinkageInv /\ [Next]_vars => LinkageInv'
  BY <1>1, ReadStep, ExtendStep, NextOriginStep, VisitStep, NextSearchStep DEF Next
<1> QED
  BY <1>2, InitLinkage, PTL DEF Spec

(* Every ownership chain above an origin, of a hop more than max_hops at   *)
(* the most, is counted once and only once, around cycles and where stakes *)
(* run in parallel: propagate_ownership_shock sums over all of them.       *)
THEOREM EveryChainIsCountedOnce == Spec => []EveryChainOnce
<1>1. LinkageInv => EveryChainOnce
  BY DEF LinkageInv, ChainsInv, EveryChainOnce, Counted
<1> QED
  BY <1>1, LinkageHolds, PTL

(* control_blast_radius reports who is within max_hops, and their fewest   *)
(* hops, for every origin in both directions.                              *)
THEOREM HopsAreNearest == Spec => []NearestHops
<1>1. LinkageInv => NearestHops
  <2> SUFFICES ASSUME LinkageInv, at = "done", NEW d \in Directions,
                      NEW i \in 1 .. Len(Shocked), NEW x \in Names \ {Shocked[i]}
               PROVE  LET within == Within(d, Shocked[i])
                      IN  IF x \in DOMAIN seen[d][i]
                            THEN LET k == seen[d][i][x] IN x \in within[k] /\ x \notin within[k - 1]
                            ELSE x \notin within[MaxReach]
    BY DEF NearestHops
  <2>1. /\ HopsRight(d, Shocked[i], seen[d][i])
        /\ Within(d, Shocked[i])[MaxReach] \subseteq Known(seen[d][i], Shocked[i])
    BY DEF LinkageInv, SearchInv, Ended
  <2> QED
    BY <2>1 DEF HopsRight, Known
<1> QED
  BY <1>1, LinkageHolds, PTL
====
