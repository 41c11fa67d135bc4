----------------------------- MODULE MCLinkage -----------------------------
(***************************************************************************)
(* Four companies, two of them shocked: parallel stakes, a stake of little *)
(* confidence, one that is no fraction, cross-holdings, and control edges  *)
(* by a longer and a shorter way.                                          *)
(***************************************************************************)
EXTENDS Linkage

Stake(h, c, f, t) == [holder |-> h, held |-> c, fraction |-> f, confidence |-> t]

MCStakes ==
    {Stake("b", "a", 40, 2), Stake("b", "a", 30, 2), Stake("c", "b", 60, 2),
     Stake("d", "c", 50, 2), Stake("a", "c", 20, 2), Stake("d", "a", 10, 1),
     Stake("c", "d", 100, 0), Stake("c", "a", 101, 2)}

MCControls == {<<"b", "a">>, <<"c", "b">>, <<"d", "c">>, <<"c", "a">>, <<"a", "d">>, <<"d", "b">>}

MCShocked == <<"a", "b">>
=============================================================================
