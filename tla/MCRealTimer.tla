---------------------------- MODULE MCRealTimer -----------------------------
(* Instances of RealTimer for TLC. *)
EXTENDS RealTimer

CONSTANTS p1, p2, d1

Clients == {p1, p2, d1}

\* Off, one-shot below the resolution of the clock, and periodic between ticks.
Some == {<<0, 0>>, <<1, 0>>, <<5, 3>>}
=============================================================================
