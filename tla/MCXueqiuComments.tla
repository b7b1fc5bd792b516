-------------------------- MODULE MCXueqiuComments --------------------------
(***************************************************************************)
(* Values for XueqiuComments: two posts, and a request that refreshes one. *)
(***************************************************************************)
EXTENDS XueqiuComments

CONSTANTS p1, p2, w1

TwoPosts == {p1, p2}
OneWeb == {w1}
=============================================================================
