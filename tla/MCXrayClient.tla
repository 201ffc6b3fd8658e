---------------------------- MODULE MCXrayClient ----------------------------
(* The client of XrayClient on small instances. *)
EXTENDS XrayClient, TLC

CONSTANTS p1, p2, u0, u1

\* Adds and removes of one user meet each other and a list that holds it; u0 is the
\* built-in test user, which the list's loop skips.
MCRequests == {<<"add", {u1}>>, <<"remove", {u1}>>, <<"inject", {u0, u1}>>}

\* The callers run the same code.  (Users are not symmetric: Current chooses.)
MCSymmetry == Permutations({p1, p2})
=============================================================================
