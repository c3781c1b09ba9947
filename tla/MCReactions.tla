---------------------------- MODULE MCReactions ----------------------------
(* A small instance of reactions: two events of the user, one of another.  *)
EXTENDS Reactions

CONSTANTS a1, a2, o1, q1, q2, k, l

MCOwn == {a1, a2}
MCForeign == {o1}
MCKeys == {k, l}
MCRemovals == {q1}
=============================================================================
