--------------------------- MODULE MCTokenBroker ---------------------------
(* Small instances of the token broker for TLC.                            *)
EXTENDS TokenBroker, TLC

CONSTANTS u1, k1, r1, r2, x1, x2

\* One user, one session key.
OneKey == {<<u1, k1>>}

\* The two requests are interchangeable.
RequestSymmetry == Permutations({r1, r2})
=============================================================================
