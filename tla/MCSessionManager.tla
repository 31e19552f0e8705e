-------------------------- MODULE MCSessionManager --------------------------
(* A small instance of the session lifecycle for TLC.                      *)
EXTENDS SessionManager

CONSTANTS u1, k1

\* One user, one session key.
OneKey == {<<u1, k1>>}
=============================================================================
