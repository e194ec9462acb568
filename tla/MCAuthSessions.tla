--------------------------- MODULE MCAuthSessions ---------------------------
(* Instances of AuthSessions for TLC.                                      *)
EXTENDS AuthSessions, TLC

\* Requests and session ids are interchangeable.
Symmetry == Permutations(Request) \cup Permutations(Sid)
=============================================================================
