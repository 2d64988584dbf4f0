-------------------------- MODULE MCInteractiveLogin --------------------------
(***************************************************************************)
(* Small instances of the login service for TLC.                           *)
(***************************************************************************)
EXTENDS InteractiveLoginProperties

CONSTANTS s1, s2, k1

OneSession == {s1}
TwoSessions == {s1, s2}
OneKey == {k1}
KeyOfAll == [s \in Session |-> k1]

NoShutdown == {"open", "verify", "commit", "close"}
=============================================================================
