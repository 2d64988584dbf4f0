----------------------------- MODULE MCLLMRouter -----------------------------
(***************************************************************************)
(* A small instance of the router for TLC.                                 *)
(***************************************************************************)
EXTENDS LLMRouterProperties

CONSTANTS p1, r1, r2

OneProvider == {p1}
TwoRequests == {r1, r2}
OneChain == <<p1>>
=============================================================================
