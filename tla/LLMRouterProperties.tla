------------------------- MODULE LLMRouterProperties -------------------------
(***************************************************************************)
(* What the router promises to its callers, and to the providers.          *)
(***************************************************************************)
EXTENDS LLMRouter

(* A half-open circuit waits for exactly one probe, and that probe is under *)
(* way: however a call ends, by an answer, an error or a cancellation, the  *)
(* circuit is told, so it never waits for a probe that nobody makes         *)
(* (_claim_circuit, _completion, _provider_aborted).                        *)
ProbesAreAnswered ==
    \A p \in Provider :
        LET probes == {r \in Request : /\ req[r].lease.provider = p
                                       /\ req[r].lease.probe
                                       /\ req[r].lease.current}
        IN  /\ Cardinality(probes) <= 1
            /\ router = "open" =>
                   (circuit[p].state = "half_open" <=> probes # {})

(* A circuit that is not closed is closed by the success of its probe only, *)
(* never by the answer to a call that began before it opened                *)
(* (CircuitLease.generation, _provider_succeeded).                          *)
OnlyProbesClose ==
    [][\A p \in Provider :
          circuit[p].state # "closed" /\ circuit'[p].state = "closed" =>
              \E r \in Request : /\ req[r].lease.provider = p
                                 /\ req[r].lease.probe
                                 /\ req'[r].pc = "idle"]_vars

(* No client is closed under a call, whoever replaced it or closed its      *)
(* provider meanwhile; providers that exist are closed with the router      *)
(* only; and when aclose has returned, no client is left open               *)
(* (_close_slot, _prune_provider_cache, aclose).                            *)
ClientsOutliveCalls ==
    /\ \A r \in Request : req[r].pc = "calling" =>
          slots[req[r].lease.provider][req[r].lease.slot].state
              \in {"open", "waiting"}
    /\ \A p \in Provider :
          cache[p] = "closed" /\ router = "open" => known[p] = "deleted"
    /\ router = "closed" =>
          \A p \in Provider, s \in Slot : slots[p][s].state = "none"

(* A client that was replaced is closed in the end, or its close has        *)
(* raised: the calls it serves end, and nothing keeps it from closing       *)
(* (_schedule_slot_close_locked, _release_client).                          *)
ReplacedClientsClose ==
    \A p \in Provider, s \in Slot :
        (slots[p][s].state = "open" => s # active[p])
            ~> slots[p][s].state \in {"none", "failed"}
=============================================================================
