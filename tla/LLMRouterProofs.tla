--------------------------- MODULE LLMRouterProofs ---------------------------
(***************************************************************************)
(* Theorems about the router, for any providers, chain, requests, limits   *)
(* and bounds.                                                             *)
(*                                                                         *)
(* RouterInv is the inductive invariant.  A lease that is current says     *)
(* what its circuit is: half open for a probe, closed for any other call   *)
(* (CircuitOK); so a report either counts for the state it was made in or  *)
(* is of an old generation.  The client of a call is never past waiting,   *)
(* and the active client of an open provider is open (ClientOK).  What is  *)
(* cached, or may be, has existed (KnownOK).                               *)
(***************************************************************************)
EXTENDS LLMRouterProperties, FiniteSetTheorems, WellFoundedInduction, TLAPS

Holds(r, p) == req[r].lease.provider = p /\ req[r].lease.current

Probing(r, p) == Holds(r, p) /\ req[r].lease.probe

\* A circuit and the leases of its current generation.
CircuitOK(p) ==
    /\ \A r \in Request :
           Holds(r, p) => circuit[p].state =
               IF req[r].lease.probe THEN "half_open" ELSE "closed"
    /\ \A r, q \in Request : Probing(r, p) /\ Probing(q, p) => r = q
    /\ circuit[p].state = "half_open" =>
           /\ circuit[p].probe
           /\ router = "open" => \E r \in Request : Probing(r, p)
    /\ circuit[p].state = "closed" => circuit[p].failures < Threshold

\* A request has a lease while it calls, of a client that is not closing.
LeaseOK(r) ==
    IF req[r].pc = "calling"
    THEN /\ req[r].lease.provider \in Provider /\ req[r].lease.slot \in Slot
         /\ slots[req[r].lease.provider][req[r].lease.slot].state
                \in {"open", "waiting"}
    ELSE req[r].lease = NoLease

\* The active client of a provider.
ClientOK(p) ==
    /\ active[p] # 0 =>
           /\ slots[p][active[p]].state # "none"
           /\ cache[p] = "open" => slots[p][active[p]].state = "open"
    /\ cache[p] = "none" => \A s \in Slot : slots[p][s].state = "none"
    /\ router \in {"flushing", "closed"} => cache[p] = "none"

\* A provider is cached, and named by a snapshot, after it was created.
KnownOK ==
    /\ \A p \in Provider :
           /\ cache[p] # "none" => known[p] # "unborn"
           /\ cache[p] = "closed" /\ router = "open" => known[p] = "deleted"
    /\ \A r \in Request :
           /\ \A i \in req[r].rest : known[Chain[i]] # "unborn"
           /\ req[r].pc = "confirm" =>
                  \A p \in req[r].ids : known[p] # "unborn"

CircuitInv == \A p \in Provider : CircuitOK(p)

ClientInv ==
    /\ \A r \in Request : LeaseOK(r)
    /\ \A p \in Provider : ClientOK(p)

RouterInv == RouterTypeOK /\ CircuitInv /\ ClientInv /\ KnownOK

-----------------------------------------------------------------------------
(* Circuits                                                                *)

(* A set of positions has a first one.                                      *)
LEMMA FirstExists ==
    ASSUME NEW S \in SUBSET Nat, S # {}
    PROVE  First(S) \in S
<1>1. PICK n \in S : \A m \in S : <<m, n>> \notin OpToRel(<, Nat)
  BY WFMin, NatLessThanWellFounded
<1>2. ASSUME NEW m \in S PROVE n <= m
  <2>1. ~(m < n)
    BY <1>1 DEF OpToRel
  <2> QED BY <2>1
<1> QED BY <1>2 DEF First

(* What a report that counts makes of a circuit: the report of a probe      *)
(* closes it, when it is a success, or opens it; any other keeps it closed  *)
(* or opens it (_provider_succeeded, _provider_failed, _provider_aborted).  *)
LEMMA ReportOf ==
    ASSUME RouterAssumption, NEW c \in Circuit, NEW l \in Lease,
           NEW outcome \in Outcome,
           IF l.probe THEN c.state = "half_open" /\ c.probe
                      ELSE c.state = "closed" /\ c.failures < Threshold
    PROVE  LET d == Reported(c, l, outcome)
           IN  /\ d \in Circuit /\ d.state \in {"closed", "open"}
               /\ d.state = "closed" => d.failures < Threshold
               /\ d.state = "closed" /\ l.probe => outcome = "success"
<1>1. /\ ClosedCircuit \in Circuit /\ ClosedCircuit.state = "closed"
      /\ ClosedCircuit.failures < Threshold
  BY DEF ClosedCircuit, Circuit, RouterAssumption
<1>2. ASSUME NEW n \in 0..Threshold
      PROVE  LET d == [Opened(c) EXCEPT !.failures = n]
             IN  d \in Circuit /\ d.state = "open"
  BY DEF Opened, Circuit
<1>3. Threshold \in 0..Threshold
  BY DEF RouterAssumption
<1>4. CASE l.probe
  <2>1. Awaited(c, l)
    BY <1>4 DEF Awaited
  <2>2. CASE outcome = "success"
    BY <1>1, <2>1, <2>2 DEF Reported, Succeeded
  <2>3. CASE outcome # "success"
    <3>1. Reported(c, l, outcome) = [Opened(c) EXCEPT !.failures = Threshold]
      BY <1>4, <2>1, <2>3 DEF Reported, Failed, Aborted, Outcome
    <3> QED BY <1>2, <1>3, <3>1
  <2> QED BY <2>2, <2>3
<1>5. CASE ~l.probe
  <2>1. Awaited(c, l)
    BY <1>5 DEF Awaited
  <2>2. c.failures \in Nat /\ Threshold \in Nat /\ c.failures < Threshold
    BY <1>5 DEF Circuit, RouterAssumption
  <2>3. CASE outcome = "success" \/ outcome = "final"
    BY <1>1, <1>5, <2>1, <2>3 DEF Reported, Succeeded, Failed
  <2>4. CASE outcome = "cancelled"
    BY <1>5, <2>1, <2>4 DEF Reported, Aborted
  <2>5. CASE outcome = "retryable"
    <3>1. CASE c.failures + 1 >= Threshold
      <4>1. Reported(c, l, outcome) =
                [Opened(c) EXCEPT !.failures = c.failures + 1]
        BY <1>5, <2>1, <2>5, <3>1 DEF Reported, Failed
      <4>2. c.failures + 1 \in 0..Threshold
        BY <2>2
      <4> QED BY <1>2, <1>5, <4>1, <4>2
    <3>2. CASE c.failures + 1 < Threshold
      <4>1. Reported(c, l, outcome) =
                [c EXCEPT !.failures = c.failures + 1, !.probe = FALSE]
        BY <1>5, <2>1, <2>2, <2>5, <3>2 DEF Reported, Failed, Circuit
      <4>2. c.failures + 1 \in 0..Threshold
        BY <2>2
      <4> QED BY <1>5, <2>2, <3>2, <4>1, <4>2 DEF Circuit
    <3> QED BY <2>2, <3>1, <3>2
  <2> QED BY <2>3, <2>4, <2>5 DEF Outcome
<1> QED BY <1>4, <1>5

(* A circuit that lets a call through is closed and stays so, or half open  *)
(* for the probe (_claim_circuit).                                          *)
LEMMA ClaimOf ==
    ASSUME NEW c \in Circuit, CanClaim(c), c.state = "half_open" => c.probe
    PROVE  LET d == Claimed(c)
           IN  /\ d \in Circuit /\ c.state # "half_open"
               /\ c.state = "closed" => d = c
               /\ c.state # "closed" => d.state = "half_open" /\ d.probe
BY DEF CanClaim, Claimed, Circuit

-----------------------------------------------------------------------------
(* What a step leaves alone                                                *)

SameLeases ==
    \A r \in Request : /\ req'[r].lease = req[r].lease
                       /\ req'[r].pc = "calling" <=> req[r].pc = "calling"

\* The router only ever goes on to close.
RouterGoesOn ==
    /\ router' = "open" => router = "open"
    /\ router' \in {"flushing", "closed"} =>
           router \in {"flushing", "closed"}

(* Circuits stay right while nobody claims them or reports to them.         *)
LEMMA CircuitsKept ==
    ASSUME CircuitInv, UNCHANGED circuit, SameLeases, RouterGoesOn
    PROVE  CircuitInv'
BY DEF CircuitInv, CircuitOK, Holds, Probing, SameLeases, RouterGoesOn

(* Clients stay right while nobody uses or closes them.                     *)
LEMMA ClientsKept ==
    ASSUME ClientInv, UNCHANGED <<cache, slots, active>>, SameLeases,
           RouterGoesOn
    PROVE  ClientInv'
BY DEF ClientInv, LeaseOK, ClientOK, SameLeases, RouterGoesOn

\* Providers come and go in this order; no request names more of them.
KnownGoesOn ==
    /\ \A p \in Provider :
           /\ known[p] # "unborn" => known'[p] # "unborn"
           /\ known[p] = "deleted" => known'[p] = "deleted"
    /\ \A r \in Request :
           /\ req'[r].rest \subseteq req[r].rest
           /\ req'[r].pc = "confirm" =>
                  req[r].pc = "confirm" /\ req'[r].ids = req[r].ids

(* What is cached or named has existed, and stays so.                       *)
LEMMA KnownKept ==
    ASSUME RouterAssumption, RouterTypeOK, KnownOK, KnownGoesOn, RouterGoesOn,
           UNCHANGED cache
    PROVE  KnownOK'
<1>1. ASSUME NEW r \in Request, NEW i \in req'[r].rest
      PROVE  known'[Chain[i]] # "unborn"
  <2>1. i \in req[r].rest /\ req[r].rest \subseteq DOMAIN Chain
    BY DEF KnownGoesOn, RouterTypeOK, Caller
  <2>2. Chain[i] \in Provider
    BY <2>1 DEF RouterAssumption
  <2> QED BY <2>1, <2>2 DEF KnownGoesOn, KnownOK
<1>2. ASSUME NEW r \in Request, req'[r].pc = "confirm",
             NEW p \in req'[r].ids
      PROVE  known'[p] # "unborn"
  <2>1. req[r].pc = "confirm" /\ p \in req[r].ids
    BY <1>2 DEF KnownGoesOn
  <2>2. p \in Provider
    BY <2>1 DEF RouterTypeOK, Caller
  <2> QED BY <2>1, <2>2 DEF KnownGoesOn, KnownOK
<1> QED BY <1>1, <1>2 DEF KnownOK, KnownGoesOn, RouterGoesOn

(* Nobody, and a request that has not begun, are well typed.                *)
LEMMA IdleType ==
    ASSUME RouterAssumption
    PROVE  /\ NoLease \in Lease /\ IdleRequest \in Caller
           /\ IdleRequest.pc = "idle" /\ IdleRequest.lease = NoLease
           /\ IdleRequest.rest = {}
BY DEF RouterAssumption, NoLease, Lease, IdleRequest, Caller

(* A request that is not calling becomes one that is not.                   *)
LEMMA RequestMoves ==
    ASSUME RouterTypeOK, ClientInv, NEW r \in Request, NEW m \in Caller,
           req' = [req EXCEPT ![r] = m],
           req[r].pc # "calling", m.pc # "calling", m.lease = NoLease
    PROVE  /\ req' \in [Request -> Caller] /\ SameLeases /\ req'[r] = m
           /\ \A q \in Request \ {r} : req'[q] = req[q]
BY DEF RouterTypeOK, SameLeases, ClientInv, LeaseOK

(* A request that does not call holds no lease.                             *)
LEMMA Leaseless ==
    ASSUME RouterTypeOK, ClientInv, NEW r \in Request, req[r].pc # "calling"
    PROVE  req[r] \in Caller /\ req[r].lease = NoLease
<1>1. LeaseOK(r)
  BY DEF ClientInv
<1> QED BY <1>1 DEF RouterTypeOK, LeaseOK

-----------------------------------------------------------------------------
(* Requests that do not call                                               *)

(* A request begins, or ends before it has called.                          *)
LEMMA BeginInv ==
    ASSUME RouterAssumption, RouterInv, NEW r \in Request,
           Begin(r) \/ NoAttempt(r) \/ GiveUp(r)
    PROVE  RouterInv'
<1> USE DEF RouterInv
<1>1. PICK m \in Caller :
          /\ req' = [req EXCEPT ![r] = m] /\ m.lease = NoLease
          /\ m.pc \in {"idle", "snapshot"} /\ m.rest \subseteq req[r].rest
  <2> DEFINE n == [req[r] EXCEPT !.pc = "snapshot"]
  <2>1. CASE Begin(r)
    <3>1. n \in Caller /\ n.lease = NoLease /\ n.pc = "snapshot"
          /\ n.rest = req[r].rest
      <4>1. req[r] \in Caller /\ req[r].lease = NoLease
        BY <2>1, Leaseless DEF Begin
      <4> QED BY <4>1 DEF Caller
    <3>2. req' = [req EXCEPT ![r] = n]
      BY <2>1 DEF Begin
    <3> QED BY <3>1, <3>2
  <2>2. CASE NoAttempt(r) \/ GiveUp(r)
    BY <2>2, IdleType DEF NoAttempt, GiveUp, Ended
  <2> QED BY <2>1, <2>2
<1>2. /\ req[r].pc # "calling"
      /\ UNCHANGED <<known, config, circuit, cache, slots, active, closer,
                     router, queued, worker>>
  BY DEF Begin, NoAttempt, GiveUp, database, clients, telemetry
<1>3. /\ req' \in [Request -> Caller] /\ SameLeases /\ req'[r] = m
      /\ \A q \in Request \ {r} : req'[q] = req[q]
  BY <1>1, <1>2, RequestMoves
<1>4. RouterTypeOK'
  BY <1>2, <1>3 DEF RouterTypeOK
<1>5. KnownGoesOn /\ RouterGoesOn
  BY <1>1, <1>2, <1>3 DEF KnownGoesOn, RouterGoesOn
<1> QED BY <1>2, <1>3, <1>4, <1>5, CircuitsKept, ClientsKept, KnownKept

(* The route that a request reads names providers that exist                *)
(* (_route_snapshot_sync).                                                  *)
LEMMA ReadRouteInv ==
    ASSUME RouterAssumption, RouterInv, NEW r \in Request, ReadRoute(r)
    PROVE  RouterInv'
<1> USE DEF RouterInv
<1> DEFINE m == [req[r] EXCEPT !.pc = "read", !.rest = LiveChain,
                               !.read = config,
                               !.ids = {p \in Provider : known[p] = "live"}]
<1>1. /\ req' = [req EXCEPT ![r] = m] /\ req[r].pc = "snapshot"
      /\ UNCHANGED <<known, config, circuit, cache, slots, active, closer,
                     router, queued, worker>>
  BY DEF ReadRoute, database, clients, telemetry
<1>2. LiveChain \subseteq DOMAIN Chain /\ config \in [Provider -> 1..MaxConfig]
  BY DEF LiveChain, RouterTypeOK
<1>3. /\ m \in Caller /\ m.pc = "read" /\ m.lease = NoLease
      /\ m.rest = LiveChain
  <2>1. req[r] \in Caller /\ req[r].lease = NoLease
    BY <1>1, Leaseless
  <2> QED BY <1>2, <2>1 DEF Caller
<1> HIDE DEF m
<1>4. /\ req' \in [Request -> Caller] /\ SameLeases /\ req'[r] = m
      /\ \A q \in Request \ {r} : req'[q] = req[q]
  BY <1>1, <1>3, RequestMoves
<1>5. RouterTypeOK'
  BY <1>1, <1>4 DEF RouterTypeOK
<1>6. \A i \in m.rest : known[Chain[i]] = "live"
  BY <1>3 DEF LiveChain
<1>7. KnownOK'
  BY <1>1, <1>3, <1>4, <1>6 DEF KnownOK
<1>8. RouterGoesOn
  BY <1>1 DEF RouterGoesOn
<1> QED BY <1>1, <1>4, <1>5, <1>7, <1>8, CircuitsKept, ClientsKept

(* Candidates for pruning are cached, so they have existed                  *)
(* (_prune_provider_cache).                                                 *)
LEMMA FindStaleInv ==
    ASSUME RouterAssumption, RouterInv, NEW r \in Request, FindStale(r)
    PROVE  RouterInv'
<1> USE DEF RouterInv
<1> DEFINE m == [req[r] EXCEPT !.pc = IF PruneCandidates(r) = {}
                                      THEN "next" ELSE "confirm",
                               !.ids = PruneCandidates(r)]
<1>1. /\ req' = [req EXCEPT ![r] = m] /\ req[r].pc = "read"
      /\ UNCHANGED <<known, config, circuit, cache, slots, active, closer,
                     router, queued, worker>>
  BY DEF FindStale, database, clients, telemetry
<1>2. /\ PruneCandidates(r) \subseteq Provider
      /\ \A p \in PruneCandidates(r) : known[p] # "unborn"
  BY DEF PruneCandidates, KnownOK
<1>3. /\ m \in Caller /\ m.pc \in {"next", "confirm"} /\ m.lease = NoLease
      /\ m.rest = req[r].rest /\ m.ids = PruneCandidates(r)
  <2>1. req[r] \in Caller /\ req[r].lease = NoLease
    BY <1>1, Leaseless
  <2> QED BY <1>2, <2>1 DEF Caller
<1> HIDE DEF m
<1>4. /\ req' \in [Request -> Caller] /\ SameLeases /\ req'[r] = m
      /\ \A q \in Request \ {r} : req'[q] = req[q]
  BY <1>1, <1>3, RequestMoves
<1>5. RouterTypeOK'
  BY <1>1, <1>4 DEF RouterTypeOK
<1>6. KnownOK'
  BY <1>1, <1>2, <1>3, <1>4 DEF KnownOK
<1>7. RouterGoesOn
  BY <1>1 DEF RouterGoesOn
<1> QED BY <1>1, <1>4, <1>5, <1>6, <1>7, CircuitsKept, ClientsKept

-----------------------------------------------------------------------------
(* Clients that are closed                                                 *)

(* A client that is retired waits for its calls, and one that is closing    *)
(* goes on (_schedule_slot_close_locked).                                   *)
LEMMA RetiredClient ==
    ASSUME NEW c \in Client
    PROVE  /\ Retired(c) \in Client
           /\ Retired(c).state = "none" <=> c.state = "none"
           /\ c.state \in {"open", "waiting"} => Retired(c).state = "waiting"
BY DEF Retired, Client

(* Closing providers retires their clients, and no client that is in use    *)
(* goes further than that (_schedule_provider_close_locked).                *)
LEMMA ProvidersAreClosed ==
    ASSUME RouterInv, NEW S \in SUBSET Provider, CloseProviders(S),
           SameLeases, RouterGoesOn
    PROVE  /\ ClientInv'
           /\ cache' \in [Provider -> {"none", "open", "closed"}]
           /\ slots' \in [Provider -> [Slot -> Client]]
           /\ closer' \in [Provider -> {"none", "running", "failed"}]
           /\ active' = active
           /\ \A p \in Provider :
                  \/ cache'[p] = cache[p]
                  \/ p \in S /\ cache[p] # "none" /\ cache'[p] = "closed"
<1> USE DEF RouterInv, RouterTypeOK
<1>1. /\ cache' \in [Provider -> {"none", "open", "closed"}]
      /\ closer' \in [Provider -> {"none", "running", "failed"}]
      /\ active' = active
      /\ slots' \in [Provider -> [Slot -> Client]]
  BY RetiredClient DEF CloseProviders
<1>2. ASSUME NEW p \in Provider
      PROVE  \/ cache'[p] = cache[p] /\ slots'[p] = slots[p]
             \/ /\ p \in S /\ cache[p] # "none" /\ cache'[p] = "closed"
                /\ \A s \in Slot : slots'[p][s] = Retired(slots[p][s])
  BY DEF CloseProviders
<1>3. ASSUME NEW p \in Provider, NEW s \in Slot
      PROVE  /\ slots'[p][s].state = "none" <=> slots[p][s].state = "none"
             /\ slots[p][s].state \in {"open", "waiting"} =>
                    slots'[p][s].state \in {"open", "waiting"}
  BY <1>2, RetiredClient
<1>4. ASSUME NEW r \in Request PROVE LeaseOK(r)'
  BY <1>3 DEF ClientInv, LeaseOK, SameLeases
<1>5. ASSUME NEW p \in Provider PROVE ClientOK(p)'
  <2>1. active[p] # 0 => active[p] \in Slot
    BY DEF Slot
  <2>2. ClientOK(p)
    BY DEF ClientInv
  <2>3. CASE cache'[p] = cache[p] /\ slots'[p] = slots[p]
    BY <1>1, <2>2, <2>3 DEF ClientOK, RouterGoesOn
  <2>4. CASE cache[p] # "none" /\ cache'[p] = "closed"
    BY <1>1, <1>3, <2>1, <2>2, <2>4 DEF ClientOK, RouterGoesOn
  <2> QED BY <1>2, <2>3, <2>4
<1> QED BY <1>1, <1>2, <1>4, <1>5 DEF ClientInv

(* A provider that is pruned has been deleted: its id is no longer found,   *)
(* and it has been there (_prune_provider_cache).                           *)
LEMMA PruneInv ==
    ASSUME RouterAssumption, RouterInv, NEW r \in Request, Prune(r)
    PROVE  RouterInv'
<1> USE DEF RouterInv
<1> DEFINE m == [req[r] EXCEPT !.pc = "next", !.ids = {}]
           S == Stale(req[r].ids)
<1>1. /\ req' = [req EXCEPT ![r] = m] /\ req[r].pc = "confirm"
      /\ CloseProviders(S)
      /\ UNCHANGED <<known, config, circuit, router, queued, worker>>
  BY DEF Prune, database, telemetry
<1>2. /\ m \in Caller /\ m.pc = "next" /\ m.lease = NoLease
      /\ m.rest = req[r].rest
  <2>1. req[r] \in Caller /\ req[r].lease = NoLease
    BY <1>1, Leaseless
  <2> QED BY <2>1 DEF Caller
<1>3. S \subseteq Provider /\ \A p \in S : known[p] = "deleted"
  <2>1. req[r].ids \subseteq Provider
    BY DEF RouterTypeOK, Caller
  <2> QED BY <1>1, <2>1 DEF Stale, KnownOK, RouterTypeOK
<1> HIDE DEF m, S
<1>4. /\ req' \in [Request -> Caller] /\ SameLeases /\ req'[r] = m
      /\ \A q \in Request \ {r} : req'[q] = req[q]
  BY <1>1, <1>2, RequestMoves
<1>5. RouterGoesOn
  BY <1>1 DEF RouterGoesOn
<1>6. /\ ClientInv'
      /\ cache' \in [Provider -> {"none", "open", "closed"}]
      /\ slots' \in [Provider -> [Slot -> Client]]
      /\ closer' \in [Provider -> {"none", "running", "failed"}]
      /\ active' = active
      /\ \A p \in Provider :
             \/ cache'[p] = cache[p]
             \/ p \in S /\ cache[p] # "none" /\ cache'[p] = "closed"
  BY <1>1, <1>3, <1>4, <1>5, ProvidersAreClosed
<1>7. RouterTypeOK'
  BY <1>1, <1>4, <1>6 DEF RouterTypeOK
<1>8. KnownOK'
  BY <1>1, <1>2, <1>3, <1>4, <1>6 DEF KnownOK
<1> QED BY <1>1, <1>4, <1>5, <1>6, <1>7, <1>8, CircuitsKept

(* The router closes its providers, and goes on (aclose).                   *)
LEMMA CloseInv ==
    ASSUME RouterAssumption, RouterInv, Close
    PROVE  RouterInv'
<1> USE DEF RouterInv
<1>1. /\ router' = "closing" /\ CloseProviders(Provider)
      /\ UNCHANGED <<known, config, circuit, req, queued, worker>>
  BY DEF Close, KeepRequests, database, telemetry
<1>2. SameLeases /\ RouterGoesOn
  BY <1>1 DEF SameLeases, RouterGoesOn
<1>3. /\ ClientInv'
      /\ cache' \in [Provider -> {"none", "open", "closed"}]
      /\ slots' \in [Provider -> [Slot -> Client]]
      /\ closer' \in [Provider -> {"none", "running", "failed"}]
      /\ active' = active
      /\ \A p \in Provider : cache'[p] = cache[p] \/ cache[p] # "none"
  BY <1>1, <1>2, ProvidersAreClosed
<1>4. RouterTypeOK'
  BY <1>1, <1>3 DEF RouterTypeOK
<1>5. KnownOK'
  BY <1>1, <1>3 DEF KnownOK
<1> QED BY <1>1, <1>2, <1>3, <1>4, <1>5, CircuitsKept

(* A client is closed when it serves no call (_close_slot).                 *)
LEMMA CloseClientInv ==
    ASSUME RouterAssumption, RouterInv, NEW p \in Provider, NEW s \in Slot,
           CloseClient(p, s)
    PROVE  RouterInv'
<1> USE DEF RouterInv
<1> DEFINE c == [slots[p][s] EXCEPT !.state = "closing"]
<1>1. /\ slots[p][s].state = "waiting" /\ Idle(p, s)
      /\ slots' = [slots EXCEPT ![p][s].state = "closing"]
      /\ UNCHANGED <<known, config, circuit, cache, active, closer, req,
                     router, queued, worker>>
  BY DEF CloseClient, KeepCallers, database, telemetry
<1>2. c \in Client /\ c.state = "closing"
  <2>1. slots[p][s] \in Client
    BY DEF RouterTypeOK
  <2> QED BY <2>1 DEF Client
<1> HIDE DEF c
<1>3. slots' = [slots EXCEPT ![p][s] = c]
  BY <1>1 DEF c
<1>4. /\ slots' \in [Provider -> [Slot -> Client]] /\ slots'[p][s] = c
      /\ \A q \in Provider, t \in Slot :
             q # p \/ t # s => slots'[q][t] = slots[q][t]
  BY <1>2, <1>3 DEF RouterTypeOK
<1>5. RouterTypeOK'
  BY <1>1, <1>4 DEF RouterTypeOK
<1>6. SameLeases /\ RouterGoesOn /\ KnownGoesOn
  BY <1>1 DEF SameLeases, RouterGoesOn, KnownGoesOn
<1>7. ASSUME NEW r \in Request PROVE LeaseOK(r)'
  <2>1. LeaseOK(r)
    BY DEF ClientInv
  <2>2. req[r].pc = "calling" =>
            req[r].lease.provider # p \/ req[r].lease.slot # s
    BY <1>1 DEF Idle, Calls
  <2> QED BY <1>1, <1>4, <2>1, <2>2 DEF LeaseOK
<1>8. ASSUME NEW q \in Provider PROVE ClientOK(q)'
  <2>1. ClientOK(q) /\ (active[q] # 0 => active[q] \in Slot)
    BY DEF ClientInv, RouterTypeOK, Slot
  <2> QED BY <1>1, <1>2, <1>4, <2>1 DEF ClientOK
<1> QED BY <1>1, <1>5, <1>6, <1>7, <1>8, CircuitsKept, KnownKept
        DEF ClientInv

(* A client that was closed leaves the provider, or its close failed        *)
(* (_consume_close_result).                                                 *)
LEMMA ClientClosesInv ==
    ASSUME RouterAssumption, RouterInv, NEW p \in Provider, NEW s \in Slot,
           ClientCloses(p, s) \/ ClientCloseFails(p, s)
    PROVE  RouterInv'
<1> USE DEF RouterInv
<1>1. /\ slots[p][s].state = "closing"
      /\ UNCHANGED <<known, config, circuit, cache, closer, req, router,
                     queued, worker>>
  BY DEF ClientCloses, ClientCloseFails, KeepCallers, database, telemetry
<1>2. PICK c \in Client :
          /\ slots' = [slots EXCEPT ![p][s] = c]
          /\ \/ c.state = "none"
                /\ active' = [active EXCEPT ![p] = IF @ = s THEN 0 ELSE @]
             \/ c.state = "failed" /\ active' = active
  <2>1. CASE ClientCloses(p, s)
    <3>1. NoClient \in Client /\ NoClient.state = "none"
      BY DEF NoClient, Client, RouterAssumption
    <3> QED BY <2>1, <3>1 DEF ClientCloses
  <2>2. CASE ClientCloseFails(p, s)
    <3> DEFINE c == [slots[p][s] EXCEPT !.state = "failed"]
    <3>1. c \in Client /\ c.state = "failed"
      <4>1. slots[p][s] \in Client
        BY DEF RouterTypeOK
      <4> QED BY <4>1 DEF Client
    <3>2. slots' = [slots EXCEPT ![p][s] = c] /\ active' = active
      BY <2>2 DEF ClientCloseFails
    <3> QED BY <3>1, <3>2
  <2> QED BY <2>1, <2>2
<1>3. /\ slots' \in [Provider -> [Slot -> Client]] /\ slots'[p][s] = c
      /\ \A q \in Provider, t \in Slot :
             q # p \/ t # s => slots'[q][t] = slots[q][t]
  BY <1>2 DEF RouterTypeOK
<1>4. /\ active' \in [Provider -> 0..MaxSlots]
      /\ \A q \in Provider \ {p} : active'[q] = active[q]
      /\ active'[p] # 0 => active'[p] = active[p]
      /\ c.state = "none" => active'[p] # s
  <2>1. active \in [Provider -> 0..MaxSlots] /\ 0 \in 0..MaxSlots /\ s # 0
    BY DEF RouterTypeOK, RouterAssumption, Slot
  <2>2. CASE active' = [active EXCEPT ![p] = IF @ = s THEN 0 ELSE @]
    BY <2>1, <2>2
  <2>3. CASE c.state = "failed" /\ active' = active
    BY <2>1, <2>3
  <2> QED BY <1>2, <2>2, <2>3
<1>5. RouterTypeOK'
  BY <1>1, <1>3, <1>4 DEF RouterTypeOK
<1>6. SameLeases /\ RouterGoesOn /\ KnownGoesOn
  BY <1>1 DEF SameLeases, RouterGoesOn, KnownGoesOn
<1>7. ASSUME NEW r \in Request PROVE LeaseOK(r)'
  <2>1. LeaseOK(r)
    BY DEF ClientInv
  <2>2. req[r].pc = "calling" =>
            req[r].lease.provider # p \/ req[r].lease.slot # s
    BY <1>1, <2>1 DEF LeaseOK
  <2> QED BY <1>1, <1>3, <2>1, <2>2 DEF LeaseOK
<1>8. ASSUME NEW q \in Provider PROVE ClientOK(q)'
  <2>1. ClientOK(q) /\ (active[q] # 0 => active[q] \in Slot)
    BY DEF ClientInv, RouterTypeOK, Slot
  <2>2. CASE q # p
    <3>1. active'[q] = active[q] /\ \A t \in Slot : slots'[q][t] = slots[q][t]
      BY <1>3, <1>4, <2>2
    <3> QED BY <1>1, <2>1, <3>1 DEF ClientOK
  <2>3. CASE q = p
    <3>1. cache[p] # "none" /\ (cache[p] = "open" => active[p] # s)
      <4>1. s # 0 /\ slots[p][s].state # "none" /\ slots[p][s].state # "open"
        BY <1>1 DEF Slot
      <4> QED BY <2>1, <2>3, <4>1 DEF ClientOK
    <3>2. ASSUME active'[p] # 0
          PROVE  /\ slots'[p][active'[p]].state # "none"
                 /\ cache[p] = "open" => slots'[p][active'[p]].state = "open"
      <4>1. active'[p] = active[p] /\ active[p] # 0 /\ active[p] \in Slot
        BY <1>4, <2>1, <2>3, <3>2
      <4>2. CASE active[p] = s
        BY <1>2, <1>3, <1>4, <3>1, <4>1, <4>2
      <4>3. CASE active[p] # s
        BY <1>3, <2>1, <2>3, <4>1, <4>3 DEF ClientOK
      <4> QED BY <4>2, <4>3
    <3> QED BY <1>1, <2>1, <2>3, <3>1, <3>2 DEF ClientOK
  <2> QED BY <2>2, <2>3
<1> QED BY <1>1, <1>5, <1>6, <1>7, <1>8, CircuitsKept, KnownKept
        DEF ClientInv

(* A provider leaves the cache when none of its clients is left             *)
(* (_close_cached_provider).                                                *)
LEMMA ProviderClosesInv ==
    ASSUME RouterAssumption, RouterInv, NEW p \in Provider, ProviderCloses(p)
    PROVE  RouterInv'
<1> USE DEF RouterInv
<1>1. UNCHANGED <<known, config, circuit, slots, active, req, router, queued,
                  worker>>
  BY DEF ProviderCloses, KeepCallers, database, telemetry
<1>2. /\ closer' \in [Provider -> {"none", "running", "failed"}]
      /\ \/ UNCHANGED cache
         \/ /\ cache' = [cache EXCEPT ![p] = "none"]
            /\ \A s \in Slot : slots[p][s].state = "none"
  <2> DEFINE states == {slots[p][s].state : s \in Slot}
  <2>1. \A s \in Slot : slots[p][s].state \in states
    OBVIOUS
  <2>2. \/ /\ states = {"none"} /\ cache' = [cache EXCEPT ![p] = "none"]
           /\ closer' = [closer EXCEPT ![p] = "none"]
        \/ closer' = [closer EXCEPT ![p] = "failed"] /\ UNCHANGED cache
    BY DEF ProviderCloses
  <2> HIDE DEF states
  <2>3. closer \in [Provider -> {"none", "running", "failed"}]
    BY DEF RouterTypeOK
  <2> QED BY <2>1, <2>2, <2>3
<1>3. /\ cache' \in [Provider -> {"none", "open", "closed"}]
      /\ \A q \in Provider :
             \/ cache'[q] = cache[q]
             \/ cache'[q] = "none" /\ \A s \in Slot : slots[q][s].state = "none"
  BY <1>2 DEF RouterTypeOK
<1>4. RouterTypeOK'
  BY <1>1, <1>2, <1>3 DEF RouterTypeOK
<1>5. SameLeases /\ RouterGoesOn
  BY <1>1 DEF SameLeases, RouterGoesOn
<1>6. ClientInv'
  BY <1>1, <1>3 DEF ClientInv, ClientOK, LeaseOK
<1>7. KnownOK'
  BY <1>1, <1>3 DEF KnownOK
<1> QED BY <1>1, <1>4, <1>5, <1>6, <1>7, CircuitsKept

-----------------------------------------------------------------------------
(* The router, telemetry and the API                                       *)

(* Providers are created, changed and deleted (LLMStore).                   *)
LEMMA ApiInv ==
    ASSUME RouterAssumption, RouterInv, NEW p \in Provider, ApiStep(p)
    PROVE  RouterInv'
<1> USE DEF RouterInv
<1>1. /\ known' \in [Provider -> {"unborn", "live", "deleted"}]
      /\ \A q \in Provider :
             /\ known[q] # "unborn" => known'[q] # "unborn"
             /\ known[q] = "deleted" => known'[q] = "deleted"
      /\ config' \in [Provider -> 1..MaxConfig]
      /\ UNCHANGED <<circuit, cache, slots, active, closer, req, router,
                     queued, worker>>
  <2>1. /\ known \in [Provider -> {"unborn", "live", "deleted"}]
        /\ config \in [Provider -> 1..MaxConfig] /\ MaxConfig \in Nat
    BY DEF RouterTypeOK, RouterAssumption
  <2>2. CASE CreateProvider(p) \/ DeleteProvider(p)
    BY <2>1, <2>2
       DEF CreateProvider, DeleteProvider, KeepRouter, clients, telemetry
  <2>3. CASE UpdateProvider(p)
    <3>1. config[p] + 1 \in 1..MaxConfig
      BY <2>1, <2>3 DEF UpdateProvider
    <3> QED BY <2>1, <2>3, <3>1
            DEF UpdateProvider, KeepRouter, clients, telemetry
  <2> QED BY <2>2, <2>3 DEF ApiStep
<1>2. RouterTypeOK'
  BY <1>1 DEF RouterTypeOK
<1>3. SameLeases /\ RouterGoesOn /\ KnownGoesOn
  BY <1>1 DEF SameLeases, RouterGoesOn, KnownGoesOn
<1> QED BY <1>1, <1>2, <1>3, CircuitsKept, ClientsKept, KnownKept

(* Telemetry, and the end of aclose, which waits for the providers.         *)
LEMMA RouterStepInv ==
    ASSUME RouterAssumption, RouterInv, RouterStep
    PROVE  RouterInv'
<1> USE DEF RouterInv
<1>1. CASE Close
  BY <1>1, CloseInv
<1>2. CASE ~Close
  <2>1. /\ UNCHANGED <<known, config, circuit, cache, slots, active, closer,
                       req>>
        /\ queued' \in 0..QueueMax /\ worker' \in {"none", "ready", "writing"}
        /\ router' \in {"open", "closing", "broken", "flushing", "closed"}
        /\ router' = "open" => router = "open"
        /\ router' \in {"flushing", "closed"} =>
               \/ router \in {"flushing", "closed"}
               \/ \A p \in Provider : cache[p] = "none"
    BY <1>2
       DEF RouterStep, ProvidersClosed, CloseRaises, TelemetryDropped,
           TelemetryFlushed, TakeRecord, RecordWritten, KeepRequests,
           KeepTelemetryOwners, database, clients, telemetry, RouterTypeOK,
           RouterAssumption
  <2>2. RouterTypeOK'
    BY <2>1 DEF RouterTypeOK
  <2>3. CircuitInv'
    BY <2>1 DEF CircuitInv, CircuitOK, Holds, Probing
  <2>4. ClientInv'
    BY <2>1 DEF ClientInv, ClientOK, LeaseOK
  <2>5. KnownOK'
    BY <2>1 DEF KnownOK
  <2> QED BY <2>2, <2>3, <2>4, <2>5
<1> QED BY <1>1, <1>2

-----------------------------------------------------------------------------
(* Circuits change                                                         *)

(* The cooldown of a circuit ends.                                          *)
LEMMA CooldownEndsInv ==
    ASSUME RouterAssumption, RouterInv, NEW p \in Provider, CooldownEnds(p)
    PROVE  RouterInv'
<1> USE DEF RouterInv
<1> DEFINE c == [circuit[p] EXCEPT !.cooled = TRUE]
<1>1. /\ circuit' = [circuit EXCEPT ![p] = c]
      /\ UNCHANGED <<known, config, cache, slots, active, closer, req,
                     router, queued, worker>>
  BY DEF CooldownEnds, database, clients, telemetry
<1>2. /\ c \in Circuit /\ c.state = circuit[p].state
      /\ c.failures = circuit[p].failures /\ c.probe = circuit[p].probe
  <2>1. circuit[p] \in Circuit
    BY DEF RouterTypeOK
  <2> QED BY <2>1 DEF Circuit
<1> HIDE DEF c
<1>3. /\ circuit' \in [Provider -> Circuit] /\ circuit'[p] = c
      /\ \A q \in Provider \ {p} : circuit'[q] = circuit[q]
  BY <1>1, <1>2 DEF RouterTypeOK
<1>4. RouterTypeOK'
  BY <1>1, <1>3 DEF RouterTypeOK
<1>5. SameLeases /\ RouterGoesOn /\ KnownGoesOn
  BY <1>1 DEF SameLeases, RouterGoesOn, KnownGoesOn
<1>6. ASSUME NEW q \in Provider PROVE CircuitOK(q)'
  <2>1. /\ circuit'[q].state = circuit[q].state
        /\ circuit'[q].failures = circuit[q].failures
        /\ circuit'[q].probe = circuit[q].probe
    BY <1>2, <1>3
  <2> QED BY <1>1, <2>1 DEF CircuitInv, CircuitOK, Holds, Probing
<1> QED BY <1>1, <1>4, <1>5, <1>6, ClientsKept, KnownKept DEF CircuitInv

(* A circuit and its leases that a step leaves alone stay right.            *)
LEMMA CircuitKept ==
    ASSUME NEW p \in Provider, CircuitOK(p), circuit'[p] = circuit[p],
           RouterGoesOn,
           \A r \in Request :
               /\ Holds(r, p)' <=> Holds(r, p)
               /\ Holds(r, p) => req'[r].lease.probe = req[r].lease.probe
    PROVE  CircuitOK(p)'
<1>1. \A r \in Request : Probing(r, p)' <=> Probing(r, p)
  BY DEF Probing
<1> QED BY <1>1 DEF CircuitOK, RouterGoesOn

(* A request tries the first provider of what is left of its chain whose    *)
(* circuit lets it through (_completion).                                   *)
LEMMA AttemptOf ==
    ASSUME RouterAssumption, RouterInv, NEW r \in Request,
           NEW p, NEW c, MayAttempt(r, p, c)
    PROVE  /\ p \in Provider /\ c \in 1..MaxConfig /\ known[p] # "unborn"
           /\ First(Claimable(r)) \in req[r].rest /\ CanClaim(circuit[p])
           /\ circuit[p] \in Circuit /\ req[r] \in Caller
           /\ req[r].pc = "next" /\ req[r].lease = NoLease
<1> USE DEF RouterInv
<1>1. /\ req[r].rest \subseteq DOMAIN Chain /\ circuit \in [Provider -> Circuit]
      /\ req[r].read \in [Provider -> 1..MaxConfig] /\ req[r] \in Caller
  BY DEF RouterTypeOK, Caller
<1>2. Claimable(r) \subseteq Nat /\ Claimable(r) # {}
  <2>1. DOMAIN Chain \subseteq Nat
    BY DEF RouterAssumption
  <2>2. Claimable(r) \subseteq req[r].rest
    BY DEF Claimable
  <2> QED BY <1>1, <2>1, <2>2 DEF MayAttempt
<1>3. First(Claimable(r)) \in Claimable(r)
  BY <1>2, FirstExists
<1>4. /\ p = Chain[First(Claimable(r))] /\ c = req[r].read[p]
      /\ req[r].pc = "next"
  BY DEF MayAttempt
<1>5. /\ First(Claimable(r)) \in req[r].rest /\ CanClaim(circuit[p])
  BY <1>3, <1>4 DEF Claimable
<1>6. p \in Provider
  BY <1>1, <1>4, <1>5 DEF RouterAssumption
<1>7. known[p] # "unborn"
  BY <1>4, <1>5 DEF KnownOK
<1>8. req[r].lease = NoLease
  BY <1>4 DEF ClientInv, LeaseOK
<1> QED BY <1>1, <1>4, <1>5, <1>6, <1>7, <1>8

(* A circuit that lets a call through has no lease that is current, unless  *)
(* it is closed; a half-open one has its probe.                             *)
LEMMA ClaimedCircuit ==
    ASSUME RouterInv, NEW p \in Provider, CanClaim(circuit[p])
    PROVE  LET d == Claimed(circuit[p])
           IN  /\ d \in Circuit /\ circuit[p].state # "half_open"
               /\ circuit[p].state = "closed" => d = circuit[p]
               /\ circuit[p].state # "closed" =>
                      /\ d.state = "half_open" /\ d.probe
                      /\ \A r \in Request : ~Holds(r, p)
<1> USE DEF RouterInv
<1>1. CircuitOK(p) /\ circuit[p] \in Circuit
  BY DEF CircuitInv, RouterTypeOK
<1>2. circuit[p].state = "half_open" => circuit[p].probe
  BY <1>1 DEF CircuitOK
<1>3. /\ Claimed(circuit[p]) \in Circuit /\ circuit[p].state # "half_open"
      /\ circuit[p].state = "closed" => Claimed(circuit[p]) = circuit[p]
      /\ circuit[p].state # "closed" =>
             /\ Claimed(circuit[p]).state = "half_open"
             /\ Claimed(circuit[p]).probe
  BY <1>1, <1>2, ClaimOf
<1>4. circuit[p].state # "closed" => \A r \in Request : ~Holds(r, p)
  BY <1>1, <1>3 DEF CircuitOK
<1> QED BY <1>3, <1>4

(* An attempt that finds the router closed leaves a probe that nobody       *)
(* makes, but only in a router that is closed (_provider_for).              *)
LEMMA AttemptWhenClosedInv ==
    ASSUME RouterAssumption, RouterInv, NEW r \in Request,
           NEW p \in Provider, NEW c \in 1..MaxConfig,
           AttemptWhenClosed(r, p, c)
    PROVE  RouterInv'
<1> USE DEF RouterInv
<1> DEFINE d == Claimed(circuit[p])
<1>1. /\ MayAttempt(r, p, c) /\ router # "open"
      /\ circuit' = [circuit EXCEPT ![p] = d]
      /\ req' = [req EXCEPT ![r] = IdleRequest]
      /\ UNCHANGED <<known, config, cache, slots, active, closer, router,
                     queued, worker>>
  BY DEF AttemptWhenClosed, Ended, database, clients, telemetry
<1>2. req[r].pc = "next" /\ CanClaim(circuit[p])
  BY <1>1, AttemptOf
<1>3. /\ d \in Circuit /\ circuit[p].state # "half_open"
      /\ circuit[p].state = "closed" => d = circuit[p]
      /\ circuit[p].state # "closed" =>
             /\ d.state = "half_open" /\ d.probe
             /\ \A q \in Request : ~Holds(q, p)
  BY <1>2, ClaimedCircuit
<1> HIDE DEF d
<1>4. /\ req' \in [Request -> Caller] /\ SameLeases /\ req'[r] = IdleRequest
      /\ \A q \in Request \ {r} : req'[q] = req[q]
  BY <1>1, <1>2, IdleType, RequestMoves
<1>5. /\ circuit' \in [Provider -> Circuit] /\ circuit'[p] = d
      /\ \A q \in Provider \ {p} : circuit'[q] = circuit[q]
  BY <1>1, <1>3 DEF RouterTypeOK
<1>6. RouterTypeOK'
  BY <1>1, <1>4, <1>5 DEF RouterTypeOK
<1>7. RouterGoesOn /\ KnownGoesOn
  BY <1>1, <1>4, IdleType DEF RouterGoesOn, KnownGoesOn
<1>8. \A q \in Request, k \in Provider :
          /\ Holds(q, k)' <=> Holds(q, k)
          /\ req'[q].lease.probe = req[q].lease.probe
  BY <1>4 DEF Holds, SameLeases
<1>9. CircuitOK(p)'
  <2>1. CASE circuit[p].state = "closed"
    BY <1>3, <1>5, <1>7, <1>8, <2>1, CircuitKept DEF CircuitInv
  <2>2. CASE circuit[p].state # "closed"
    BY <1>1, <1>3, <1>5, <1>8, <2>2 DEF CircuitOK, Probing
  <2> QED BY <2>1, <2>2
<1>10. ASSUME NEW k \in Provider PROVE CircuitOK(k)'
  <2>1. CASE k = p
    BY <1>9, <2>1
  <2>2. CASE k # p
    BY <1>5, <1>7, <1>8, <2>2, CircuitKept DEF CircuitInv
  <2> QED BY <2>1, <2>2
<1> QED BY <1>1, <1>4, <1>6, <1>7, <1>10, ClientsKept, KnownKept
        DEF CircuitInv

(* Leases of an old generation stop being current; nothing else of the      *)
(* requests changes (CircuitLease.generation).                              *)
LEMMA OutdatedRequests ==
    ASSUME RouterTypeOK, NEW p \in Provider, NEW d, NEW q \in Request
    PROVE  LET n == Outdated(req, p, d)[q]
               m == req[q]
           IN  /\ n \in Caller
               /\ n.pc = m.pc /\ n.rest = m.rest /\ n.ids = m.ids
               /\ n.lease.provider = m.lease.provider
               /\ n.lease.slot = m.lease.slot
               /\ n.lease.probe = m.lease.probe
               /\ IF m.lease.provider = p /\ NewGeneration(circuit[p], d)
                  THEN ~n.lease.current ELSE n = m
<1> DEFINE m == req[q]
           k == [m EXCEPT !.lease.current = FALSE]
<1>1. m \in Caller /\ m.lease \in Lease
  BY DEF RouterTypeOK, Caller
<1>2. /\ [m.lease EXCEPT !.current = FALSE] \in Lease
      /\ [m.lease EXCEPT !.current = FALSE].provider = m.lease.provider
      /\ [m.lease EXCEPT !.current = FALSE].slot = m.lease.slot
      /\ [m.lease EXCEPT !.current = FALSE].probe = m.lease.probe
      /\ [m.lease EXCEPT !.current = FALSE].current = FALSE
  BY <1>1 DEF Lease
<1>3. k = [m EXCEPT !.lease = [m.lease EXCEPT !.current = FALSE]]
  OBVIOUS
<1>4. /\ k \in Caller /\ k.pc = m.pc /\ k.rest = m.rest /\ k.ids = m.ids
      /\ k.lease = [m.lease EXCEPT !.current = FALSE]
  BY <1>1, <1>2, <1>3 DEF Caller
<1>5. Outdated(req, p, d)[q] =
          IF m.lease.provider = p /\ NewGeneration(circuit[p], d) THEN k ELSE m
  BY DEF Outdated
<1> HIDE DEF m, k
<1>6. CASE m.lease.provider = p /\ NewGeneration(circuit[p], d)
  BY <1>2, <1>4, <1>5, <1>6 DEF m
<1>7. CASE ~(m.lease.provider = p /\ NewGeneration(circuit[p], d))
  BY <1>1, <1>5, <1>7 DEF m
<1> QED BY <1>6, <1>7

(* A report that counts, or an attempt that failed at once, and the end of  *)
(* the request that makes it (_completion).                                 *)
LEMMA CircuitTold ==
    ASSUME RouterAssumption, RouterInv, NEW p \in Provider, NEW d \in Circuit,
           d.state \in {"closed", "open"},
           d.state = "closed" => d.failures < Threshold,
           circuit[p].state = "open" => d.state = "open",
           circuit' = [circuit EXCEPT ![p] = d],
           NEW r \in Request, req[r].lease.provider \in {p, NoProvider},
           NEW m \in Caller, m.lease = NoLease,
           req' = [Outdated(req, p, d) EXCEPT ![r] = m],
           RouterGoesOn
    PROVE  /\ CircuitInv' /\ circuit' \in [Provider -> Circuit]
           /\ req' \in [Request -> Caller] /\ req'[r] = m
           /\ \A q \in Request \ {r} :
                  /\ req'[q].pc = req[q].pc /\ req'[q].rest = req[q].rest
                  /\ req'[q].ids = req[q].ids
                  /\ req'[q].lease.provider = req[q].lease.provider
                  /\ req'[q].lease.slot = req[q].lease.slot
                  /\ req[q].lease = NoLease => req'[q].lease = NoLease
<1> USE DEF RouterInv
<1> DEFINE new == NewGeneration(circuit[p], d)
<1>1. /\ circuit' \in [Provider -> Circuit] /\ circuit'[p] = d
      /\ \A k \in Provider \ {p} : circuit'[k] = circuit[k]
  BY DEF RouterTypeOK
<1>2. Outdated(req, p, d) \in [Request -> Caller]
  <2>1. \A q \in Request : Outdated(req, p, d)[q] \in Caller
    BY OutdatedRequests
  <2>2. CASE new
    BY <2>1, <2>2 DEF Outdated
  <2>3. CASE ~new
    BY <2>3 DEF Outdated, RouterTypeOK
  <2> QED BY <2>2, <2>3
<1>3. /\ req' \in [Request -> Caller] /\ req'[r] = m
      /\ \A q \in Request \ {r} : req'[q] = Outdated(req, p, d)[q]
  BY <1>2
<1>4. ASSUME NEW q \in Request \ {r}
      PROVE  /\ req'[q].pc = req[q].pc /\ req'[q].rest = req[q].rest
             /\ req'[q].ids = req[q].ids
             /\ req'[q].lease.provider = req[q].lease.provider
             /\ req'[q].lease.slot = req[q].lease.slot
             /\ req'[q].lease.probe = req[q].lease.probe
             /\ IF req[q].lease.provider = p /\ new
                THEN ~req'[q].lease.current ELSE req'[q] = req[q]
  BY <1>3, OutdatedRequests
<1> HIDE DEF new
<1>5. NoLease.provider = NoProvider /\ NoProvider \notin Provider
  BY DEF NoLease, RouterAssumption
<1>6. \A k \in Provider : ~Holds(r, k)'
  BY <1>3, <1>5 DEF Holds
<1>7. ASSUME NEW k \in Provider, k # p PROVE CircuitOK(k)'
  <2>1. ASSUME NEW q \in Request
        PROVE  /\ Holds(q, k)' <=> Holds(q, k)
               /\ Holds(q, k) => req'[q].lease.probe = req[q].lease.probe
    <3>1. CASE q = r
      BY <1>5, <1>6, <1>7, <3>1 DEF Holds
    <3>2. CASE q # r
      BY <1>4, <1>7, <3>2 DEF Holds
    <3> QED BY <3>1, <3>2
  <2> QED BY <1>1, <1>7, <2>1, CircuitKept DEF CircuitInv
<1>8. CircuitOK(p)'
  <2>1. CircuitOK(p)
    BY DEF CircuitInv
  <2>2. CASE new
    <3>1. \A q \in Request : ~Holds(q, p)'
      BY <1>4, <1>6, <2>2 DEF Holds
    <3> QED BY <1>1, <3>1 DEF CircuitOK, Probing
  <2>3. CASE ~new
    <3>1. circuit[p].state = d.state
      BY <2>3 DEF new, NewGeneration, RouterTypeOK, Circuit
    <3>2. \A q \in Request : Holds(q, p)' => Holds(q, p) /\ req'[q] = req[q]
      BY <1>4, <1>6, <2>3 DEF Holds
    <3>3. \A q \in Request : ~Probing(q, p)
      BY <2>1, <3>1 DEF CircuitOK, Probing
    <3> QED BY <1>1, <2>1, <3>1, <3>2, <3>3 DEF CircuitOK, Probing
  <2> QED BY <2>2, <2>3
<1>9. CircuitInv'
  BY <1>7, <1>8 DEF CircuitInv
<1>10. \A q \in Request \ {r} :
           req[q].lease = NoLease => req'[q].lease = NoLease
  BY <1>4, <1>5
<1> QED BY <1>1, <1>3, <1>4, <1>9, <1>10

(* An attempt at a provider without a key, or one that is being closed, is  *)
(* a failure that is told at once (_acquire_client).                        *)
LEMMA AttemptUnconfiguredInv ==
    ASSUME RouterAssumption, RouterInv, NEW r \in Request,
           NEW p \in Provider, NEW c \in 1..MaxConfig,
           AttemptUnconfigured(r, p, c)
    PROVE  RouterInv'
<1> USE DEF RouterInv
<1> DEFINE l == LeaseOf(p, 0)
           d == Failed(Claimed(circuit[p]), l, FALSE)
<1>1. /\ MayAttempt(r, p, c) /\ router = "open"
      /\ circuit' = [circuit EXCEPT ![p] = d]
      /\ req' = [Outdated(req, p, d) EXCEPT ![r] = IdleRequest]
      /\ cache' = [cache EXCEPT ![p] = IF @ = "none" THEN "open" ELSE @]
      /\ Enqueue
      /\ UNCHANGED <<known, config, slots, active, closer, router>>
  BY DEF AttemptUnconfigured, database
<1>2. /\ known[p] # "unborn" /\ CanClaim(circuit[p])
      /\ circuit[p] \in Circuit /\ req[r].lease = NoLease
  BY <1>1, AttemptOf
<1>3. l \in Lease /\ (l.probe <=> circuit[p].state # "closed")
  <2>1. 0 \in 0..MaxSlots
    BY DEF RouterAssumption
  <2>2. (circuit[p].state # "closed") \in BOOLEAN
    OBVIOUS
  <2> QED BY <2>1, <2>2 DEF LeaseOf, Lease
<1>4. /\ d \in Circuit /\ d.state \in {"closed", "open"}
      /\ d.state = "closed" => d.failures < Threshold
      /\ circuit[p].state = "open" => d.state = "open"
  <2> DEFINE k == Claimed(circuit[p])
  <2>1. /\ k \in Circuit
        /\ IF l.probe THEN k.state = "half_open" /\ k.probe
                      ELSE k.state = "closed" /\ k.failures < Threshold
    <3>1. circuit[p].state = "closed" => circuit[p].failures < Threshold
      BY DEF CircuitInv, CircuitOK
    <3> QED BY <1>2, <1>3, <3>1, ClaimedCircuit
  <2>2. d = Reported(k, l, "final") /\ "final" \in Outcome
    BY DEF Reported, Outcome
  <2> HIDE DEF k, l, d
  <2> QED BY <1>3, <2>1, <2>2, ReportOf
<1> HIDE DEF l, d
<1>5. RouterGoesOn
  BY <1>1 DEF RouterGoesOn
<1>6. /\ CircuitInv' /\ circuit' \in [Provider -> Circuit]
      /\ req' \in [Request -> Caller] /\ req'[r] = IdleRequest
      /\ \A q \in Request \ {r} :
             /\ req'[q].pc = req[q].pc /\ req'[q].rest = req[q].rest
             /\ req'[q].ids = req[q].ids
             /\ req'[q].lease.provider = req[q].lease.provider
             /\ req'[q].lease.slot = req[q].lease.slot
             /\ req[q].lease = NoLease => req'[q].lease = NoLease
  <2>1. req[r].lease.provider \in {p, NoProvider}
    BY <1>2 DEF NoLease
  <2>2. IdleRequest \in Caller /\ IdleRequest.lease = NoLease
    BY IdleType
  <2> HIDE DEF RouterInv
  <2> QED BY <1>1, <1>4, <1>5, <2>1, <2>2, CircuitTold
<1>7. /\ cache' \in [Provider -> {"none", "open", "closed"}]
      /\ \A k \in Provider :
             \/ cache'[k] = cache[k]
             \/ k = p /\ cache[k] = "none" /\ cache'[k] = "open"
  BY <1>1 DEF RouterTypeOK
<1>8. queued' \in 0..QueueMax /\ worker' \in {"none", "ready", "writing"}
  BY <1>1 DEF Enqueue, telemetry, RouterTypeOK, RouterAssumption
<1>9. RouterTypeOK'
  BY <1>1, <1>6, <1>7, <1>8 DEF RouterTypeOK
<1>10. ASSUME NEW q \in Request PROVE LeaseOK(q)'
  <2>1. CASE q = r
    BY <1>6, <2>1, IdleType DEF LeaseOK
  <2>2. CASE q # r
    BY <1>1, <1>6, <2>2 DEF LeaseOK, ClientInv
  <2> QED BY <2>1, <2>2
<1>11. ASSUME NEW k \in Provider PROVE ClientOK(k)'
  <2>1. ClientOK(k) /\ (active[k] # 0 => active[k] \in Slot)
    BY DEF ClientInv, RouterTypeOK, Slot
  <2> QED BY <1>1, <1>7, <2>1 DEF ClientOK
<1>12. KnownOK'
  <2>1. ASSUME NEW q \in Request
        PROVE  /\ req'[q].rest \subseteq req[q].rest
               /\ req'[q].pc = "confirm" => q # r
    BY <1>6, IdleType
  <2> QED BY <1>1, <1>2, <1>6, <1>7, <2>1 DEF KnownOK
<1> QED BY <1>6, <1>9, <1>10, <1>11, <1>12 DEF ClientInv

(* The end of a call is told to the circuit when the lease is current; the  *)
(* client is released (_completion, _release_client).                       *)
LEMMA CallEndsInv ==
    ASSUME RouterAssumption, RouterInv, NEW r \in Request,
           NEW outcome \in Outcome, CallEnds(r, outcome)
    PROVE  RouterInv'
<1> USE DEF RouterInv
<1> DEFINE l == req[r].lease
           p == l.provider
           d == IF Counts(l) THEN Reported(circuit[p], l, outcome)
                ELSE circuit[p]
           m == IF outcome = "retryable"
                THEN [req[r] EXCEPT !.pc = "next", !.lease = NoLease]
                ELSE IdleRequest
<1>1. /\ req[r].pc = "calling"
      /\ circuit' = [circuit EXCEPT ![p] = d]
      /\ req' = [Outdated(req, p, d) EXCEPT ![r] = m]
      /\ Enqueue \/ UNCHANGED telemetry
      /\ UNCHANGED <<known, config, cache, slots, active, closer, router>>
  BY DEF CallEnds, Enqueue, database, clients, telemetry
<1>2. req[r] \in Caller /\ l \in Lease /\ p \in Provider /\ circuit[p] \in Circuit
  <2>1. LeaseOK(r) /\ req[r] \in Caller
    BY DEF ClientInv, RouterTypeOK
  <2>2. l \in Lease /\ p \in Provider
    BY <1>1, <2>1 DEF LeaseOK, Caller
  <2> QED BY <2>1, <2>2 DEF RouterTypeOK
<1>3. /\ m \in Caller /\ m.pc # "calling" /\ m.pc # "confirm"
      /\ m.lease = NoLease /\ m.rest \subseteq req[r].rest
  BY <1>2, IdleType DEF Caller
<1>4. RouterGoesOn
  BY <1>1 DEF RouterGoesOn
<1> HIDE DEF m
<1>5. /\ CircuitInv' /\ circuit' \in [Provider -> Circuit]
      /\ req' \in [Request -> Caller] /\ req'[r] = m
      /\ \A q \in Request \ {r} :
             /\ req'[q].pc = req[q].pc /\ req'[q].rest = req[q].rest
             /\ req'[q].ids = req[q].ids
             /\ req'[q].lease.provider = req[q].lease.provider
             /\ req'[q].lease.slot = req[q].lease.slot
             /\ req[q].lease = NoLease => req'[q].lease = NoLease
  <2>1. CASE l.current
    <3>1. d = Reported(circuit[p], l, outcome) /\ Holds(r, p)
      BY <2>1 DEF Counts, Holds
    <3>2. IF l.probe
          THEN circuit[p].state = "half_open" /\ circuit[p].probe
          ELSE circuit[p].state = "closed" /\ circuit[p].failures < Threshold
      BY <1>2, <3>1 DEF CircuitInv, CircuitOK
    <3> HIDE DEF d, l, p
    <3>3. /\ d \in Circuit /\ d.state \in {"closed", "open"}
          /\ d.state = "closed" => d.failures < Threshold
          /\ circuit[p].state # "open"
      BY <1>2, <3>1, <3>2, ReportOf
    <3>4. req[r].lease.provider \in {p, NoProvider}
      BY DEF p, l
    <3> QED BY <1>1, <1>2, <1>3, <1>4, <3>3, <3>4, CircuitTold
  <2>2. CASE ~l.current
    <3>1. d = circuit[p]
      BY <2>2 DEF Counts
    <3>2. Outdated(req, p, d) = req /\ circuit' = circuit
      BY <1>1, <1>2, <3>1 DEF Outdated, NewGeneration, RouterTypeOK
    <3>3. /\ req' \in [Request -> Caller] /\ req'[r] = m
          /\ \A q \in Request \ {r} : req'[q] = req[q]
      BY <1>1, <1>3, <3>2 DEF RouterTypeOK
    <3>4. ASSUME NEW k \in Provider, NEW q \in Request
          PROVE  /\ Holds(q, k)' <=> Holds(q, k)
                 /\ Holds(q, k) => req'[q].lease.probe = req[q].lease.probe
      <4>1. CASE q = r
        BY <1>3, <2>2, <3>3, <4>1 DEF Holds, NoLease
      <4>2. CASE q # r
        BY <3>3, <4>2 DEF Holds
      <4> QED BY <4>1, <4>2
    <3>5. CircuitInv'
      BY <1>4, <3>2, <3>4, CircuitKept DEF CircuitInv
    <3> QED BY <3>2, <3>3, <3>5 DEF RouterTypeOK
  <2> QED BY <2>1, <2>2
<1>6. queued' \in 0..QueueMax /\ worker' \in {"none", "ready", "writing"}
  BY <1>1 DEF Enqueue, telemetry, RouterTypeOK, RouterAssumption
<1>7. RouterTypeOK'
  BY <1>1, <1>5, <1>6 DEF RouterTypeOK
<1>8. ASSUME NEW q \in Request PROVE LeaseOK(q)'
  <2>1. CASE q = r
    BY <1>3, <1>5, <2>1 DEF LeaseOK
  <2>2. CASE q # r
    <3>1. LeaseOK(q) /\ slots' = slots
      BY <1>1 DEF ClientInv
    <3>2. /\ req'[q].pc = req[q].pc
          /\ req'[q].lease.provider = req[q].lease.provider
          /\ req'[q].lease.slot = req[q].lease.slot
          /\ req[q].lease = NoLease => req'[q].lease = NoLease
      BY <1>5, <2>2
    <3> QED BY <3>1, <3>2 DEF LeaseOK
  <2> QED BY <2>1, <2>2
<1>9. ClientInv'
  BY <1>1, <1>8 DEF ClientInv, ClientOK
<1>10. KnownOK'
  <2>1. KnownGoesOn
    BY <1>1, <1>3, <1>5 DEF KnownGoesOn
  <2> QED BY <1>1, <1>4, <2>1, KnownKept
<1> QED BY <1>5, <1>7, <1>9, <1>10

(* A call claims its circuit and uses the active client of the provider, or *)
(* a new one; the old one is retired (_claim_circuit, _acquire_client).     *)
LEMMA CallInv ==
    ASSUME RouterAssumption, RouterInv, NEW r \in Request,
           NEW p \in Provider, NEW c \in 1..MaxConfig, NEW s \in Slot,
           Call(r, p, c, s)
    PROVE  RouterInv'
<1> USE DEF RouterInv
<1> DEFINE d == Claimed(circuit[p])
           m == [req[r] EXCEPT
                    !.pc = "calling", !.lease = LeaseOf(p, s),
                    !.attempts = @ + 1,
                    !.rest = {i \in @ : i > First(Claimable(r))}]
<1>1. /\ MayAttempt(r, p, c) /\ router = "open" /\ cache[p] # "closed"
      /\ cache' = [cache EXCEPT ![p] = "open"]
      /\ circuit' = [circuit EXCEPT ![p] = d]
      /\ req' = [req EXCEPT ![r] = m]
      /\ UNCHANGED <<known, config, closer, router, queued, worker>>
  BY DEF Call, database, telemetry
<1>2. /\ known[p] # "unborn" /\ CanClaim(circuit[p])
      /\ circuit[p] \in Circuit /\ req[r] \in Caller
      /\ req[r].pc = "next" /\ req[r].lease = NoLease
      /\ req[r].attempts < MaxAttempts
  BY <1>1, AttemptOf DEF MayAttempt
<1>3. /\ LeaseOf(p, s) \in Lease /\ LeaseOf(p, s).provider = p
      /\ LeaseOf(p, s).slot = s /\ LeaseOf(p, s).current
      /\ LeaseOf(p, s).probe = (circuit[p].state # "closed")
  <2>1. s \in 0..MaxSlots
    BY DEF Slot, RouterAssumption
  <2>2. (circuit[p].state # "closed") \in BOOLEAN
    OBVIOUS
  <2> QED BY <2>1, <2>2 DEF LeaseOf, Lease
<1>4. /\ m \in Caller /\ m.pc = "calling" /\ m.lease = LeaseOf(p, s)
      /\ m.rest \subseteq req[r].rest
  <2>1. req[r].attempts + 1 \in 0..MaxAttempts
    BY <1>2 DEF Caller, RouterAssumption
  <2> QED BY <1>2, <1>3, <2>1 DEF Caller
<1>5. /\ d \in Circuit /\ circuit[p].state # "half_open"
      /\ circuit[p].state = "closed" => d = circuit[p]
      /\ circuit[p].state # "closed" =>
             /\ d.state = "half_open" /\ d.probe
             /\ \A q \in Request : ~Holds(q, p)
  BY <1>2, ClaimedCircuit
<1> HIDE DEF d, m
<1>6. /\ circuit' \in [Provider -> Circuit] /\ circuit'[p] = d
      /\ \A k \in Provider \ {p} : circuit'[k] = circuit[k]
  BY <1>1, <1>5 DEF RouterTypeOK
<1>7. /\ req' \in [Request -> Caller] /\ req'[r] = m
      /\ \A q \in Request \ {r} : req'[q] = req[q]
  BY <1>1, <1>4 DEF RouterTypeOK
<1>8. RouterGoesOn
  BY <1>1 DEF RouterGoesOn
<1>9. \A k \in Provider : ~Holds(r, k)
  BY <1>2 DEF Holds, NoLease, RouterAssumption
<1>10. CircuitOK(p)'
  <2>1. CircuitOK(p)
    BY DEF CircuitInv
  <2>2. \A q \in Request \ {r} : Holds(q, p)' =>
                                   Holds(q, p) /\ req'[q] = req[q]
    BY <1>7 DEF Holds
  <2>3. Holds(r, p)' /\ (req'[r].lease.probe <=> circuit[p].state # "closed")
    BY <1>3, <1>4, <1>7 DEF Holds
  <2>4. CASE circuit[p].state = "closed"
    BY <1>5, <1>6, <2>1, <2>2, <2>3, <2>4 DEF CircuitOK, Probing
  <2>5. CASE circuit[p].state # "closed"
    BY <1>5, <1>6, <2>2, <2>3, <2>5 DEF CircuitOK, Probing
  <2> QED BY <2>4, <2>5
<1>11. ASSUME NEW k \in Provider, k # p PROVE CircuitOK(k)'
  <2>1. ASSUME NEW q \in Request
        PROVE  /\ Holds(q, k)' <=> Holds(q, k)
               /\ Holds(q, k) => req'[q].lease.probe = req[q].lease.probe
    <3>1. CASE q = r
      BY <1>3, <1>4, <1>7, <1>9, <1>11, <3>1 DEF Holds
    <3>2. CASE q # r
      BY <1>7, <3>2 DEF Holds
    <3> QED BY <3>1, <3>2
  <2> QED BY <1>6, <1>8, <1>11, <2>1, CircuitKept DEF CircuitInv
<1>12. CircuitInv'
  BY <1>10, <1>11 DEF CircuitInv
<1>13. /\ cache' \in [Provider -> {"none", "open", "closed"}]
       /\ cache'[p] = "open"
       /\ \A k \in Provider \ {p} : cache'[k] = cache[k]
  BY <1>1 DEF RouterTypeOK
<1>14. /\ slots' \in [Provider -> [Slot -> Client]]
       /\ active' \in [Provider -> 0..MaxSlots]
       /\ active'[p] = s /\ slots'[p][s].state = "open"
       /\ \A t \in Slot : slots[p][t].state \in {"open", "waiting"} =>
                              slots'[p][t].state \in {"open", "waiting"}
       /\ \A k \in Provider \ {p} :
              active'[k] = active[k] /\ slots'[k] = slots[k]
  <2> DEFINE new == [state |-> "open", config |-> c]
             row == [t \in Slot |->
                       IF t = s THEN new
                       ELSE IF t = active[p] THEN Retired(slots[p][t])
                       ELSE slots[p][t]]
  <2>1. slots \in [Provider -> [Slot -> Client]] /\ s \in 0..MaxSlots
        /\ active \in [Provider -> 0..MaxSlots]
    BY DEF RouterTypeOK, Slot, RouterAssumption
  <2>2. CASE active[p] # 0 /\ slots[p][active[p]].config = c
    <3>1. s = active[p] /\ UNCHANGED <<slots, active>>
      BY <2>2 DEF Call
    <3>2. ClientOK(p)
      BY DEF ClientInv
    <3>3. cache[p] \in {"none", "open"}
      BY <1>1 DEF RouterTypeOK
    <3>4. slots[p][s].state = "open"
      BY <2>2, <3>1, <3>2, <3>3 DEF ClientOK
    <3> QED BY <2>1, <3>1, <3>4
  <2>3. CASE ~(active[p] # 0 /\ slots[p][active[p]].config = c)
    <3>1. /\ slots[p][s].state = "none"
          /\ slots' = [slots EXCEPT ![p] = row]
          /\ active' = [active EXCEPT ![p] = s]
      BY <2>3 DEF Call
    <3>2. new \in Client /\ new.state = "open"
      BY DEF Client
    <3> HIDE DEF new
    <3>3. row \in [Slot -> Client] /\ row[s].state = "open"
      BY <2>1, <3>2, RetiredClient
    <3>4. ASSUME NEW t \in Slot, slots[p][t].state \in {"open", "waiting"}
          PROVE  row[t].state \in {"open", "waiting"}
      BY <2>1, <3>1, <3>4, RetiredClient
    <3> HIDE DEF row
    <3> QED BY <2>1, <3>1, <3>3, <3>4
  <2> QED BY <2>2, <2>3
<1>15. RouterTypeOK'
  BY <1>1, <1>6, <1>7, <1>13, <1>14 DEF RouterTypeOK
<1>16. ASSUME NEW q \in Request PROVE LeaseOK(q)'
  <2>1. CASE q = r
    BY <1>3, <1>4, <1>7, <1>14, <2>1 DEF LeaseOK
  <2>2. CASE q # r
    <3>1. LeaseOK(q) /\ req'[q] = req[q]
      BY <1>7, <2>2 DEF ClientInv
    <3>2. CASE req[q].pc = "calling"
      <4> DEFINE k == req[q].lease.provider
                 t == req[q].lease.slot
      <4>1. /\ k \in Provider /\ t \in Slot
            /\ slots[k][t].state \in {"open", "waiting"}
        BY <3>1, <3>2 DEF LeaseOK
      <4>2. slots'[k][t].state \in {"open", "waiting"}
        BY <1>14, <4>1
      <4> QED BY <3>1, <3>2, <4>1, <4>2 DEF LeaseOK
    <3>3. CASE req[q].pc # "calling"
      BY <3>1, <3>3 DEF LeaseOK
    <3> QED BY <3>2, <3>3
  <2> QED BY <2>1, <2>2
<1>17. ASSUME NEW k \in Provider PROVE ClientOK(k)'
  <2>1. CASE k = p
    BY <1>1, <1>13, <1>14, <2>1 DEF ClientOK
  <2>2. CASE k # p
    <3>1. ClientOK(k) /\ UNCHANGED router
      BY <1>1 DEF ClientInv
    <3>2. /\ active'[k] = active[k] /\ slots'[k] = slots[k]
          /\ cache'[k] = cache[k]
      BY <1>13, <1>14, <2>2
    <3> QED BY <3>1, <3>2 DEF ClientOK
  <2> QED BY <2>1, <2>2
<1>18. KnownOK'
  <2>1. \A q \in Request : /\ req'[q].rest \subseteq req[q].rest
                           /\ req'[q].pc = "confirm" => req'[q] = req[q]
    BY <1>4, <1>7
  <2> QED BY <1>1, <1>2, <1>13, <2>1 DEF KnownOK
<1> QED BY <1>12, <1>15, <1>16, <1>17, <1>18 DEF ClientInv

-----------------------------------------------------------------------------
(* The invariant                                                           *)

(* The router starts with closed circuits and without clients.              *)
LEMMA RouterInitInv ==
    ASSUME RouterAssumption, Init
    PROVE  RouterInv
<1>1. /\ ClosedCircuit \in Circuit /\ ClosedCircuit.state = "closed"
      /\ ClosedCircuit.failures < Threshold
  BY DEF ClosedCircuit, Circuit, RouterAssumption
<1>2. NoClient \in Client /\ NoClient.state = "none"
  BY DEF NoClient, Client, RouterAssumption
<1>3. NoLease.provider = NoProvider
  BY DEF NoLease
<1>4. RouterTypeOK
  BY <1>1, <1>2, IdleType DEF Init, RouterTypeOK, RouterAssumption
<1>5. CircuitInv
  BY <1>1, <1>3, IdleType
     DEF Init, CircuitInv, CircuitOK, Holds, Probing, RouterAssumption
<1>6. ClientInv
  BY <1>2, IdleType DEF Init, ClientInv, LeaseOK, ClientOK
<1>7. KnownOK
  BY IdleType DEF Init, KnownOK
<1> QED BY <1>4, <1>5, <1>6, <1>7 DEF RouterInv

(* One step for each action.                                                *)
LEMMA RouterInvStep == RouterInv /\ [Next]_vars => RouterInv'
<1> SUFFICES ASSUME RouterInv, [Next]_vars PROVE RouterInv'
  OBVIOUS
<1> USE RouterAssumption
<1>1. ASSUME NEW p \in Provider, CooldownEnds(p) \/ ApiStep(p)
      PROVE  RouterInv'
  BY <1>1, CooldownEndsInv, ApiInv
<1>2. ASSUME NEW p \in Provider, CloseStep(p) PROVE RouterInv'
  BY <1>2, ProviderClosesInv, CloseClientInv, ClientClosesInv DEF CloseStep
<1>3. ASSUME NEW r \in Request, Attempt(r) PROVE RouterInv'
  <2>1. PICK p \in Provider, c \in 1..MaxConfig :
            \/ AttemptWhenClosed(r, p, c) \/ AttemptUnconfigured(r, p, c)
            \/ \E s \in Slot : Call(r, p, c, s)
    BY <1>3 DEF Attempt
  <2> QED BY <2>1, AttemptWhenClosedInv, AttemptUnconfiguredInv, CallInv
<1>4. ASSUME NEW r \in Request, RequestStep(r) PROVE RouterInv'
  BY <1>3, <1>4, BeginInv, ReadRouteInv, FindStaleInv, PruneInv, CallEndsInv
     DEF RequestStep, Returns
<1>5. CASE RouterStep
  BY <1>5, RouterStepInv
<1>6. CASE UNCHANGED vars
  <2>1. UNCHANGED <<known, config, circuit, cache, slots, active, closer, req,
                    router, queued, worker>>
    BY <1>6 DEF vars, database, clients, telemetry
  <2>2. RouterTypeOK'
    BY <2>1 DEF RouterInv, RouterTypeOK
  <2>3. SameLeases /\ RouterGoesOn /\ KnownGoesOn
    BY <2>1 DEF SameLeases, RouterGoesOn, KnownGoesOn
  <2> QED BY <2>1, <2>2, <2>3, CircuitsKept, ClientsKept, KnownKept
          DEF RouterInv
<1> QED BY <1>1, <1>2, <1>4, <1>5, <1>6 DEF Next

(* The invariant holds in every reachable state.                            *)
LEMMA RouterInvariance == Spec => []RouterInv
<1>1. Init => RouterInv
  BY RouterInitInv, RouterAssumption
<1> QED BY <1>1, RouterInvStep, PTL DEF Spec

-----------------------------------------------------------------------------
(* Circuits, clients and requests are well typed in every reachable state.  *)
THEOREM RouterTypeCorrect == Spec => []RouterTypeOK
BY RouterInvariance, PTL DEF RouterInv

(* A half-open circuit has its one probe under way (_claim_circuit).        *)
THEOREM EveryProbeIsAnswered == Spec => []ProbesAreAnswered
<1>1. RouterInv => ProbesAreAnswered
  <2> SUFFICES ASSUME RouterInv, NEW p \in Provider
               PROVE  LET probes == {r \in Request : Probing(r, p)}
                      IN  /\ Cardinality(probes) <= 1
                          /\ router = "open" =>
                                 (circuit[p].state = "half_open" <=>
                                      probes # {})
    BY DEF ProbesAreAnswered, Probing, Holds
  <2> DEFINE probes == {r \in Request : Probing(r, p)}
  <2>1. CircuitOK(p)
    BY DEF RouterInv, CircuitInv
  <2>2. Cardinality(probes) <= 1
    <3>1. CASE probes = {}
      BY <3>1, FS_EmptySet
    <3>2. CASE probes # {}
      <4>1. PICK r : r \in probes
        BY <3>2
      <4>2. probes = {} \cup {r}
        BY <2>1, <4>1 DEF CircuitOK
      <4>3. Cardinality({} \cup {r}) = 1
        BY FS_EmptySet, FS_AddElement
      <4> QED BY <4>2, <4>3
    <3> QED BY <3>1, <3>2
  <2>3. probes # {} => circuit[p].state = "half_open"
    BY <2>1 DEF CircuitOK, Probing
  <2>4. router = "open" /\ circuit[p].state = "half_open" => probes # {}
    BY <2>1 DEF CircuitOK
  <2> QED BY <2>2, <2>3, <2>4
<1> QED BY <1>1, RouterInvariance, PTL

(* No client is closed under a call, and a closed router has none left      *)
(* (_close_slot, aclose).                                                   *)
THEOREM NoClientClosesEarly == Spec => []ClientsOutliveCalls
<1>1. RouterInv => ClientsOutliveCalls
  BY DEF RouterInv, ClientInv, LeaseOK, ClientOK, KnownOK,
         ClientsOutliveCalls
<1> QED BY <1>1, RouterInvariance, PTL

(* A circuit that opened is closed again by its probe only, whatever late   *)
(* answers come (CircuitLease.generation, _provider_succeeded).             *)
THEOREM LateAnswersCloseNothing == Spec => OnlyProbesClose
<1> USE RouterAssumption
<1> DEFINE Closes(p) == circuit[p].state # "closed" /\ circuit'[p].state = "closed"
           ByProbe(p) == \E r \in Request : /\ req[r].lease.provider = p
                                            /\ req[r].lease.probe
                                            /\ req'[r].pc = "idle"
<1>1. ASSUME RouterInv, [Next]_vars, NEW p \in Provider, Closes(p)
      PROVE  ByProbe(p)
  <2>1. circuit \in [Provider -> Circuit]
    BY <1>1 DEF RouterInv, RouterTypeOK
  <2>2. ASSUME NEW k \in Provider, NEW d,
               circuit' = [circuit EXCEPT ![k] = d]
        PROVE  k = p /\ circuit'[p] = d
    BY <1>1, <2>1, <2>2
  <2>3. ASSUME NEW k \in Provider, CanClaim(circuit[k]),
               circuit' = [circuit EXCEPT ![k] = Claimed(circuit[k])]
        PROVE  FALSE
    <3>1. k = p /\ circuit'[p] = Claimed(circuit[p])
      BY <2>2, <2>3
    <3> QED BY <1>1, <2>3, <3>1, ClaimedCircuit
  <2>4. ASSUME NEW r \in Request, NEW k \in Provider, NEW c \in 1..MaxConfig,
               AttemptUnconfigured(r, k, c)
        PROVE  FALSE
    <3> DEFINE l == LeaseOf(k, 0)
               n == Claimed(circuit[k])
    <3>1. circuit' = [circuit EXCEPT ![k] = Failed(n, l, FALSE)]
          /\ MayAttempt(r, k, c)
      BY <2>4 DEF AttemptUnconfigured
    <3>2. k = p /\ circuit'[p] = Failed(n, l, FALSE)
      BY <2>2, <3>1
    <3>3. l.probe /\ n.state = "half_open" /\ n.probe
      <4>1. CanClaim(circuit[k])
        BY <1>1, <3>1, AttemptOf
      <4> QED BY <1>1, <3>2, <4>1, ClaimedCircuit DEF LeaseOf
    <3>4. Failed(n, l, FALSE) = [Opened(n) EXCEPT !.failures = Threshold]
      BY <3>3 DEF Failed, Awaited
    <3>5. n \in Circuit
      BY <1>1, <3>1, AttemptOf, ClaimedCircuit
    <3> QED BY <1>1, <3>2, <3>4, <3>5 DEF Opened, Circuit
  <2>5. ASSUME NEW r \in Request, NEW outcome \in Outcome, CallEnds(r, outcome)
        PROVE  ByProbe(p)
    <3> DEFINE l == req[r].lease
               k == l.provider
               d == IF Counts(l) THEN Reported(circuit[k], l, outcome)
                    ELSE circuit[k]
    <3>1. /\ req[r].pc = "calling" /\ circuit' = [circuit EXCEPT ![k] = d]
          /\ outcome # "retryable" => req'[r] = IdleRequest
      BY <1>1, <2>5
         DEF CallEnds, RouterInv, RouterTypeOK, Outdated
    <3>2. k \in Provider /\ l \in Lease
      BY <1>1, <3>1 DEF RouterInv, RouterTypeOK, Caller, ClientInv, LeaseOK
    <3>3. k = p /\ circuit'[p] = d
      BY <2>2, <3>1, <3>2
    <3>4. l.current /\ d = Reported(circuit[p], l, outcome)
      BY <1>1, <3>3 DEF Counts
    <3>5. l.probe /\ circuit[p].state = "half_open" /\ circuit[p].probe
      BY <1>1, <3>3, <3>4 DEF RouterInv, CircuitInv, CircuitOK, Holds
    <3>6. outcome = "success"
      BY <1>1, <2>1, <3>2, <3>3, <3>4, <3>5, ReportOf
    <3>7. req'[r].pc = "idle"
      BY <3>1, <3>6, IdleType
    <3> QED BY <3>3, <3>5, <3>7
  <2>6. ASSUME NEW r \in Request, Attempt(r) PROVE FALSE
    <3>1. PICK k \in Provider, c \in 1..MaxConfig :
              \/ AttemptWhenClosed(r, k, c) \/ AttemptUnconfigured(r, k, c)
              \/ \E s \in Slot : Call(r, k, c, s)
      BY <2>6 DEF Attempt
    <3>2. CASE AttemptUnconfigured(r, k, c)
      BY <2>4, <3>2
    <3>3. CASE ~AttemptUnconfigured(r, k, c)
      <4>1. /\ MayAttempt(r, k, c)
            /\ circuit' = [circuit EXCEPT ![k] = Claimed(circuit[k])]
        BY <3>1, <3>3 DEF AttemptWhenClosed, Call
      <4>2. CanClaim(circuit[k])
        BY <1>1, <4>1, AttemptOf
      <4> QED BY <2>3, <4>1, <4>2
    <3> QED BY <3>2, <3>3
  <2>7. ASSUME NEW k \in Provider, CooldownEnds(k) PROVE FALSE
    BY <1>1, <2>1, <2>7 DEF CooldownEnds, Circuit
  <2>8. \/ UNCHANGED circuit
        \/ \E k \in Provider : CooldownEnds(k)
        \/ \E r \in Request : Attempt(r) \/ Returns(r)
    BY <1>1
       DEF Next, vars, CloseStep, ProviderCloses, CloseClient, ClientCloses,
           ClientCloseFails, KeepCallers, ApiStep, CreateProvider,
           UpdateProvider, DeleteProvider, KeepRouter, RequestStep, Begin,
           ReadRoute, FindStale, Prune, NoAttempt, GiveUp, RouterStep, Close,
           ProvidersClosed, CloseRaises, TelemetryDropped, TelemetryFlushed,
           TakeRecord, RecordWritten, KeepRequests, KeepTelemetryOwners
  <2> QED BY <1>1, <2>5, <2>6, <2>7, <2>8 DEF Returns
<1>2. RouterInv /\ [Next]_vars =>
          [\A p \in Provider : Closes(p) => ByProbe(p)]_vars
  BY <1>1
<1> QED BY <1>2, RouterInvariance, PTL DEF Spec, OnlyProbesClose
=============================================================================
