------------------------------ MODULE LLMRouter ------------------------------
(***************************************************************************)
(* Calls of language models.  A request reads the chain of providers of    *)
(* its route and tries them in order, as their circuits allow.  Each       *)
(* provider keeps a client for its configuration; a client that was        *)
(* replaced is closed when its calls have ended.  Providers that were      *)
(* deleted are pruned, and the router is closed with the application.      *)
(*                                                                         *)
(* Everything runs on one event loop: a step goes from one await that      *)
(* really suspends to the next.  The database is read in threads.          *)
(*                                                                         *)
(* The generation of a circuit only ever serves to tell whether a lease is *)
(* still of the current one: current says that of every lease, and where   *)
(* the code counts the generation up, its leases stop being current.  A    *)
(* slot of a provider that is given back may be taken anew.                *)
(***************************************************************************)
EXTENDS Sequences, Naturals, FiniteSets

CONSTANTS
    Provider,      \* ids of providers
    NoProvider,    \* what a request without a lease has leased
    Chain,         \* the order of the providers in the route
    Request,       \* callers, each with one request after the other
    Threshold,     \* CIRCUIT_FAILURE_THRESHOLD
    MaxAttempts,   \* MAX_PROVIDER_ATTEMPTS
    MaxConfig,     \* bound: versions of a provider's configuration
    MaxSlots,      \* bound: clients a provider has at one time
    QueueMax       \* telemetry_queue_size

ASSUME RouterAssumption ==
    /\ NoProvider \notin Provider
    /\ Chain \in Seq(Provider)
    /\ {Threshold, MaxAttempts, MaxConfig, MaxSlots, QueueMax}
           \subseteq Nat \ {0}

VARIABLES
    known,      \* the database: has a provider been created, or deleted?
    config,     \* the database: the configuration of each provider
    circuit,    \* circuits
    cache,      \* _providers: whether a provider is cached, and closed
    slots,      \* _slots of the cached provider
    active,     \* _active_slot of the cached provider, or 0
    closer,     \* _provider_close_tasks
    req,        \* the requests
    router,     \* whether the router is closed, and how far aclose is
    queued,     \* _telemetry_queue: how many records
    worker      \* _telemetry_worker

database == <<known, config>>
clients == <<cache, slots, active, closer>>
telemetry == <<queued, worker>>
vars == <<database, circuit, clients, req, router, telemetry>>

Slot == 1..MaxSlots

\* cooled: the cooldown is over.
Circuit == [state : {"closed", "open", "half_open"}, failures : 0..Threshold,
            cooled : BOOLEAN, probe : BOOLEAN]

ClosedCircuit == [state |-> "closed", failures |-> 0, cooled |-> FALSE,
                  probe |-> FALSE]

\* waiting: the close of the client waits until its calls have ended;
\* failed: it raised.  All but open clients are retired.
Client == [state : {"none", "open", "waiting", "closing", "failed"},
           config : 0..MaxConfig]

NoClient == [state |-> "none", config |-> 0]

Lease == [provider : Provider \cup {NoProvider}, slot : 0..MaxSlots,
          probe : BOOLEAN, current : BOOLEAN]

NoLease == [provider |-> NoProvider, slot |-> 0, probe |-> FALSE,
            current |-> FALSE]

\* rest: the positions of the chain that are still to come; read: the
\* configurations of the snapshot; ids: its provider_ids, then the candidates
\* for pruning.
Caller == [pc : {"idle", "snapshot", "read", "confirm", "next", "calling"},
           rest : SUBSET (DOMAIN Chain),
           read : [Provider -> 1..MaxConfig], ids : SUBSET Provider,
           attempts : 0..MaxAttempts, lease : Lease]

IdleRequest == [pc |-> "idle", rest |-> {}, read |-> [p \in Provider |-> 1],
                ids |-> {}, attempts |-> 0, lease |-> NoLease]

RouterTypeOK ==
    /\ known \in [Provider -> {"unborn", "live", "deleted"}]
    /\ config \in [Provider -> 1..MaxConfig]
    /\ circuit \in [Provider -> Circuit]
    /\ cache \in [Provider -> {"none", "open", "closed"}]
    /\ slots \in [Provider -> [Slot -> Client]]
    /\ active \in [Provider -> 0..MaxSlots]
    /\ closer \in [Provider -> {"none", "running", "failed"}]
    /\ req \in [Request -> Caller]
    /\ router \in {"open", "closing", "broken", "flushing", "closed"}
    /\ queued \in 0..QueueMax
    /\ worker \in {"none", "ready", "writing"}

Init ==
    /\ known \in [Provider -> {"unborn", "live"}]
    /\ config = [p \in Provider |-> 1]
    /\ circuit = [p \in Provider |-> ClosedCircuit]
    /\ cache = [p \in Provider |-> "none"]
    /\ slots = [p \in Provider |-> [s \in Slot |-> NoClient]]
    /\ active = [p \in Provider |-> 0]
    /\ closer = [p \in Provider |-> "none"]
    /\ req = [r \in Request |-> IdleRequest]
    /\ router = "open"
    /\ queued = 0
    /\ worker = "none"

-----------------------------------------------------------------------------
(* Circuits                                                                *)

Opened(c) == [c EXCEPT !.state = "open", !.cooled = FALSE, !.probe = FALSE]

CanClaim(c) ==
    \/ c.state = "closed"
    \/ c.state = "open" /\ c.cooled
    \/ c.state = "half_open" /\ ~c.probe

Claimed(c) ==
    IF c.state = "closed" THEN c
    ELSE [c EXCEPT !.state = "half_open", !.probe = TRUE]

\* The report of a probe counts while the circuit waits for it.
Awaited(c, l) == l.probe => c.state = "half_open" /\ c.probe

Succeeded(c, l) == IF Awaited(c, l) THEN ClosedCircuit ELSE c

Failed(c, l, retryable) ==
    IF ~Awaited(c, l) THEN c
    ELSE IF l.probe THEN [Opened(c) EXCEPT !.failures = Threshold]
    ELSE IF ~retryable THEN ClosedCircuit
    ELSE IF c.failures + 1 >= Threshold
         THEN [Opened(c) EXCEPT !.failures = c.failures + 1]
    ELSE [c EXCEPT !.failures = @ + 1, !.probe = FALSE]

\* Seeded fault: nobody tells the circuit that its probe was cancelled.
AbortForgotten(c, l) == c

Aborted(c, l) ==
    IF l.probe /\ Awaited(c, l)
    THEN [Opened(c) EXCEPT !.failures = Threshold] ELSE c

Outcome == {"success", "retryable", "final", "cancelled"}

Reported(c, l, outcome) ==
    CASE outcome = "success" -> Succeeded(c, l)
      [] outcome = "retryable" -> Failed(c, l, TRUE)
      [] outcome = "final" -> Failed(c, l, FALSE)
      [] outcome = "cancelled" -> Aborted(c, l)

\* A circuit counts its generation up when it leaves these states.
NewGeneration(c, d) == c.state \in {"closed", "half_open"} /\ d.state # c.state

\* Seeded fault: reports count whenever the call began.
CountsAlways(l) == TRUE

Counts(l) == l.current

\* circuit[p] becomes d, and the leases of an old generation stop counting.
Outdated(q, p, d) ==
    IF NewGeneration(circuit[p], d)
    THEN [r \in Request |-> IF q[r].lease.provider = p
                            THEN [q[r] EXCEPT !.lease.current = FALSE]
                            ELSE q[r]]
    ELSE q

CooldownEnds(p) ==
    /\ circuit[p].state = "open" /\ ~circuit[p].cooled
    /\ circuit' = [circuit EXCEPT ![p].cooled = TRUE]
    /\ UNCHANGED <<database, clients, req, router, telemetry>>

-----------------------------------------------------------------------------
(* Telemetry                                                               *)

Accepting == router \notin {"flushing", "closed"}

\* _enqueue_record: what does not fit is dropped, and counted elsewhere.
Enqueue ==
    IF Accepting /\ queued < QueueMax
    THEN /\ queued' = queued + 1
         /\ worker' = IF worker = "none" THEN "ready" ELSE worker
    ELSE UNCHANGED telemetry

KeepTelemetryOwners == UNCHANGED <<database, circuit, clients, req, router>>

\* _drain_telemetry; the write may fail, that is counted too.
TakeRecord ==
    /\ worker = "ready"
    /\ IF queued = 0 THEN worker' = "none" /\ UNCHANGED queued
                     ELSE worker' = "writing" /\ queued' = queued - 1
    /\ KeepTelemetryOwners

RecordWritten ==
    /\ worker = "writing"
    /\ worker' = "ready" /\ UNCHANGED queued
    /\ KeepTelemetryOwners

-----------------------------------------------------------------------------
(* Providers in the database, changed through the API                      *)

KeepRouter == UNCHANGED <<circuit, clients, req, router, telemetry>>

CreateProvider(p) ==
    /\ known[p] = "unborn"
    /\ known' = [known EXCEPT ![p] = "live"]
    /\ UNCHANGED config /\ KeepRouter

UpdateProvider(p) ==
    /\ known[p] = "live" /\ config[p] < MaxConfig
    /\ config' = [config EXCEPT ![p] = @ + 1]
    /\ UNCHANGED known /\ KeepRouter

\* The chains no longer name it, and its id does not come back.
DeleteProvider(p) ==
    /\ known[p] = "live"
    /\ known' = [known EXCEPT ![p] = "deleted"]
    /\ UNCHANGED config /\ KeepRouter

-----------------------------------------------------------------------------
(* Closing clients and providers                                           *)

\* Seeded fault: nobody schedules the close of the client.
RetiredLater(c) == c

\* _schedule_slot_close_locked
Retired(c) ==
    IF c.state \in {"open", "failed"} THEN [c EXCEPT !.state = "waiting"]
    ELSE c

\* The providers in S are closed: OpenAICompatibleProvider.aclose begins.
\* A close that is under way is used again.
CloseProviders(S) ==
    LET begun == {p \in S : cache[p] # "none" /\ closer[p] # "running"}
    IN  /\ closer' = [p \in Provider |->
                         IF p \in begun THEN "running" ELSE closer[p]]
        /\ cache' = [p \in Provider |->
                        IF p \in begun THEN "closed" ELSE cache[p]]
        /\ slots' = [p \in Provider |->
                        IF p \in begun
                        THEN [s \in Slot |-> Retired(slots[p][s])]
                        ELSE slots[p]]
        /\ UNCHANGED active

\* The calls that a client serves.
Calls(p, s) == {r \in Request : /\ req[r].pc = "calling"
                                /\ req[r].lease.provider = p
                                /\ req[r].lease.slot = s}

\* Seeded fault: a close does not wait for the calls.
IdleAnyway(p, s) == TRUE

Idle(p, s) == Calls(p, s) = {}

KeepCallers == UNCHANGED <<database, circuit, req, router, telemetry>>

CloseClient(p, s) ==
    /\ slots[p][s].state = "waiting" /\ Idle(p, s)
    /\ slots' = [slots EXCEPT ![p][s].state = "closing"]
    /\ UNCHANGED <<cache, active, closer>> /\ KeepCallers

ClientCloses(p, s) ==
    /\ slots[p][s].state = "closing"
    /\ slots' = [slots EXCEPT ![p][s] = NoClient]
    /\ active' = [active EXCEPT ![p] = IF @ = s THEN 0 ELSE @]
    /\ UNCHANGED <<cache, closer>> /\ KeepCallers

\* Bound: a provider has one client at a time whose close has failed.
ClientCloseFails(p, s) ==
    /\ slots[p][s].state = "closing"
    /\ \A t \in Slot : slots[p][t].state # "failed"
    /\ slots' = [slots EXCEPT ![p][s].state = "failed"]
    /\ UNCHANGED <<cache, active, closer>> /\ KeepCallers

\* aclose of a provider raises when one of its clients could not be closed,
\* perhaps before the others have; the provider stays in the cache.
ProviderCloses(p) ==
    LET states == {slots[p][s].state : s \in Slot}
    IN  /\ closer[p] = "running"
        /\ \/ /\ states = {"none"}
              /\ closer' = [closer EXCEPT ![p] = "none"]
              /\ cache' = [cache EXCEPT ![p] = "none"]
           \/ /\ "failed" \in states
              /\ closer' = [closer EXCEPT ![p] = "failed"]
              /\ UNCHANGED cache
        /\ UNCHANGED <<slots, active>> /\ KeepCallers

-----------------------------------------------------------------------------
(* Requests                                                                *)

Ended(r) == req' = [req EXCEPT ![r] = IdleRequest]

Begin(r) ==
    /\ req[r].pc = "idle" /\ router = "open"
    /\ req' = [req EXCEPT ![r].pc = "snapshot"]
    /\ UNCHANGED <<database, circuit, clients, router, telemetry>>

\* get_route_chain; a provider is tried where the chain first names it.
LiveChain ==
    {i \in DOMAIN Chain : /\ known[Chain[i]] = "live"
                          /\ \A j \in 1..(i - 1) : Chain[j] # Chain[i]}

\* The thread has read the route; an empty chain ends the request later.
ReadRoute(r) ==
    /\ req[r].pc = "snapshot"
    /\ req' = [req EXCEPT ![r].pc = "read",
                          ![r].rest = LiveChain, ![r].read = config,
                          ![r].ids = {p \in Provider : known[p] = "live"}]
    /\ UNCHANGED <<database, circuit, clients, router, telemetry>>

PruneCandidates(r) == {p \in Provider : cache[p] # "none"} \ req[r].ids

FindStale(r) ==
    /\ req[r].pc = "read"
    /\ req' = [req EXCEPT ![r].pc = IF PruneCandidates(r) = {}
                                    THEN "next" ELSE "confirm",
                          ![r].ids = PruneCandidates(r)]
    /\ UNCHANGED <<database, circuit, clients, router, telemetry>>

\* The candidates that the second look does not find either.
Stale(ids) == {p \in ids : known[p] # "live"}

Prune(r) ==
    /\ req[r].pc = "confirm"
    /\ CloseProviders(Stale(req[r].ids))
    /\ req' = [req EXCEPT ![r].pc = "next", ![r].ids = {}]
    /\ UNCHANGED <<database, circuit, router, telemetry>>

\* The positions in the rest of the chain that a circuit lets through.
Claimable(r) ==
    {i \in req[r].rest : CanClaim(circuit[Chain[i]])}

First(S) == CHOOSE i \in S : \A j \in S : i <= j

NoAttempt(r) ==
    /\ req[r].pc = "next"
    /\ req[r].attempts = MaxAttempts \/ Claimable(r) = {}
    /\ Ended(r)
    /\ UNCHANGED <<database, circuit, clients, router, telemetry>>

MayAttempt(r, p, c) ==
    /\ req[r].pc = "next"
    /\ req[r].attempts < MaxAttempts /\ Claimable(r) # {}
    /\ p = Chain[First(Claimable(r))] /\ c = req[r].read[p]

LeaseOf(p, s) == [provider |-> p, slot |-> s, current |-> TRUE,
                  probe |-> circuit[p].state # "closed"]

\* The request has leased the circuit and then finds the router closed.
AttemptWhenClosed(r, p, c) ==
    /\ MayAttempt(r, p, c) /\ router # "open"
    /\ circuit' = [circuit EXCEPT ![p] = Claimed(@)]
    /\ Ended(r)
    /\ UNCHANGED <<database, clients, router, telemetry>>

\* The provider is being closed, or its key is missing: a final failure.
AttemptUnconfigured(r, p, c) ==
    /\ MayAttempt(r, p, c) /\ router = "open"
    /\ LET d == Failed(Claimed(circuit[p]), LeaseOf(p, 0), FALSE)
       IN  /\ circuit' = [circuit EXCEPT ![p] = d]
           /\ req' = [Outdated(req, p, d) EXCEPT ![r] = IdleRequest]
    /\ cache' = [cache EXCEPT ![p] = IF @ = "none" THEN "open" ELSE @]
    /\ Enqueue
    /\ UNCHANGED <<database, slots, active, closer, router>>

\* _acquire_client: the active client serves the configuration, or a new
\* one replaces it.
Call(r, p, c, s) ==
    /\ MayAttempt(r, p, c) /\ router = "open"
    /\ cache[p] # "closed"
    /\ cache' = [cache EXCEPT ![p] = "open"]
    /\ IF active[p] # 0 /\ slots[p][active[p]].config = c
       THEN s = active[p] /\ UNCHANGED <<slots, active>>
       ELSE /\ slots[p][s].state = "none"
            /\ \A t \in Slot : slots[p][t].state = "none" => s <= t
            /\ slots' = [slots EXCEPT ![p] =
                   [t \in Slot |->
                       IF t = s THEN [state |-> "open", config |-> c]
                       ELSE IF t = active[p] THEN Retired(slots[p][t])
                       ELSE slots[p][t]]]
            /\ active' = [active EXCEPT ![p] = s]
    /\ circuit' = [circuit EXCEPT ![p] = Claimed(@)]
    /\ req' = [req EXCEPT ![r].pc = "calling", ![r].lease = LeaseOf(p, s),
                          ![r].attempts = @ + 1,
                          ![r].rest = {i \in @ : i > First(Claimable(r))}]
    /\ UNCHANGED <<database, closer, router, telemetry>>

\* The call ends, the client is released and the circuit is told.  After a
\* retryable failure the next provider is tried.
CallEnds(r, outcome) ==
    LET l == req[r].lease
        p == l.provider
        d == IF Counts(l) THEN Reported(circuit[p], l, outcome)
             ELSE circuit[p]
    IN  /\ req[r].pc = "calling"
        /\ circuit' = [circuit EXCEPT ![p] = d]
        /\ req' = [Outdated(req, p, d) EXCEPT ![r] =
                      IF outcome = "retryable"
                      THEN [req[r] EXCEPT !.pc = "next", !.lease = NoLease]
                      ELSE IdleRequest]
        /\ IF outcome = "cancelled" THEN UNCHANGED telemetry ELSE Enqueue
        /\ UNCHANGED <<database, clients, router>>

\* The caller is cancelled, or the database fails, before there is a call.
GiveUp(r) ==
    /\ req[r].pc \in {"snapshot", "read", "confirm"}
    /\ Ended(r)
    /\ UNCHANGED <<database, circuit, clients, router, telemetry>>

-----------------------------------------------------------------------------
(* Closing the router                                                      *)

KeepRequests == UNCHANGED <<database, circuit, req>>

\* aclose, or another aclose after one that raised.
Close ==
    /\ router \in {"open", "broken"}
    /\ router' = "closing"
    /\ CloseProviders(Provider)
    /\ KeepRequests /\ UNCHANGED telemetry

ProvidersClosed ==
    /\ router = "closing"
    /\ \A p \in Provider : cache[p] = "none"
    /\ router' = "flushing"
    /\ worker' = IF queued > 0 /\ worker = "none" THEN "ready" ELSE worker
    /\ KeepRequests /\ UNCHANGED <<clients, queued>>

CloseRaises ==
    /\ router = "closing"
    /\ \E p \in Provider : closer[p] = "failed"
    /\ router' = "broken"
    /\ KeepRequests /\ UNCHANGED <<clients, telemetry>>

\* The flush times out: what is queued is dropped, the worker cancelled.
TelemetryDropped ==
    /\ router = "flushing"
    /\ router' = "closed" /\ queued' = 0 /\ worker' = "none"
    /\ KeepRequests /\ UNCHANGED clients

TelemetryFlushed ==
    /\ router = "flushing" /\ queued = 0 /\ worker # "writing"
    /\ router' = "closed"
    /\ KeepRequests /\ UNCHANGED <<clients, telemetry>>

-----------------------------------------------------------------------------
Attempt(r) ==
    \E p \in Provider, c \in 1..MaxConfig :
        \/ AttemptWhenClosed(r, p, c) \/ AttemptUnconfigured(r, p, c)
        \/ \E s \in Slot : Call(r, p, c, s)

Returns(r) == \E outcome \in Outcome : CallEnds(r, outcome)

CloseStep(p) ==
    \/ ProviderCloses(p)
    \/ \E s \in Slot :
           CloseClient(p, s) \/ ClientCloses(p, s) \/ ClientCloseFails(p, s)

ApiStep(p) == CreateProvider(p) \/ UpdateProvider(p) \/ DeleteProvider(p)

RequestStep(r) ==
    \/ Begin(r) \/ ReadRoute(r) \/ FindStale(r) \/ Prune(r)
    \/ NoAttempt(r) \/ Attempt(r) \/ Returns(r) \/ GiveUp(r)

RouterStep ==
    \/ Close \/ ProvidersClosed \/ CloseRaises
    \/ TelemetryDropped \/ TelemetryFlushed
    \/ TakeRecord \/ RecordWritten

Next ==
    \/ \E p \in Provider : CooldownEnds(p) \/ CloseStep(p) \/ ApiStep(p)
    \/ \E r \in Request : RequestStep(r)
    \/ RouterStep

Spec == Init /\ [][Next]_vars

\* The loop runs its tasks, calls have a timeout, and so have closes.
Fairness ==
    /\ \A p \in Provider : \A s \in Slot :
           /\ WF_vars(CloseClient(p, s))
           /\ WF_vars(ClientCloses(p, s) \/ ClientCloseFails(p, s))
    /\ \A r \in Request : WF_vars(Returns(r))

FairSpec == Spec /\ Fairness
=============================================================================
