---------------------------- MODULE AccountLeases ----------------------------
(***************************************************************************)
(* AccountLeaseManager: at most one holder for each account key.  Both     *)
(* methods run under one lock without an await in it, so each is a step,   *)
(* which the modules that use the manager conjoin with their own.          *)
(***************************************************************************)
CONSTANTS
    AccountKey,  \* normalized pairs (platform, account key)
    Session,     \* login sessions, the holders of leases
    NoSession    \* nobody

ASSUME HolderAssumption == NoSession \notin Session

VARIABLE leases

LeasesTypeOK == leases \in [AccountKey -> Session \cup {NoSession}]

LeasesInit == leases = [k \in AccountKey |-> NoSession]

\* A second request raises AccountBusyError.
AcquireLease(k, s) ==
    /\ leases[k] = NoSession
    /\ leases' = [leases EXCEPT ![k] = s]

\* Only the lease that was granted is given back: its lease_id is compared.
ReleaseLease(k, s) ==
    leases' = [leases EXCEPT ![k] = IF @ = s THEN NoSession ELSE @]
=============================================================================
