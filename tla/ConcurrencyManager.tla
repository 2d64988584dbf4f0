------------------------- MODULE ConcurrencyManager -------------------------
(***************************************************************************)
(* PipelineConcurrencyManager: which accounts are in use, how many         *)
(* sessions each platform has, and which accounts are quarantined because  *)
(* their browser may still be alive.  The three variables are only ever    *)
(* read and written under one asyncio.Condition, so each method is one     *)
(* step.  Modules that use the manager conjoin these steps with theirs.    *)
(***************************************************************************)
EXTENDS Accounts

VARIABLES
    activeAccounts,       \* accounts with a live lease
    activeByPlatform,     \* the counter compared with the limit
    quarantinedAccounts   \* accounts nobody may lease

managerVars == <<activeAccounts, activeByPlatform, quarantinedAccounts>>

ManagerTypeOK ==
    /\ activeAccounts \subseteq Account
    /\ activeByPlatform \in [Platform -> Int]
    /\ quarantinedAccounts \subseteq Account

ManagerInit ==
    /\ activeAccounts = {}
    /\ activeByPlatform = [p \in Platform |-> 0]
    /\ quarantinedAccounts = {}

\* Seeded fault: a quarantined account can be leased again.
CanAcquireQuarantined(a) ==
    /\ activeByPlatform[PlatformOf[a]] < Limit[PlatformOf[a]]
    /\ a \notin activeAccounts

CanAcquire(a) ==
    /\ activeByPlatform[PlatformOf[a]] < Limit[PlatformOf[a]]
    /\ a \notin activeAccounts
    /\ a \notin quarantinedAccounts

Acquire(a) ==
    /\ CanAcquire(a)
    /\ activeAccounts' = activeAccounts \cup {a}
    /\ activeByPlatform' = [activeByPlatform EXCEPT ![PlatformOf[a]] = @ + 1]
    /\ UNCHANGED quarantinedAccounts

\* Seeded fault: the platform's slot is not given back.
DeactivateKeepsSlot(a) ==
    /\ activeAccounts' = activeAccounts \ {a}
    /\ UNCHANGED activeByPlatform

\* Take the account out of active use, if it is there.
Deactivate(a) ==
    /\ activeAccounts' = activeAccounts \ {a}
    /\ activeByPlatform' =
          IF a \in activeAccounts
          THEN [activeByPlatform EXCEPT ![PlatformOf[a]] = @ - 1]
          ELSE activeByPlatform

ReleaseAccount(a) ==
    /\ Deactivate(a)
    /\ quarantinedAccounts' = quarantinedAccounts \ {a}

\* A second quarantine of the same account changes nothing.
QuarantineAccount(a) ==
    IF a \in quarantinedAccounts
    THEN UNCHANGED managerVars
    ELSE /\ Deactivate(a)
         /\ quarantinedAccounts' = quarantinedAccounts \cup {a}
=============================================================================
