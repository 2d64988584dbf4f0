------------------------------ MODULE Accounts ------------------------------
(***************************************************************************)
(* The social accounts that jobs use, each on one platform, and the        *)
(* configured number of browser sessions a platform may have at a time.    *)
(***************************************************************************)
EXTENDS Integers, FiniteSets

CONSTANTS
    Account,     \* social accounts, the keys (platform, account id)
    NoAccount,   \* no account: a NULL account_id, a lease that is not held
    Platform,    \* platforms
    PlatformOf,  \* the platform of each account
    Limit        \* concurrent sessions allowed per platform; 0 disables it

ASSUME AccountAssumption ==
    /\ IsFiniteSet(Account)
    /\ NoAccount \notin Account
    /\ PlatformOf \in [Account -> Platform]
    /\ Limit \in [Platform -> Nat]

AccountsOf(p) == {a \in Account : PlatformOf[a] = p}
=============================================================================
