---------------------------- MODULE OutreachLedger ----------------------------
(***************************************************************************)
(* What the outreach queue promises about each thing that may be sent,     *)
(* without strategies, requests or transactions: an offer is made of what  *)
(* reviewers approved, needs an authorization of its own, is handed out    *)
(* once and is settled once.  OutreachQueue implements it.                 *)
(***************************************************************************)
CONSTANTS
    Item,      \* what may be sent: to whom, and through which channel
    Offer      \* a text in a version

VARIABLES
    phase,      \* how far each item is
    offer,      \* what each item would send
    approvals,  \* the offers that reviewers have approved for an item
    handed      \* the offers that were handed out for sending

vars == <<phase, offer, approvals, handed>>

End == {"dropped", "cancelled"}
Verdict == {"sent", "failed", "uncertain"}
Phase == {"none", "proposed", "authorized", "out"} \cup End \cup Verdict

Init ==
    /\ phase = [i \in Item |-> "none"]
    /\ offer \in [Item -> Offer]
    /\ approvals = [i \in Item |-> {}]
    /\ handed = [i \in Item |-> {}]

\* A new offer takes back the authorization of the one before it.
Propose(i) ==
    /\ phase[i] \in {"none", "proposed", "authorized", "dropped"}
    /\ phase'[i] = "proposed"
    /\ offer'[i] \in approvals[i]
    /\ handed'[i] = handed[i]

Keep(i) == offer'[i] = offer[i] /\ handed'[i] = handed[i]

Authorize(i) == phase[i] = "proposed" /\ phase'[i] = "authorized" /\ Keep(i)

\* Dropped items may be proposed again, cancelled ones may not.
Close(i) ==
    phase[i] \in {"proposed", "authorized"} /\ phase'[i] \in End /\ Keep(i)

HandOut(i) ==
    /\ phase[i] = "authorized" /\ phase'[i] = "out"
    /\ offer'[i] = offer[i]
    /\ handed'[i] = handed[i] \cup {offer[i]}

Settle(i) == phase[i] = "out" /\ phase'[i] \in Verdict /\ Keep(i)

Stay(i) == phase'[i] = phase[i] /\ Keep(i)

\* One transaction may move every item of the queue.
Next ==
    \A i \in Item :
        /\ approvals[i] \subseteq approvals'[i]
        /\ \/ Propose(i) \/ Authorize(i) \/ Close(i) \/ HandOut(i)
           \/ Settle(i) \/ Stay(i)

Spec == Init /\ [][Next]_vars
=============================================================================
