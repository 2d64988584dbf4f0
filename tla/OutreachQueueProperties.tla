----------------------- MODULE OutreachQueueProperties -----------------------
(***************************************************************************)
(* What the outreach queue promises to reviewers and operators.            *)
(***************************************************************************)
EXTENDS OutreachQueue

(* An executor is only ever given what a reviewer approved and an operator  *)
(* authorized, text and version alike, and no item is given out in two      *)
(* versions, however often the strategy was changed, prepared and           *)
(* authorized again between the read of the id and the claim                *)
(* (insert_pending, authorize, claim_next).                                 *)
HandedWasGranted ==
    \A k \in ItemKey :
        /\ handed[k] \subseteq approved[k] \cap granted[k]
        /\ \A a, b \in handed[k] : a = b

PhaseOf(status) ==
    CASE status = "pending_approval" -> "proposed"
      [] status = "ready" -> "authorized"
      [] status = "sending" -> "out"
      [] status = "skipped" -> "dropped"
      [] OTHER -> status

Ledger == INSTANCE OutreachLedger WITH
    Item <- ItemKey, Offer <- Content,
    phase <- [k \in ItemKey |-> PhaseOf(item[k].status)],
    offer <- [k \in ItemKey |-> Frozen(item[k])],
    approvals <- approved

(* The queue implements the ledger: offers come from approvals, need an     *)
(* authorization after the last change, are handed out once and settled     *)
(* once, and a cancelled item never comes back.                             *)
ImplementsLedger == Ledger!Spec
=============================================================================
