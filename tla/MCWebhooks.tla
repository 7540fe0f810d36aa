----------------------------- MODULE MCWebhooks -----------------------------
(***************************************************************************)
(* Instances of Webhooks for TLC.                                          *)
(***************************************************************************)
EXTENDS WebhooksContract, TLC

CONSTANTS t1, t2, born, bornAgain, reopened, reopenedAgain, gone, moved, movedBack, known

\* A new ticket that two events announce, and an old one that is reopened, and
\* announced once more; and two merges that list both in opposite orders.
MCKind ==
  born :> "created" @@ bornAgain :> "created" @@ reopened :> "reopened" @@
  reopenedAgain :> "reopened" @@ gone :> "deleted" @@ moved :> "merged" @@
  movedBack :> "merged" @@
  known :> "created"

MCTicketOf ==
  born :> t1 @@ bornAgain :> t1 @@ reopened :> t2 @@ reopenedAgain :> t2 @@
  gone :> t1 @@ moved :> t1 @@ movedBack :> t2 @@ known :> t2

MCMergedIds == moved :> <<t1, t2>> @@ movedBack :> <<t2, t1>>

ChosenKind == [e \in Events |-> MCKind[e]]
ChosenMergedIds ==
  [e \in Events |-> IF e \in DOMAIN MCMergedIds THEN MCMergedIds[e] ELSE <<>>]
ChosenTicketOf == [e \in Events |-> MCTicketOf[e]]

RequestSymmetry == Permutations(Requests)
=============================================================================
