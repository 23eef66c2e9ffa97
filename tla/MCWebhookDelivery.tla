------------------------- MODULE MCWebhookDelivery -------------------------
(* Small instances of WebhookDelivery: event e1 of a published post and, in *)
(* the instances with two events, e2 of the Test handler.                   *)
EXTENDS WebhookDelivery, TLC

CONSTANTS e1, e2, w1, w2

MCKind == [e \in Events |-> IF e = e1 THEN "publish" ELSE "test"]
MCRowOrder == [d \in Delivery |-> IF d[1] = e1 THEN 1 ELSE 2]
EndpointSymmetry == Permutations(Endpoints)
=============================================================================
