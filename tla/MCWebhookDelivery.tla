------------------------- MODULE MCWebhookDelivery -------------------------
(***************************************************************************)
(* Small instances of WebhookDelivery.                                     *)
(***************************************************************************)
EXTENDS WebhookDelivery

CONSTANTS e1, e2, w1, w2, b1, b2

MCEvents == {e1, e2}
MCNone == {}
MCLinkEvents == {e1}
MCFailing == {e2}
MCWorkers == {w1, w2}
MCBeats == {b1, b2}
=============================================================================
