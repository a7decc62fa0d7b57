--------------------------- MODULE MCWebhookQueue ---------------------------
(* Small instances of WebhookQueue for TLC. *)
EXTENDS WebhookQueue

CONSTANTS e1, o1, o2

\* One organization owns every endpoint; another one shares the bus.
OneTenant == [e \in Endpoints |-> o1]

\* The facts of the site, not the queue's own failure notices.
SubscribePages == {{"page.*"}}
=============================================================================
