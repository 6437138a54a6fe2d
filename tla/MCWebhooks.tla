----------------------------- MODULE MCWebhooks -----------------------------
(* A small instance of Webhooks for TLC. *)
EXTENDS Webhooks

CONSTANTS s1, d1, d2, w1, w2

MCSubscriptionOf == [d \in Deliveries |-> s1]
=============================================================================
