-------------------------- MODULE MCWebhookDelivery ---------------------------
(* Model values for WebhookDelivery: an answer of each kind that the worker  *)
(* tells apart.  0 is a fetch that throws, the others are the statuses at    *)
(* which the tests of the worker change their result.                        *)
EXTENDS WebhookDelivery

Answers == {0, 200, 300, 429, 500}
===============================================================================
