-------------------------- MODULE MCStripeWebhook ---------------------------
EXTENDS StripeWebhook, TLC

CONSTANTS c1, w1, w2, w3

OneCheckout == {c1}
ThreeDeliveries == {w1, w2, w3}
=============================================================================
