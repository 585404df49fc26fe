--------------------------- MODULE MCEmailDelivery ---------------------------
(* Small instances of EmailDelivery: one message, whose job several executions *)
(* and handlers fight over, or two messages that share a small batch.          *)
EXTENDS EmailDelivery
==============================================================================
