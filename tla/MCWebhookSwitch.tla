-------------------------- MODULE MCWebhookSwitch --------------------------
(* WebhookSwitch on a small instance: the constants TLC's run gives it. *)
EXTENDS WebhookSwitch

CONSTANTS app, tunnel, d1, e1, e2

MCDeliveries == {d1}
MCBatch == [d \in MCDeliveries |-> <<e1, e2>>]
MCTargets == {tunnel}
MCFaults == AllFaults

\* A deployment that sets the mode in its environment, and no target.
MCEnv == [mode |-> "forward", target |-> None]
=============================================================================
