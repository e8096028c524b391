----------------------- MODULE MCSubscriptionLifecycle -----------------------
(* SubscriptionLifecycle on small instances. *)
EXTENDS SubscriptionLifecycle
=============================================================================
