----------------------------- MODULE MCEntities -----------------------------
(***************************************************************************)
(* Pool sizes for model checking EntityLifecycle.                          *)
(***************************************************************************)
EXTENDS EntityLifecycle, TLC

(* Two nodes that share two publishers, a subscription and a client;       *)
(* exactly the topics that the publishers and subscriptions need.          *)
SmallPools ==
  "node" :> 2 @@ "publisher" :> 2 @@ "subscription" :> 1 @@ "service" :> 0
    @@ "client" :> 1 @@ "topic" :> 3

(* Two nodes with two publishers and two services between them. *)
FailurePools ==
  "node" :> 2 @@ "publisher" :> 2 @@ "subscription" :> 0 @@ "service" :> 2
    @@ "client" :> 0 @@ "topic" :> 2

(* One node with two services, nothing else. *)
ServicePools ==
  "node" :> 1 @@ "publisher" :> 0 @@ "subscription" :> 0 @@ "service" :> 2
    @@ "client" :> 0 @@ "topic" :> 0

(* One node with two subscriptions and their topics. *)
SubscriptionPools ==
  "node" :> 1 @@ "publisher" :> 0 @@ "subscription" :> 2 @@ "service" :> 0
    @@ "client" :> 0 @@ "topic" :> 2
=============================================================================
