----------------------------- MODULE MCHistory -----------------------------
(***************************************************************************)
(* Pool sizes for model checking InputHistory.                             *)
(***************************************************************************)
EXTENDS InputHistory, TLC

(* Two subscriptions and a service share the history. *)
MixedReaders ==
  "subscription" :> 2 @@ "service" :> 1 @@ "client" :> 0

(* A slot for one subscription, so that the next one reuses it. *)
OneSubscription ==
  "subscription" :> 1 @@ "service" :> 0 @@ "client" :> 0

(* A subscription in each of two sessions. *)
TwoSubscriptions ==
  "subscription" :> 2 @@ "service" :> 0 @@ "client" :> 0
(* Bounds on the readers created in each session. *)
ReusedSlots ==
  "subscription" :> 3 @@ "service" :> 1 @@ "client" :> 0

OneEach ==
  "subscription" :> 1 @@ "service" :> 0 @@ "client" :> 0
=============================================================================
