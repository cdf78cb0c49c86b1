----------------------------- MODULE MCExchange -----------------------------
(***************************************************************************)
(* A small application for model checking Exchange: two clients of one     *)
(* service, a publisher, a guard condition.                                *)
(***************************************************************************)
EXTENDS Exchange, TLC

CONSTANTS c1, c2, s, p, g

Calls == c1 :> s @@ c2 :> s

(* A message from each and triggers, or requests alone, with a second one  *)
(* from the first client.                                                  *)
Workloads ==
  {c1 :> 1 @@ c2 :> 1 @@ p :> 1 @@ g :> 1,
   c1 :> 2 @@ c2 :> 1 @@ p :> 0 @@ g :> 0}

(* The writers differ in the key only; their kind is above 127. *)
Guids ==
  c1 :> [entityKind |-> 194, entityKey |-> 1, guidPrefix |-> 0] @@
  c2 :> [entityKind |-> 194, entityKey |-> 2, guidPrefix |-> 0]

(* Poll, a few milliseconds, and more than an int holds. *)
Timeouts == {[sec |-> 0, ms |-> 0], [sec |-> 0, ms |-> 5],
             [sec |-> 9, ms |-> 9]}

(* Whether a share is a limit, and n of them fit in the timeout, also when *)
(* float rounds them.                                                      *)
Fits(t, n) ==
  \A share \in PerSession(t, n) :
    share >= 0 /\ n * share <= t + t \div 2^(MantissaBits - 1)

(* They do for every timeout when there are several sessions, and with one *)
(* session for the timeouts that float does not make 2^31.                 *)
ASSUME SharesFit ==
  /\ \A t \in 0..IntMax, n \in 2..4 : Fits(t, n)
  /\ \A t \in 0..(IntMax - 2^(IntBits - MantissaBits)) : Fits(t, 1)

(* They do for the timeouts above. *)
ASSUME AskedInTime == SharesInTime

(* They do not for one session that waits for INT_MAX, which is what an    *)
(* overflow becomes: its share is negative.                                *)
ASSUME OverflowOfOneSession == \A share \in PerSession(IntMax, 1) : share < 0

(* A wait without a timeout polls when there are two sessions, and where   *)
(* the conversion to uint64_t gives 0 also when there is one.              *)
ASSUME NoTimeoutPolls ==
  PerSession(Infinite, 2) = {0} /\ PerSession(Infinite, 1) = {0, -1}
=============================================================================
