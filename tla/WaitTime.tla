------------------------------ MODULE WaitTime ------------------------------
(***************************************************************************)
(* The arithmetic of rmw_wait's timeout: from seconds and nanoseconds to   *)
(* milliseconds in a uint64_t, through float into a share for each         *)
(* session, and from there into the int that the client library takes.     *)
(* The widths are constants, so that the values at the boundaries can be   *)
(* checked on narrow types.                                                *)
(***************************************************************************)
EXTENDS Integers

CONSTANTS
  WordBits,      (* of uint64_t                                            *)
  IntBits,       (* of int                                                 *)
  MantissaBits,  (* of float, with the leading one                         *)
  PerSecond      (* milliseconds in a second                               *)

ASSUME WidthAssumption ==
  /\ WordBits \in Nat /\ IntBits \in Nat \ {0} /\ MantissaBits \in Nat \ {0}
  /\ WordBits > IntBits
  /\ PerSecond \in Nat \ {0}

WordMax == 2^WordBits - 1           \* UINT64_MAX
IntMax  == 2^(IntBits - 1) - 1      \* INT_MAX

(* (uint64_t)UXR_TIMEOUT_INF, where UXR_TIMEOUT_INF is -1. *)
Infinite == WordMax

(* wait_timeout is NULL. *)
NoTimeout == [sec |-> -1, ms |-> 0]

(* The timeout of a wait: an overflow anywhere becomes INT_MAX.  (ms is    *)
(* nsec / 1000000.)                                                        *)
Timeout(t) ==
  IF t = NoTimeout                       THEN Infinite
  ELSE IF t.sec >= WordMax \div PerSecond THEN IntMax
  ELSE LET seconds == t.sec * PerSecond
       IN  IF \/ WordMax - seconds <= t.ms
              \/ seconds + t.ms > IntMax
           THEN IntMax
           ELSE seconds + t.ms

(* The integer nearest to x / d, the even one of two. *)
Nearest(x, d) ==
  LET below == x \div d
      twice == 2 * (x % d)
  IN  IF twice < d \/ (twice = d /\ below % 2 = 0) THEN below ELSE below + 1

(* x / d with MantissaBits bits: of the numbers m * 2^e, m < 2^MantissaBits *)
(* (or the power of two above them), the nearest one.                      *)
RoundedRatio(x, d) ==
  LET e == CHOOSE k \in 0..(2 * WordBits) :
             /\ x < d * 2^(MantissaBits + k)
             /\ k = 0 \/ x >= d * 2^(MantissaBits + k - 1)
  IN  Nearest(x, d * 2^e) * 2^e

(* Enough bits after the point for the quotients below. *)
FractionBits == MantissaBits + 2

(* (float)timeout / (float)available_contexts, cut to an integer. *)
FloatQuotient(timeout, n) ==
  RoundedRatio(RoundedRatio(timeout, 1) * 2^FractionBits, n)
    \div 2^FractionBits

(* A float that does not fit in uint64_t is undefined: x86 gives 0, ARM    *)
(* the greatest value.                                                     *)
AsWord(v) == IF v <= WordMax THEN {v} ELSE {0, WordMax}

(* The int that a uint64_t becomes as an argument. *)
AsInt(v) ==
  LET low == v % 2^IntBits
  IN  IF low > IntMax THEN low - 2^IntBits ELSE low

(* per_session_timeout as uxr_run_session_until_data gets it. *)
PerSession(timeout, n) ==
  {AsInt(w) : w \in AsWord(FloatQuotient(timeout, n))}
=============================================================================
