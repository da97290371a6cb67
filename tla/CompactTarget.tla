---------------------------- MODULE CompactTarget ----------------------------
(***************************************************************************)
(* The arithmetic of proof-of-work targets in tools/monetary_ibd.py:       *)
(* bits_to_target, target_to_bits, next_target.                            *)
(*                                                                         *)
(* nBits is a floating-point number: a size in bytes and a mantissa of     *)
(* three bytes whose top bit is a sign.  The code's byte is a digit in     *)
(* base Base here, so that every target can be enumerated.                 *)
(***************************************************************************)
EXTENDS Integers

CONSTANTS
  Base,       \* 256 in the code
  Timespan,   \* TARGET_TIMESPAN: two weeks
  MaxTarget   \* the easiest target the network allows

ASSUME BaseAssumption == Base \in Nat /\ Base >= 2 /\ Base % 2 = 0
ASSUME TimespanAssumption == Timespan \in Nat /\ Timespan >= 4
ASSUME MaxTargetAssumption == MaxTarget \in Nat \ {0}

\* Base to the power n.
Power[n \in Nat] == IF n = 0 THEN 1 ELSE Base * Power[n - 1]

\* The mantissa's digits, and what its sign bit is worth.
Digits == 3
SignBit == Power[Digits] \div 2

Bits == [exponent : Nat, mantissa : 0..(SignBit - 1), negative : BOOLEAN]
CompactBits(e, m) == [exponent |-> e, mantissa |-> m, negative |-> FALSE]

\* bits_to_target, for bits that are not negative (for those it raises).
BitsToTarget(b) ==
  IF b.exponent <= Digits
  THEN b.mantissa \div Power[Digits - b.exponent]
  ELSE b.mantissa * Power[b.exponent - Digits]

\* How many digits a target has: (target.bit_length() + 7) // 8.
Size(target) ==
  CHOOSE n \in 1..target :
    Power[n] > target /\ \A k \in 1..(n - 1) : Power[k] <= target

\* target_to_bits: the leading digits, kept off the sign bit.
TargetToBits(target) ==
  IF target = 0 THEN CompactBits(0, 0)
  ELSE LET size == Size(target)
           leading == IF size <= Digits THEN target * Power[Digits - size]
                      ELSE target \div Power[size - Digits]
       IN IF leading >= SignBit
          THEN CompactBits(size + 1, leading \div Base)
          ELSE CompactBits(size, leading)

Least(a, b) == IF a <= b THEN a ELSE b
Greatest(a, b) == IF a >= b THEN a ELSE b

\* next_target: scale by the time the window took, by 4 at the most.
NextTarget(firstTime, lastTime, lastBits) ==
  LET span == Greatest(Timespan \div 4, Least(Timespan * 4, lastTime - firstTime))
  IN TargetToBits(Least((BitsToTarget(lastBits) * span) \div Timespan, MaxTarget))

-----------------------------------------------------------------------------
\* A target survives its compact form, less what does not fit the mantissa, and
\* the compact form of a target is its own compact form.
CompactIsExact(target) ==
  LET b == TargetToBits(target)
      ulp == IF b.exponent <= Digits THEN 1 ELSE Power[b.exponent - Digits]
  IN /\ b \in Bits /\ ~b.negative
     /\ target - BitsToTarget(b) \in 0..(ulp - 1)
     /\ TargetToBits(BitsToTarget(b)) = b
=============================================================================
