------------------------- MODULE Predicates_proofs -------------------------
(* Predicates at every width of their integers: a 32-bit bound and attribute *)
(* for Half = 2^31, of which a run can only try a handful.                   *)
EXTENDS Predicates, TLAPS

USE HalfAssumption

(* The bound both sides raise z to: it wraps at the end of the integers.     *)
LEMMA Primes ==
  ASSUME NEW p \in Predicate
  PROVE  GetDeltaPrime(p) =
           IF p.p_type = "GT" THEN IF p.value = Half - 1 THEN -Half ELSE p.value + 1
           ELSE IF p.p_type = "LT" THEN IF p.value = -Half THEN Half - 1 ELSE p.value - 1
           ELSE p.value
<1>1. p.value \in i32 /\ p.p_type \in PredicateType
  BY DEF Predicate
<1>2. p.value + 1 > Half - 1 <=> p.value = Half - 1
  BY <1>1 DEF i32
<1>3. p.value - 1 < -Half <=> p.value = -Half
  BY <1>1 DEF i32
<1>4. Wrap(p.value + 1) = IF p.value = Half - 1 THEN -Half ELSE p.value + 1
  BY <1>1 DEF i32, Wrap
<1>5. Wrap(p.value - 1) = IF p.value = -Half THEN Half - 1 ELSE p.value - 1
  BY <1>1 DEF i32, Wrap
<1>. QED
  BY <1>1, <1>4, <1>5 DEF GetDeltaPrime, PredicateType

(* "At least" and "at most".                                                 *)
LEMMA InclusiveVerdict ==
  ASSUME NEW p \in Predicate, NEW attr \in i32, p.p_type \in {"GE", "LE"}
  PROVE  Provable(p, attr) /\ OnTarget(p, attr)
           <=> Satisfied(p, attr) /\ Representable(p, attr)
<1>1. p.value \in i32
  BY DEF Predicate
<1>2. CASE p.p_type = "GE"
  BY <1>1, <1>2, Primes
     DEF Provable, OnTarget, Satisfied, Representable, Distance, GetDelta, is_less, Wrap, i32
<1>3. CASE p.p_type = "LE"
  BY <1>1, <1>3, Primes
     DEF Provable, OnTarget, Satisfied, Representable, Distance, GetDelta, is_less, Wrap, i32
<1>. QED
  BY <1>2, <1>3

(* "Greater than" and "less than", whose bound may wrap.                     *)
LEMMA StrictVerdict ==
  ASSUME NEW p \in Predicate, NEW attr \in i32, p.p_type \in {"GT", "LT"}
  PROVE  Provable(p, attr) /\ OnTarget(p, attr)
           <=> \/ Satisfied(p, attr) /\ Representable(p, attr)
               \/ OffTheEnd(p, attr)
<1>1. p.value \in i32
  BY DEF Predicate
<1>2. CASE p.p_type = "GT"
  BY <1>1, <1>2, Primes
     DEF Provable, OnTarget, Satisfied, Representable, Distance, OffTheEnd, GetDelta,
         is_less, Wrap, i32
<1>3. CASE p.p_type = "LT"
  BY <1>1, <1>3, Primes
     DEF Provable, OnTarget, Satisfied, Representable, Distance, OffTheEnd, GetDelta,
         is_less, Wrap, i32
<1>. QED
  BY <1>2, <1>3

(* What a verifier accepts of a predicate is what it asked over the integers *)
(* for differences that fit an i32, and besides only the two bounds that     *)
(* wrap around: get_delta, get_delta_prime and the two equations together.   *)
THEOREM PredicateVerdict ==
  \A p \in Predicate, attr \in i32 :
    Provable(p, attr) /\ OnTarget(p, attr)
      <=> \/ Satisfied(p, attr) /\ Representable(p, attr)
          \/ OffTheEnd(p, attr)
<1> TAKE p \in Predicate, attr \in i32
<1>1. p.p_type \in {"GE", "GT", "LE", "LT"}
  BY DEF Predicate, PredicateType
<1>2. p.p_type \in {"GE", "LE"} => ~OffTheEnd(p, attr)
  BY DEF OffTheEnd
<1>. QED
  BY <1>1, <1>2, InclusiveVerdict, StrictVerdict

-----------------------------------------------------------------------------
(* Delta is an i32 whatever wrapped on the way.                              *)
LEMMA DeltaType ==
  ASSUME NEW p \in Predicate, NEW attr \in i32 PROVE GetDelta(p, attr) \in i32
<1>1. p.value \in i32
  BY DEF Predicate
<1> DEFINE difference == Wrap(IF is_less(p) THEN p.value - attr ELSE attr - p.value)
<1>2. difference \in i32
  BY <1>1 DEF Wrap, i32
<1>3. Wrap(difference - 1) \in i32
  BY <1>2 DEF Wrap, i32
<1>. QED
  BY <1>2, <1>3 DEF GetDelta

(* A predicate that the prover did not refuse verifies only if what was      *)
(* asked holds over the integers, or one of the two bounds wrapped around;   *)
(* and always then, as far as four squares can be found.  A predicate has    *)
(* more fields than these two, which the arithmetic does not look at.        *)
LEMMA VerifiesExactly ==
  ASSUME NEW p, p.p_type \in PredicateType, p.value \in i32,
         NEW attr \in i32, Provable(p, attr)
  PROVE  /\ Verifies(p, attr) =>
              \/ Satisfied(p, attr) /\ Representable(p, attr)
              \/ OffTheEnd(p, attr)
         /\ FourSquaresFound =>
              (\/ Satisfied(p, attr) /\ Representable(p, attr)
               \/ OffTheEnd(p, attr)
               => Verifies(p, attr))
<1> DEFINE q == [p_type |-> p.p_type, value |-> p.value]
<1>1. q \in Predicate /\ q.p_type = p.p_type /\ q.value = p.value
  BY DEF Predicate
<1> HIDE DEF q
<1>2. is_less(q) <=> is_less(p)
  BY <1>1 DEF is_less
<1>3. GetDelta(q, attr) = GetDelta(p, attr) /\ GetDeltaPrime(q) = GetDeltaPrime(p)
  BY <1>1, <1>2 DEF GetDelta, GetDeltaPrime
<1>4. /\ Provable(q, attr) <=> Provable(p, attr)
      /\ OnTarget(q, attr) <=> OnTarget(p, attr)
  BY <1>2, <1>3 DEF Provable, OnTarget
<1>5. /\ Satisfied(q, attr) <=> Satisfied(p, attr)
      /\ Representable(q, attr) <=> Representable(p, attr)
      /\ OffTheEnd(q, attr) <=> OffTheEnd(p, attr)
  BY <1>1, <1>2 DEF Satisfied, Representable, Distance, OffTheEnd
<1>6. FourSquaresFound => SumOfSquares(four_squares(GetDelta(p, attr))) = GetDelta(p, attr)
  <2>1. GetDelta(p, attr) \in 0 .. Half - 1
    <3>1. GetDelta(q, attr) \in i32
      BY <1>1, DeltaType
    <3>. QED
      BY <1>3, <3>1 DEF Provable, i32
  <2>. QED
    BY <2>1 DEF FourSquaresFound
<1>7. /\ Verifies(p, attr) => OnTarget(p, attr)
      /\ FourSquaresFound => (OnTarget(p, attr) => Verifies(p, attr))
  BY <1>6 DEF Verifies
<1>8. OnTarget(q, attr) <=> \/ Satisfied(q, attr) /\ Representable(q, attr)
                            \/ OffTheEnd(q, attr)
  BY <1>1, <1>4, PredicateVerdict
<1>. QED
  BY <1>4, <1>5, <1>7, <1>8
=============================================================================
