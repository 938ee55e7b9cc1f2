----------------------------- MODULE Predicates -----------------------------
(* Predicates over one integer attribute, as Ursa's prover and verifier      *)
(* compute them: i32 arithmetic that wraps around in a release build on the  *)
(* prover's side, and an equation over the integers on the verifier's.       *)
EXTENDS Integers

CONSTANT Half      \* 2^31 in the code

ASSUME HalfAssumption == Half \in Nat \ {0}

i32 == -Half .. Half - 1

(* One i32 addition or subtraction too large by at most 2^32 - 1.            *)
Wrap(x) == IF x > Half - 1 THEN x - 2 * Half
           ELSE IF x < -Half THEN x + 2 * Half ELSE x

PredicateType == {"GE", "GT", "LE", "LT"}
Predicate == [p_type : PredicateType, value : i32]

is_less(p) == p.p_type \in {"LE", "LT"}

(* Predicate::get_delta: each of the code's two subtractions wraps.          *)
GetDelta(p, attr) ==
  LET difference == Wrap(IF is_less(p) THEN p.value - attr ELSE attr - p.value)
  IN IF p.p_type \in {"GT", "LT"} THEN Wrap(difference - 1) ELSE difference

(* Predicate::get_delta_prime.                                               *)
GetDeltaPrime(p) ==
  CASE p.p_type = "GT" -> Wrap(p.value + 1)
    [] p.p_type = "LT" -> Wrap(p.value - 1)
    [] OTHER -> p.value

(* largest_square_less_than: the floor of the square root.                   *)
Root(d) == CHOOSE r \in 0 .. d : r * r <= d /\ (r + 1) * (r + 1) > d

Largest(found) == CHOOSE r \in found : \A s \in found : s <= r

(* four_squares: three nested loops downwards from the root of what is left, *)
(* the fourth number is the root of the rest, and the first hit ends them.   *)
IsSquare(d) == Root(d) * Root(d) = d
TwoSquares(d) == IsSquare(d) \/ \E k \in 1 .. Root(d) : IsSquare(d - k * k)
ThreeSquares(d) == TwoSquares(d) \/ \E j \in 1 .. Root(d) : TwoSquares(d - j * j)

four_squares(d) ==
  IF d = 0 THEN <<0, 0, 0, 0>>
  ELSE LET i == Largest({n \in 1 .. Root(d) : ThreeSquares(d - n * n)})
           a == d - i * i
           j == IF a = 0 THEN 0
                ELSE Largest({n \in 1 .. Root(a) : TwoSquares(a - n * n)})
           b == a - j * j
           k == IF b = 0 THEN 0
                ELSE Largest({n \in 1 .. Root(b) : IsSquare(b - n * n)})
       IN <<i, j, k, Root(b - k * k)>>

SumOfSquares(u) == u[1] * u[1] + u[2] * u[2] + u[3] * u[3] + u[4] * u[4]

(* Lagrange's theorem for the deltas there are: the loops find four squares. *)
FourSquaresFound == \A d \in 0 .. Half - 1 : SumOfSquares(four_squares(d)) = d

(* _init_ne_proof refuses a negative delta.                                  *)
Provable(p, attr) == GetDelta(p, attr) >= 0

(* What _verify_ne_predicate recomputes of calc_tne's t values: z raised to  *)
(* delta_prime and to the attribute give delta only over the integers.       *)
OnTarget(p, attr) ==
  GetDelta(p, attr) = IF is_less(p) THEN GetDeltaPrime(p) - attr
                                    ELSE attr - GetDeltaPrime(p)

(* With the last t value: delta is the sum of the squares it was split into. *)
Verifies(p, attr) ==
  LET delta == GetDelta(p, attr)
  IN SumOfSquares(four_squares(delta)) = delta /\ OnTarget(p, attr)

-----------------------------------------------------------------------------
(* What the verifier asked, over the integers.                               *)
Satisfied(p, attr) ==
  CASE p.p_type = "GE" -> attr >= p.value
    [] p.p_type = "GT" -> attr > p.value
    [] p.p_type = "LE" -> attr <= p.value
    [] OTHER           -> attr < p.value

(* The prover can only prove a difference that fits an i32.                  *)
Distance(p, attr) ==
  (IF is_less(p) THEN p.value - attr ELSE attr - p.value)
    - (IF p.p_type \in {"GT", "LT"} THEN 1 ELSE 0)

Representable(p, attr) == Distance(p, attr) <= Half - 1

(* "greater than the largest" and "less than the smallest" integer, which no *)
(* value satisfies: the bound wraps around on both sides of the protocol.    *)
OffTheEnd(p, attr) ==
  \/ p.p_type = "GT" /\ p.value = Half - 1 /\ attr < 0
  \/ p.p_type = "LT" /\ p.value = -Half /\ attr >= 0
=============================================================================
