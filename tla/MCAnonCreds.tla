---------------------------- MODULE MCAnonCreds ----------------------------
(* A small instance of AnonCreds: two credentials per registry, one of them  *)
(* the holder's, a credential of a hidden and a known attribute, and the     *)
(* requests whose treatment differs between the prover and the verifier.     *)
EXTENDS AnonCreds

MCIntValues == {-1}

MCValueSets ==
  { [ms |-> "hidden", age |-> "known"],                      \* as it should be
    [ms |-> "hidden", age |-> "commitment"],                 \* age not signed
    [ms |-> "hidden", age |-> "known", other |-> "known"],   \* no base for other
    [ms |-> "hidden", age |-> "known", other |-> "hidden"] }

Age(type, value) == [attr_name |-> "age", p_type |-> type, value |-> value]

Adult     == SubProofRequest({}, {Age("GE", -2)})
Reveal    == SubProofRequest({"age"}, {})
Both      == SubProofRequest({"age"}, {Age("GE", -2)})     \* finalize panics
BeyondMax == SubProofRequest({}, {Age("GT", 7)})           \* the threshold wraps around
Stranger  == SubProofRequest({"other"}, {})                \* refused by both sides
(* Refused by the verifier, and by the prover after its non-revocation part. *)
Orphaned  == SubProofRequest({"ms"}, {Age("GE", 2)})

MCAsks == { <<Both>>, <<Adult, BeyondMax>>, <<Orphaned>>, <<Stranger>>, <<Reveal>> }

(* What one theorem takes from arithmetic, for the integers of this instance.*)
ASSUME LagrangeAssumption == FourSquaresFound
=============================================================================
