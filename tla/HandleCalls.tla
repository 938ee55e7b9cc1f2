----------------------------- MODULE HandleCalls -----------------------------
(* The words in which libursa's C interface is described: its error codes,   *)
(* and the steps that a function of the interface goes through in the order  *)
(* of its code, one for each macro or idiom the functions are written with.  *)
EXTENDS Integers, Sequences

-----------------------------------------------------------------------------
(* ErrorCode and UrsaCryptoErrorKind, and the two conversions between them.  *)

Success == 0
P(n) == 99 + n                                   \* CommonInvalidParam<n>
InvalidParams == {P(n) : n \in 1 .. 12}
ErrorCode == {Success} \cup 100 .. 118

Kind(name, param) == [name |-> name, param |-> param]
InvalidParam(n) == Kind("InvalidParam", n)
InvalidState == Kind("InvalidState", 0)
InvalidStructure == Kind("InvalidStructure", 0)
ProofRejected == Kind("ProofRejected", 0)

(* The kinds that have one code, from 112 on.                                *)
Single == << InvalidState, InvalidStructure, Kind("IOError", 0),
             Kind("RevocationAccumulatorIsFull", 0),
             Kind("InvalidRevocationAccumulatorIndex", 0),
             Kind("CredentialRevoked", 0), ProofRejected >>
Kinds == {Single[i] : i \in 1 .. 7} \cup {InvalidParam(n) : n \in 1 .. 12}

(* A parameter past the twelfth has no code of its own.                      *)
CodeOf(kind) ==
  IF kind.name = "InvalidParam"
  THEN IF kind.param \in 1 .. 12 THEN P(kind.param) ELSE 112
  ELSE 111 + CHOOSE i \in 1 .. 7 : Single[i] = kind

KindOf(code) ==
  IF code \in InvalidParams THEN InvalidParam(code - 99)
  ELSE IF code \in 112 .. 118 THEN Single[code - 111]
  ELSE InvalidState

-----------------------------------------------------------------------------
(* The steps.  A step that may fail lists its failures: the code that is     *)
(* returned and the kind of the message that is stored before returning.     *)

NoType == "none"
Step(does, type, read, fails) ==
  [does |-> does, type |-> type, read |-> read, fails |-> fails]
Failure(code, kind) == [code |-> code, kind |-> kind]
Refused(code) == Failure(code, KindOf(code))

(* check_useful_c_reference, check_useful_mut_c_reference.                   *)
RefAs(type, read, code) == Step("check", type, read, {Refused(code)})
Ref(type, n) == RefAs(type, type, P(n))
(* check_useful_opt_c_reference: null is a value.                            *)
Opt(type) == Step("check", NoType, NoType, {})
(* check_useful_c_ptr, check_useful_c_str, a byte array or its length.       *)
In(n) == Step("check", NoType, NoType, {Refused(P(n))})
Out(n) == In(n)
Bytes(n, m) == Step("check", NoType, NoType, {Refused(P(n)), Refused(P(m))})
(* check_useful_c_callback, check_useful_opt_c_str.                          *)
Callback(n) == In(n)
OptStr(n) == In(n)
(* check_useful_c_reference_array returns one code and stores another.       *)
Refs(type, n, m) ==
  Step("check", type, type, {Failure(P(n), KindOf(P(m))), Refused(P(m))})
(* check_useful_hashset, likewise.                                           *)
Indexes(n, m) == Step("check", NoType, NoType, {Failure(P(n), KindOf(P(m)))})

(* Box::from_raw: the call has the object now and drops it at its end.       *)
Take(type) == Step("take", type, type, {})
(* The library function; Err(err) => err.into() stores and converts.         *)
Body(kinds) ==
  Step("body", NoType, NoType, {Failure(CodeOf(kind), kind) : kind \in kinds})
(* A conversion that succeeds for no text an honest caller has.              *)
Hopeless(kind) == Step("hopeless", NoType, NoType, {Failure(CodeOf(kind), kind)})
(* Box::into_raw through an out pointer; null in its place for BoxMaybe.     *)
Box(type) == Step("box", type, type, {})
BoxMaybe(type) == Step("maybe", type, type, {})

Call(name, steps) == [name |-> name, steps |-> steps]

(* The null checks of arrays and index sets name another parameter than the  *)
(* one whose code they return.                                               *)
Miscounted == {<<P(1), P(2)>>, <<P(4), P(5)>>, <<P(3), P(4)>>, <<P(5), P(6)>>}
Matching(code, kind) == CodeOf(kind) = code \/ <<code, CodeOf(kind)>> \in Miscounted

Steps == [does : STRING, type : STRING, read : STRING,
          fails : SUBSET [code : 100 .. 118, kind : Kinds]]

(* An object is taken once, after its handle was checked; parameters are     *)
(* refused before anything is taken, and bodies fail only once everything    *)
(* is; results are handed out after all that can fail.                       *)
WellFormed(call) ==
  /\ call.steps \in Seq(Steps)
  /\ \A i \in DOMAIN call.steps :
       LET step == call.steps[i]
       IN /\ \A failure \in step.fails : Matching(failure.code, failure.kind)
          /\ step.does \in {"take", "box", "maybe"} => step.fails = {}
          /\ step.does = "take" =>
               \E j \in 1 .. i - 1 : /\ call.steps[j].does = "check"
                                    /\ call.steps[j].type = step.type
  /\ \A i, j \in DOMAIN call.steps :
       LET step == call.steps[i]
           other == call.steps[j]
       IN /\ step.does = "take" =>
               \A failure \in other.fails : failure.code \in InvalidParams <=> j < i
          /\ step.does \in {"take", "box", "maybe"} =>
               \/ i = j
               \/ other.does # step.does
               \/ other.type # step.type
          /\ step.does \in {"box", "maybe"} /\ i < j => other.fails = {}
=============================================================================
