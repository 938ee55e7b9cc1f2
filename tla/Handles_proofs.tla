--------------------------- MODULE Handles_proofs ---------------------------
(* What the C interface guarantees for every set of functions written as     *)
(* WellFormed says, any number of threads and any bound on the handles.      *)
EXTENDS Handles, UrsaApi, TLAPS

(* The conversions between kinds and codes lose nothing on the way from a    *)
(* code to a kind and back.                                                  *)
THEOREM CodesRoundTrip == \A code \in 100 .. 118 : CodeOf(KindOf(code)) = code
<1> SUFFICES ASSUME NEW code \in 100 .. 118 PROVE CodeOf(KindOf(code)) = code
  OBVIOUS
<1>1. CASE code \in InvalidParams
  <2>1. code - 99 \in 1 .. 12 /\ P(code - 99) = code
    BY <1>1 DEF InvalidParams, P
  <2>2. KindOf(code) = [name |-> "InvalidParam", param |-> code - 99]
    BY <1>1 DEF KindOf, InvalidParam, Kind
  <2>. QED
    BY <2>1, <2>2 DEF CodeOf
<1>2. CASE code \notin InvalidParams
  <2> DEFINE n == code - 111
  <2>1. n \in 1 .. 7
    <3>1. \A m \in 1 .. 12 : code # 99 + m
      BY <1>2 DEF InvalidParams, P
    <3>. QED
      BY <3>1, SMT
  <2>2. KindOf(code) = Single[n]
    BY <1>2, <2>1 DEF KindOf
  <2>3. Single[n].name # "InvalidParam"
    BY <2>1 DEF Single, InvalidState, InvalidStructure, ProofRejected, Kind
  <2>4. \A i \in 1 .. 7 : Single[i] = Single[n] => i = n
    BY <2>1 DEF Single, InvalidState, InvalidStructure, ProofRejected, Kind
  <2>5. (CHOOSE i \in 1 .. 7 : Single[i] = Single[n]) = n
    BY <2>1, <2>4
  <2>6. CodeOf(Single[n]) = 111 + (CHOOSE i \in 1 .. 7 : Single[i] = Single[n])
    BY <2>3, Zenon DEF CodeOf
  <2>7. CodeOf(Single[n]) = 111 + n
    BY <2>5, <2>6
  <2>. QED
    BY <2>1, <2>2, <2>7
<1>. QED
  BY <1>1, <1>2

-----------------------------------------------------------------------------
(* A call that got as far as step k has taken at most what the caller owns.  *)
LEMMA TakenIsOwned ==
  ASSUME NEW call \in Calls, NEW k \in Nat, NEW type \in STRING,
         NEW count \in Nat,
         \A i \in 1 .. k - 1 : i \in DOMAIN call.steps =>
            (call.steps[i].does = "check" /\ call.steps[i].type = type => count > 0)
  PROVE  count - Taken(call, type, k) \in Nat
<1> USE CallsAssumption
<1>1. CASE Does(call, "take", type, k)
  <2>1. PICK i \in DOMAIN call.steps :
          i < k /\ call.steps[i].does = "take" /\ call.steps[i].type = type
    BY <1>1 DEF Does
  <2>2. DOMAIN call.steps = 1 .. Len(call.steps) /\ Len(call.steps) \in Nat
    BY DEF WellFormed
  <2>3. PICK j \in 1 .. i - 1 :
          call.steps[j].does = "check" /\ call.steps[j].type = call.steps[i].type
    BY <2>1 DEF WellFormed
  <2>4. j \in 1 .. k - 1 /\ j \in DOMAIN call.steps
    BY <2>1, <2>2, <2>3
  <2>5. count > 0
    BY <2>1, <2>3, <2>4
  <2>. QED
    BY <1>1, <2>5 DEF Taken
<1>2. CASE ~Does(call, "take", type, k)
  BY <1>2 DEF Taken
<1>. QED
  BY <1>1, <1>2

(* A call that fails at step k has taken all it ever takes, or has refused a *)
(* parameter and taken nothing.                                              *)
LEMMA FailureIsClean ==
  ASSUME NEW call \in Calls, NEW type \in STRING, NEW k \in DOMAIN call.steps,
         NEW failure \in call.steps[k].fails
  PROVE  IF failure.code \in InvalidParams THEN Taken(call, type, k) = 0
         ELSE Taken(call, type, k) = TakenInAll(call, type)
<1> USE CallsAssumption
<1>0. DOMAIN call.steps = 1 .. Len(call.steps) /\ Len(call.steps) \in Nat
  BY DEF WellFormed
<1>1. \A i \in DOMAIN call.steps :
        call.steps[i].does = "take" => (failure.code \in InvalidParams <=> k < i)
  BY DEF WellFormed
<1>2. \A i \in DOMAIN call.steps : call.steps[i].does = "take" => i # k
  BY DEF WellFormed
<1>3. CASE failure.code \in InvalidParams
  <2>1. ~Does(call, "take", type, k)
    BY <1>0, <1>1, <1>3 DEF Does
  <2>. QED
    BY <1>3, <2>1 DEF Taken
<1>4. CASE failure.code \notin InvalidParams
  <2>1. Does(call, "take", type, k) <=> Does(call, "take", type, End(call))
    BY <1>0, <1>1, <1>2, <1>4 DEF Does, End
  <2>. QED
    BY <1>4, <2>1 DEF Taken, TakenInAll
<1>. QED
  BY <1>3, <1>4

(* What a failing step reports.                                              *)
LEMMA FailureType ==
  ASSUME NEW call \in Calls, NEW k \in DOMAIN call.steps,
         NEW failure \in call.steps[k].fails
  PROVE  /\ failure.code \in 100 .. 118
         /\ failure.kind \in Kinds
         /\ Matching(failure.code, failure.kind)
<1>1. WellFormed(call)
  BY CallsAssumption
<1>2. call.steps[k] \in Steps
  BY <1>1 DEF WellFormed
<1>3. failure \in [code : 100 .. 118, kind : Kinds]
  BY <1>2 DEF Steps
<1>4. Matching(failure.code, failure.kind)
  BY <1>1 DEF WellFormed
<1>. QED
  BY <1>3, <1>4

(* A message is never taken for the empty slot.                              *)
LEMMA KindsSpeak == Silent \notin Kinds
BY DEF Silent, Kinds, Single, InvalidState, InvalidStructure, ProofRejected,
       InvalidParam, Kind

LEMMA TypesAreStrings == Types \subseteq STRING
<1>1. ASSUME NEW call \in Calls, NEW i \in DOMAIN call.steps
      PROVE  call.steps[i].type \in STRING
  <2>1. call.steps \in Seq(Steps)
    BY CallsAssumption DEF WellFormed
  <2>2. call.steps[i] \in Steps
    BY <2>1
  <2>. QED
    BY <2>2 DEF Steps
<1>. QED
  BY <1>1 DEF Types, TypesOf

-----------------------------------------------------------------------------
HandlesInv == HandlesTypeOK /\ OwnershipExact /\ MessageMatches

LEMMA FailKeeps ==
  ASSUME HandlesInv, NEW thread \in Threads, NEW call \in Calls,
         NEW k \in DOMAIN call.steps, NEW failure \in call.steps[k].fails,
         Fail(thread, call, k, failure)
  PROVE  HandlesInv'
<1>0. focus \in STRING
  BY TypesAreStrings DEF HandlesInv, HandlesTypeOK
<1>1. WellFormed(call) /\ k \in Nat
  BY CallsAssumption DEF WellFormed
<1>2. heap - Taken(call, focus, k) \in Nat
  <2>1. \A i \in 1 .. k - 1 : i \in DOMAIN call.steps =>
          (call.steps[i].does = "check" /\ call.steps[i].type = focus => owned > 0)
    BY DEF Fail, CanPass
  <2>2. heap = owned /\ heap \in Nat
    BY CopiesAssumption DEF HandlesInv, HandlesTypeOK, OwnershipExact
  <2>. QED
    BY <1>0, <1>1, <2>1, <2>2, TakenIsOwned
<1>3. failure.code \in 100 .. 118 /\ failure.kind \in Kinds
        /\ Matching(failure.code, failure.kind)
  BY FailureType
<1>4. OwnershipExact'
  <2>1. IF failure.code \in InvalidParams THEN Taken(call, focus, k) = 0
        ELSE Taken(call, focus, k) = TakenInAll(call, focus)
    BY <1>0, FailureIsClean
  <2>. QED
    BY <2>1, CopiesAssumption
    DEF HandlesInv, HandlesTypeOK, OwnershipExact, Fail, BooksAfter
<1>5. HandlesTypeOK'
  <2>1. heap' \in 0 .. Copies
    BY <1>2, CopiesAssumption DEF Fail, Taken, HandlesInv, HandlesTypeOK
  <2>2. owned' \in 0 .. Copies
    BY <1>4, <2>1 DEF OwnershipExact
  <2>3. message' \in [Threads -> Kinds \cup {Silent}]
    BY <1>3 DEF Fail, StoreError, Slot, HandlesInv, HandlesTypeOK
  <2>4. kept' \in [Threads -> {"none", "valid", "dangling"}]
    BY DEF Fail, StoreError, Slot, HandlesInv, HandlesTypeOK
  <2>5. failed' \in [Threads -> ErrorCode]
    BY <1>3 DEF Fail, HandlesInv, HandlesTypeOK, ErrorCode
  <2>6. misread' \subseteq {c.name : c \in Calls}
    BY DEF Fail, Misreads, HandlesInv, HandlesTypeOK
  <2>7. focus' \in Types
    BY DEF Fail, HandlesInv, HandlesTypeOK
  <2>. QED
    BY <2>1, <2>2, <2>3, <2>4, <2>5, <2>6, <2>7 DEF HandlesTypeOK
<1>6. MessageMatches'
  <2> SUFFICES ASSUME NEW t \in Threads
               PROVE  \/ failed'[t] = Success /\ message'[t] = Silent
                      \/ message'[t] # Silent /\ Matching(failed'[t], message'[t])
    BY DEF MessageMatches, Slot
  <2>1. message' = [message EXCEPT ![thread] = failure.kind]
        /\ failed' = [failed EXCEPT ![thread] = failure.code]
    BY DEF Fail, StoreError, Slot
  <2>2. message \in [Threads -> Kinds \cup {Silent}] /\ failed \in [Threads -> ErrorCode]
    BY DEF HandlesInv, HandlesTypeOK
  <2>3. CASE t = thread
    BY <1>3, <2>1, <2>2, <2>3, KindsSpeak
  <2>4. CASE t # thread
    <3>1. message'[t] = message[t] /\ failed'[t] = failed[t]
      BY <2>1, <2>2, <2>4
    <3>. QED
      BY <3>1 DEF HandlesInv, MessageMatches, Slot
  <2>. QED
    BY <2>3, <2>4
<1>. QED
  BY <1>4, <1>5, <1>6 DEF HandlesInv

LEMMA SucceedKeeps ==
  ASSUME HandlesInv, NEW thread \in Threads, NEW call \in Calls, NEW given \in Nat,
         Succeed(thread, call, given)
  PROVE  HandlesInv'
<1>0. focus \in STRING
  BY TypesAreStrings DEF HandlesInv, HandlesTypeOK
<1>1. Len(call.steps) \in Nat /\ DOMAIN call.steps = 1 .. Len(call.steps)
  BY CallsAssumption DEF WellFormed
<1>2. heap - TakenInAll(call, focus) \in Nat
  <2>1. \A i \in 1 .. End(call) - 1 : i \in DOMAIN call.steps =>
          (call.steps[i].does = "check" /\ call.steps[i].type = focus => owned > 0)
    BY DEF Succeed, CanPass
  <2>2. heap = owned /\ heap \in Nat
    BY CopiesAssumption DEF HandlesInv, HandlesTypeOK, OwnershipExact
  <2>3. End(call) \in Nat
    BY <1>1 DEF End
  <2>. QED
    BY <1>0, <2>1, <2>2, <2>3, TakenIsOwned DEF TakenInAll
<1>3. heap' \in 0 .. Copies /\ owned' = heap'
  BY <1>2, CopiesAssumption DEF Succeed, HandlesInv, HandlesTypeOK, OwnershipExact
<1>4. misread' \subseteq {c.name : c \in Calls}
  BY DEF Succeed, Misreads, HandlesInv, HandlesTypeOK
<1>5. UNCHANGED <<focus, message, failed, kept>>
  BY DEF Succeed
<1>. QED
  BY <1>3, <1>4, <1>5
  DEF HandlesInv, HandlesTypeOK, OwnershipExact, MessageMatches, Slot

LEMMA NextKeeps == HandlesInv /\ [Next]_vars => HandlesInv'
<1> SUFFICES ASSUME HandlesInv, [Next]_vars PROVE HandlesInv'
  OBVIOUS
<1>1. ASSUME NEW thread \in Threads, NEW call \in CallsOn[focus],
             Calling(thread, call)
      PROVE  HandlesInv'
  <2>1. call \in Calls
    BY <1>1 DEF HandlesInv, HandlesTypeOK, CallsOn
  <2>2. CASE \E k \in DOMAIN call.steps : \E failure \in call.steps[k].fails :
               Fail(thread, call, k, failure)
    BY <2>1, <2>2, FailKeeps
  <2>3. CASE \E extra \in 0 .. Given(call, "maybe", focus) :
               Succeed(thread, call, Given(call, "box", focus) + extra)
    <3>1. PICK extra \in 0 .. Given(call, "maybe", focus) :
            Succeed(thread, call, Given(call, "box", focus) + extra)
      BY <2>3
    <3>2. Given(call, "box", focus) + extra \in Nat
      BY <3>1 DEF Given
    <3>. QED
      BY <2>1, <3>1, <3>2, SucceedKeeps
  <2>. QED
    BY <1>1, <2>2, <2>3 DEF Calling
<1>2. ASSUME NEW thread \in Threads, GetCurrentError(thread) PROVE HandlesInv'
  BY <1>2
  DEF GetCurrentError, HandlesInv, HandlesTypeOK, OwnershipExact, MessageMatches, Slot
<1>3. CASE UNCHANGED vars
  BY <1>3
  DEF vars, HandlesInv, HandlesTypeOK, OwnershipExact, MessageMatches, Slot
<1>. QED
  BY <1>1, <1>2, <1>3 DEF Next

LEMMA InitHolds == Init => HandlesInv
BY CopiesAssumption
DEF Init, HandlesInv, HandlesTypeOK, OwnershipExact, MessageMatches, Slot, ErrorCode

LEMMA InvHolds == Spec => []HandlesInv
BY InitHolds, NextKeeps, PTL DEF Spec

(* Every variable keeps its type.                                            *)
THEOREM TypeCorrect == Spec => []HandlesTypeOK
BY InvHolds, PTL DEF HandlesInv

(* A caller who looks at return codes only knows exactly what it owns.       *)
THEOREM OwnershipHolds == Spec => []OwnershipExact
BY InvHolds, PTL DEF HandlesInv

(* The stored message belongs to the last error of the same thread.          *)
THEOREM MessagesMatch == Spec => []MessageMatches
BY InvHolds, PTL DEF HandlesInv

(* A pointer to the error details lives until the thread's own next error.   *)
THEOREM KeptHolds == Spec => KeptUntilNextError
<1>1. ASSUME HandlesInv, [Next]_vars, NEW t \in Threads,
             kept[t] = "valid", kept'[t] = "dangling"
      PROVE  \E call \in CallsOn[focus] : \E k \in DOMAIN call.steps :
               \E failure \in call.steps[k].fails :
                 failure.code = failed'[t] /\ Fail(t, call, k, failure)
  <2>0. kept \in [Threads -> {"none", "valid", "dangling"}]
        /\ failed \in [Threads -> ErrorCode]
    BY <1>1 DEF HandlesInv, HandlesTypeOK
  <2>1. ASSUME NEW thread \in Threads, NEW call \in CallsOn[focus],
               NEW k \in DOMAIN call.steps, NEW failure \in call.steps[k].fails,
               Fail(thread, call, k, failure)
        PROVE  t = thread /\ failed'[t] = failure.code
    BY <1>1, <2>0, <2>1 DEF Fail, StoreError, Slot
  <2>2. ASSUME NEW thread \in Threads, NEW call \in CallsOn[focus],
               NEW given, Succeed(thread, call, given)
        PROVE  FALSE
    BY <1>1, <2>2 DEF Succeed
  <2>3. ASSUME NEW thread \in Threads, GetCurrentError(thread) PROVE FALSE
    BY <1>1, <2>0, <2>3 DEF GetCurrentError
  <2>4. ~UNCHANGED vars
    BY <1>1 DEF vars
  <2>5. PICK thread \in Threads, call \in CallsOn[focus] : Calling(thread, call)
    BY <1>1, <2>3, <2>4 DEF Next
  <2>6. PICK k \in DOMAIN call.steps :
          \E failure \in call.steps[k].fails : Fail(thread, call, k, failure)
    BY <2>2, <2>5 DEF Calling
  <2>7. PICK failure \in call.steps[k].fails : Fail(thread, call, k, failure)
    BY <2>6
  <2>. QED
    BY <2>1, <2>7
<1>2. HandlesInv /\ [Next]_vars =>
        [\A t \in Threads :
           kept[t] = "valid" /\ kept'[t] = "dangling" =>
             \E call \in CallsOn[focus] : \E k \in DOMAIN call.steps :
               \E failure \in call.steps[k].fails :
                 failure.code = failed'[t] /\ Fail(t, call, k, failure)]_vars
  BY <1>1
<1>. QED
  BY <1>2, InvHolds, PTL DEF Spec, KeptUntilNextError

-----------------------------------------------------------------------------
(* Misreading.  A call that was misread has a step that does not read what   *)
(* it was given as the type it was made of.                                  *)
Straight(step) == step.does = "check" => step.read = step.type
Honest(call) == \A i \in DOMAIN call.steps : Straight(call.steps[i])
MisreadInv == \A name \in misread : \E call \in Calls : call.name = name /\ ~Honest(call)

LEMMA MisreadsAreDishonest ==
  ASSUME NEW call \in Calls, NEW k, NEW name \in Misreads(call, k)
  PROVE  call.name = name /\ ~Honest(call)
<1>1. PICK i \in DOMAIN call.steps :
        /\ call.steps[i].does = "check" /\ call.steps[i].type = focus
        /\ call.steps[i].read # focus
  BY DEF Misreads
<1>2. name = call.name
  BY DEF Misreads
<1>. QED
  BY <1>1, <1>2 DEF Honest, Straight

LEMMA NextMisreads == HandlesInv /\ MisreadInv /\ [Next]_vars => MisreadInv'
<1> SUFFICES ASSUME HandlesInv, MisreadInv, [Next]_vars PROVE MisreadInv'
  OBVIOUS
<1>1. ASSUME misread' = misread PROVE MisreadInv'
  BY <1>1 DEF MisreadInv
<1>2. ASSUME NEW thread \in Threads, NEW call \in CallsOn[focus], Calling(thread, call)
      PROVE  MisreadInv'
  <2>1. call \in Calls
    BY DEF HandlesInv, HandlesTypeOK, CallsOn
  <2>2. \E k : misread' = misread \cup Misreads(call, k)
    BY <1>2 DEF Calling, Fail, Succeed
  <2>. QED
    BY <2>1, <2>2, MisreadsAreDishonest DEF MisreadInv
<1>3. ASSUME NEW thread \in Threads, GetCurrentError(thread) PROVE misread' = misread
  BY <1>3 DEF GetCurrentError
<1>4. CASE UNCHANGED vars
  BY <1>1, <1>4 DEF vars
<1>. QED
  BY <1>1, <1>2, <1>3, <1>4 DEF Next

LEMMA MisreadHolds == Spec => []MisreadInv
<1>1. Init => MisreadInv
  BY DEF Init, MisreadInv
<1>. QED
  BY <1>1, InvHolds, NextMisreads, PTL DEF Spec

(* The words of the interface read straight ...                              *)
LEMMA Words ==
  /\ \A T, n : Straight(Ref(T, n)) /\ Straight(RefAs(T, T, n)) /\ Straight(Unnumbered(T))
  /\ \A T, n, m : Straight(Refs(T, n, m)) /\ Straight(Indexes(n, m)) /\ Straight(Bytes(n, m))
  /\ \A n : Straight(In(n)) /\ Straight(Out(n)) /\ Straight(OptBytes(n)) /\ Straight(Callback(n))
            /\ Straight(OptStr(n)) /\ Straight(Body(n)) /\ Straight(Hopeless(n))
  /\ \A T : Straight(Opt(T)) /\ Straight(Take(T)) /\ Straight(Box(T)) /\ Straight(BoxMaybe(T))
  /\ Straight(OutUnnumbered) /\ Straight(InitLogger)
BY DEF Straight, Ref, RefAs, Unnumbered, Refs, Indexes, Bytes, In, Out, OptBytes, Callback, OptStr,
       Body, Hopeless, Opt, Take, Box, BoxMaybe, OutUnnumbered, InitLogger, Step

(* ... and so do the groups of functions that look alike.                    *)
LEMMA Groups ==
  ASSUME NEW T
  PROVE  /\ \A call \in JsonApi(T) : Honest(call)
         /\ Honest(Free(T)) /\ Honest(NewBuilder(T)) /\ Honest(AsBytes(T))
         /\ \A x : Honest(Build(T, x)) /\ Honest(AddAttr(T, x)) /\ Honest(FromBytes(T, x))
                  /\ Honest(ChangeMembership(x))
<1>1. Honest(Free(T)) /\ Honest(ToJson(T)) /\ Honest(FromJson(T))
  BY Words DEF Honest, Free, ToJson, FromJson, Call
<1>2. Honest(NewBuilder(T)) /\ Honest(AsBytes(T))
  BY Words DEF Honest, NewBuilder, AsBytes, Call
<1>3. \A x : Honest(Build(T, x)) /\ Honest(AddAttr(T, x)) /\ Honest(FromBytes(T, x))
            /\ Honest(ChangeMembership(x))
  BY Words DEF Honest, Build, AddAttr, FromBytes, ChangeMembership, Call
<1>. QED
  BY <1>1, <1>2, <1>3 DEF JsonApi

Delta == <<"RevocationRegistryDelta", "to_json">>

LEMMA DeltaCalls == \A call \in RevocationRegistryDeltaApi : Honest(call) \/ call.name = Delta
<1> DEFINE fromJson == Call(<<"RevocationRegistryDelta", "from_json">>,
                            << In(1), Out(2), Hopeless(InvalidStructure),
                               Box("RevocationRegistryDelta") >>)
<1>1. Honest(fromJson)
  BY Words DEF Honest, Call
<1>. QED
  BY <1>1, Groups DEF RevocationRegistryDeltaApi, Call, Delta

(* Two sequences of steps, one after the other.                              *)
LEMMA Joined ==
  ASSUME NEW S, NEW s \in Seq(S), NEW t \in Seq(S),
         \A i \in DOMAIN s : Straight(s[i]), \A i \in DOMAIN t : Straight(t[i])
  PROVE  /\ s \o t \in Seq(S)
         /\ \A i \in DOMAIN (s \o t) : Straight((s \o t)[i])
<1>1. /\ Len(s) \in Nat /\ Len(t) \in Nat /\ DOMAIN s = 1 .. Len(s) /\ DOMAIN t = 1 .. Len(t)
      /\ s \o t \in Seq(S) /\ DOMAIN (s \o t) = 1 .. Len(s) + Len(t)
      /\ \A i \in 1 .. Len(s) + Len(t) : (s \o t)[i] = IF i <= Len(s) THEN s[i] ELSE t[i - Len(s)]
  OBVIOUS
<1>2. ASSUME NEW i \in 1 .. Len(s) + Len(t) PROVE Straight((s \o t)[i])
  <2>1. CASE i <= Len(s)
    BY <1>1, <2>1
  <2>2. CASE ~(i <= Len(s))
    <3>1. i - Len(s) \in 1 .. Len(t)
      BY <1>1, <2>2
    <3>. QED
      BY <1>1, <2>2, <3>1
  <2>. QED
    BY <2>1, <2>2
<1>. QED
  BY <1>1, <1>2

(* The two functions that sign.                                              *)
LEMMA SignCalls == Honest(SignCredential) /\ Honest(SignCredentialWithRevoc)
<1> DEFINE out == << Out(10), Out(11), Body(Library) >>
           registry == << Ref("RevocationRegistry", 12), Unnumbered("RevocationKeyPrivate"),
                          OutUnnumbered, OutUnnumbered, OutUnnumbered, Body(Library) >>
           maybe == << BoxMaybe("RevocationRegistryDelta") >>
           S == {SignParameters[i] : i \in 1 .. 8} \cup {Signature[i] : i \in 1 .. 2}
                  \cup {out[i] : i \in 1 .. 3} \cup {registry[i] : i \in 1 .. 6} \cup {maybe[1]}
<1>1. SignParameters \in Seq(S) /\ \A i \in DOMAIN SignParameters : Straight(SignParameters[i])
  BY Words DEF SignParameters
<1>2. Signature \in Seq(S) /\ \A i \in DOMAIN Signature : Straight(Signature[i])
  BY Words DEF Signature
<1>3. out \in Seq(S) /\ \A i \in DOMAIN out : Straight(out[i])
  BY Words
<1>4. registry \in Seq(S) /\ \A i \in DOMAIN registry : Straight(registry[i])
  BY Words
<1>5. maybe \in Seq(S) /\ \A i \in DOMAIN maybe : Straight(maybe[i])
  BY Words
<1> HIDE DEF out, registry, maybe, S
<1>6. /\ SignParameters \o out \in Seq(S)
      /\ \A i \in DOMAIN (SignParameters \o out) : Straight((SignParameters \o out)[i])
  BY <1>1, <1>3, Joined
<1>7. \A i \in DOMAIN (SignParameters \o out \o Signature) :
        Straight((SignParameters \o out \o Signature)[i])
  BY <1>2, <1>6, Joined
<1>8. /\ SignParameters \o registry \in Seq(S)
      /\ \A i \in DOMAIN (SignParameters \o registry) : Straight((SignParameters \o registry)[i])
  BY <1>1, <1>4, Joined
<1>9. /\ SignParameters \o registry \o Signature \in Seq(S)
      /\ \A i \in DOMAIN (SignParameters \o registry \o Signature) :
            Straight((SignParameters \o registry \o Signature)[i])
  BY <1>2, <1>8, Joined
<1>10. \A i \in DOMAIN (SignParameters \o registry \o Signature \o maybe) :
         Straight((SignParameters \o registry \o Signature \o maybe)[i])
  BY <1>5, <1>9, Joined
<1>11. Honest(SignCredential)
  BY <1>7, Zenon DEF Honest, SignCredential, Call, out
<1>12. Honest(SignCredentialWithRevoc)
  BY <1>10, Zenon DEF Honest, SignCredentialWithRevoc, Call, registry, maybe
<1>. QED
  BY <1>11, <1>12

LEMMA AddValues == \A call \in CredentialValuesAdd : Honest(call)
<1>1. ASSUME NEW name, NEW parameters \in Nat PROVE Honest(AddValue(name, parameters))
  <2> DEFINE first == << Ref("CredentialValuesBuilder", 1) >>
             inputs == [i \in 1 .. parameters |-> In(i + 1)]
             last == << Body(Library) >>
             S == {first[1], last[1]} \cup {In(i + 1) : i \in 1 .. parameters}
  <2>1. first \in Seq(S) /\ \A i \in DOMAIN first : Straight(first[i])
    BY Words
  <2>2. inputs \in Seq(S) /\ \A i \in DOMAIN inputs : Straight(inputs[i])
    <3>1. inputs \in [1 .. parameters -> S]
      OBVIOUS
    <3>2. inputs \in Seq(S)
      BY <3>1
    <3>. QED
      BY <3>2, Words
  <2>3. last \in Seq(S) /\ \A i \in DOMAIN last : Straight(last[i])
    BY Words
  <2> HIDE DEF first, inputs, last, S
  <2>4. first \o inputs \in Seq(S) /\ \A i \in DOMAIN (first \o inputs) : Straight((first \o inputs)[i])
    BY <2>1, <2>2, Joined
  <2>5. \A i \in DOMAIN (first \o inputs \o last) : Straight((first \o inputs \o last)[i])
    BY <2>3, <2>4, Joined
  <2>. QED
    BY <2>5, Zenon DEF Honest, AddValue, Call, first, inputs, last
<1>. QED
  BY <1>1 DEF CredentialValuesAdd

LEMMA IssuerReads == \A call \in IssuerCalls : Honest(call) \/ call.name = Delta
<1>1. /\ Honest(NewCredentialDef) /\ Honest(NewRevocationRegistryDef)
      /\ Honest(DeltaFromParts) /\ Honest(MergeDeltas)
  BY Words DEF Honest, NewCredentialDef, NewRevocationRegistryDef, DeltaFromParts, MergeDeltas, Call
<1>2. Honest(RevokeCredential) /\ Honest(RecoveryCredential)
  BY Groups DEF RevokeCredential, RecoveryCredential
<1>3. \A call \in CredentialPublicKeyApi \cup CredentialPrivateKeyApi
          \cup CredentialKeyCorrectnessProofApi \cup RevocationKeyPublicApi
          \cup RevocationKeyPrivateApi \cup RevocationRegistryApi
          \cup RevocationTailsGeneratorApi \cup CredentialSignatureApi
          \cup SignatureCorrectnessProofApi : Honest(call)
  BY Groups DEF CredentialPublicKeyApi, CredentialPrivateKeyApi, CredentialKeyCorrectnessProofApi,
       RevocationKeyPublicApi, RevocationKeyPrivateApi, RevocationRegistryApi,
       RevocationTailsGeneratorApi, CredentialSignatureApi, SignatureCorrectnessProofApi
<1>. QED
  BY <1>1, <1>2, <1>3, SignCalls, DeltaCalls DEF IssuerCalls

LEMMA ProverReads == \A call \in ProverCalls : Honest(call)
<1>1. /\ Honest(NewMasterSecret) /\ Honest(BlindCredentialSecrets)
      /\ Honest(ProcessCredentialSignature) /\ Honest(GetCredentialRevocationIndex)
      /\ Honest(ProofBuilderAddSubProofRequest) /\ Honest(ProofBuilderFinalize)
  BY Words DEF Honest, NewMasterSecret, BlindCredentialSecrets, ProcessCredentialSignature,
       GetCredentialRevocationIndex, ProofBuilderAddSubProofRequest, ProofBuilderFinalize, Call
<1>2. Honest(NewProofBuilder) /\ Honest(ProofBuilderAddCommonAttribute)
  BY Groups DEF NewProofBuilder, ProofBuilderAddCommonAttribute
<1>3. \A call \in MasterSecretApi \cup BlindedCredentialSecretsApi
          \cup CredentialSecretsBlindingFactorsApi
          \cup BlindedCredentialSecretsCorrectnessProofApi \cup ProofApi : Honest(call)
  BY Groups DEF MasterSecretApi, BlindedCredentialSecretsApi, CredentialSecretsBlindingFactorsApi,
       BlindedCredentialSecretsCorrectnessProofApi, ProofApi
<1>. QED
  BY <1>1, <1>2, <1>3 DEF ProverCalls

LEMMA VerifierReads == \A call \in VerifierCalls : Honest(call)
<1>1. Honest(ProofVerifierAddSubProofRequest) /\ Honest(ProofVerifierVerify)
  BY Words DEF Honest, ProofVerifierAddSubProofRequest, ProofVerifierVerify, Call
<1>2. Honest(NewProofVerifier) /\ Honest(ProofVerifierAddCommonAttribute)
  BY Groups DEF NewProofVerifier, ProofVerifierAddCommonAttribute
<1>. QED
  BY <1>1, <1>2 DEF VerifierCalls

LEMMA SharedReads == \A call \in SharedCalls : Honest(call)
<1>1. /\ Honest(TailsGeneratorNext) /\ Honest(TailsGeneratorCount)
      /\ Honest(WitnessNew) /\ Honest(WitnessUpdate)
  BY Words DEF Honest, TailsGeneratorNext, TailsGeneratorCount, WitnessNew, WitnessUpdate, Call
<1>2. Honest(CredentialValuesNew) /\ Honest(TailFree) /\ Honest(WitnessFree)
  BY Groups DEF CredentialValuesNew, TailFree, WitnessFree
<1>3. \A call \in CredentialSchemaApi \cup NonCredentialSchemaApi \cup CredentialValuesFinalize
          \cup SubProofRequestFinalize \cup NonceApi : Honest(call)
  BY Groups DEF CredentialSchemaApi, NonCredentialSchemaApi, CredentialValuesFinalize,
       SubProofRequestFinalize, NonceApi
<1>4. \A call \in SubProofRequestAdd : Honest(call)
  <2> DEFINE addPredicate == Call(<<"SubProofRequestBuilder", "add_predicate">>,
                 << Ref("SubProofRequestBuilder", 1), In(2), In(3), Body(Library) >>)
  <2>1. Honest(addPredicate)
    BY Words DEF Honest, Call
  <2>. QED
    BY <2>1, Groups DEF SubProofRequestAdd
<1>. QED
  BY <1>1, <1>2, <1>3, <1>4, AddValues DEF SharedCalls

LEMMA BlsReads == \A call \in BlsCalls : Honest(call)
<1>1. /\ Honest(SignKeyNew) /\ Honest(MultiSignatureNew) /\ Honest(BlsSign)
      /\ Honest(BlsVerify) /\ Honest(BlsVerifyMultiSig) /\ Honest(BlsVerifyPop)
  BY Words DEF Honest, SignKeyNew, MultiSignatureNew, BlsSign, BlsVerify, BlsVerifyMultiSig,
       BlsVerifyPop, Call
<1>2. \A call \in GeneratorApi \cup SignKeyApi \cup SignatureApi \cup MultiSignatureApi : Honest(call)
  BY Groups DEF GeneratorApi, SignKeyApi, SignatureApi, MultiSignatureApi
<1>3. \A call \in VerKeyApi \cup ProofOfPossessionApi : Honest(call)
  <2> DEFINE verKey == Call(<<"VerKey", "new">>,
                 << Ref("Generator", 1), Ref("SignKey", 2), Body(Library), Box("VerKey") >>)
             possession == Call(<<"ProofOfPossession", "new">>,
                 << Ref("VerKey", 1), Ref("SignKey", 2), Body(Library), Box("ProofOfPossession") >>)
  <2>1. Honest(verKey) /\ Honest(possession)
    BY Words DEF Honest, Call
  <2>. QED
    BY <2>1, Groups DEF VerKeyApi, ProofOfPossessionApi
<1>. QED
  BY <1>1, <1>2, <1>3 DEF BlsCalls

(* With the functions libursa exports, the handle of a registry delta is the *)
(* only one that is ever read as another type, and only by to_json, for any  *)
(* number of threads and objects.                                            *)
THEOREM OnlyDeltaIsMisread ==
  ASSUME Calls = UrsaCalls PROVE Spec => []OnlyDeltaMisread
<1>1. \A call \in UrsaCalls : Honest(call) \/ call.name = Delta
  <2>1. Honest(SetLogger) /\ Honest(SetDefaultLogger)
    BY Words DEF Honest, SetLogger, SetDefaultLogger, Call
  <2>. QED
    BY <2>1, IssuerReads, ProverReads, VerifierReads, SharedReads, BlsReads DEF UrsaCalls
<1>2. MisreadInv => OnlyDeltaMisread
  BY <1>1 DEF MisreadInv, OnlyDeltaMisread, Delta
<1>. QED
  BY MisreadHolds, <1>2, PTL
=============================================================================
