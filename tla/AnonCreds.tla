------------------------------ MODULE AnonCreds ------------------------------
(* Ursa's CL signatures: one holder obtains a revocable credential, brings   *)
(* its witness up to date with the registry and presents it, once or twice,  *)
(* to a verifier.  Numbers of the protocol are abstracted to what its        *)
(* equations compare: how often a blinding factor was added to a signature,  *)
(* which items a list of commitments holds, which randomness a blinded value *)
(* was made from.                                                            *)
EXTENDS Registry, Predicates

CONSTANTS
  SchemaAttrs,      \* CredentialSchema.attrs
  NonSchemaAttrs,   \* NonCredentialSchema.attrs
  MasterSecret,     \* the name "master_secret"
  IntAttr,          \* the attribute whose value is an i32
  ValueSets,        \* CredentialValues: attribute -> known, hidden, commitment
  IntValues,        \* values of IntAttr
  CommonAttrs,      \* attributes that may be declared common
  Asks,             \* sequences of sub proof requests a verifier asks for
  MaxRequests,      \* bound: credential requests before one is answered
  MaxTries,         \* bound: attempts to process one signature
  MaxCommon,        \* bound: add_common_attribute calls of a prover
  MaxProofs         \* bound: proofs made from one builder

(* CredentialPrimaryPublicKey.r has one base per attribute of both schemas.  *)
Key == SchemaAttrs \cup NonSchemaAttrs

SubProofRequest(revealed, predicates) ==
  [revealed |-> revealed, predicates |-> predicates]

(* CredentialValue, and what CredentialValuesBuilder makes of it.            *)
ValueKinds == {"known", "hidden", "commitment"}
IsCredentialValues(attrs_values) ==
  \A a \in DOMAIN attrs_values : attrs_values[a] \in ValueKinds

Requests == UNION {{asked[i] : i \in DOMAIN asked} : asked \in Asks}

ASSUME AttrsAssumption ==
  /\ SchemaAttrs # {}
  /\ SchemaAttrs \cap NonSchemaAttrs = {}
  /\ \A attrs_values \in ValueSets : IsCredentialValues(attrs_values)
  /\ IntValues \subseteq i32
  /\ \A asked \in Asks : asked \in Seq(Requests) /\ asked # <<>>
  /\ \A request \in Requests : \A p \in request.predicates :
       p.p_type \in PredicateType /\ p.value \in i32
ASSUME CredBoundsAssumption == {MaxRequests, MaxTries, MaxCommon, MaxProofs} \subseteq Nat

VARIABLES
  values,       \* CredentialValues, on both sides of the issuance
  number,       \* the value of IntAttr
  cred,         \* the holder's credential and its signature
  session,      \* what is asked and the registries each side looks at
  builder,      \* ProofBuilder
  proofs,       \* the proofs it made
  verifier,     \* ProofVerifier
  verdict       \* the last verify since the common attribute was declared

credVars == <<values, number, cred>>
sessionVars == <<session, builder, proofs, verifier, verdict>>
vars == <<registryVars, credVars, sessionVars>>

Attrs(kind) == {a \in DOMAIN values : values[a] = kind}
Signed == Attrs("known") \cup Attrs("hidden")

(* One session.  Registry, witness and credential rest while it lasts: each  *)
(* side may look at any published registry, an old one as well as the        *)
(* newest, so that later changes would only lengthen the ledger, and the     *)
(* holder has applied what it merged.                                        *)
Idle == session.asked = <<>>

(* A registry that is not given to a call: None.                             *)
NoReg == 0
NoSession == [asked |-> <<>>, common |-> "", shown |-> {}, holderReg |-> NoReg,
              verifierReg |-> NoReg]
NewProofBuilder == [common |-> 0, tau |-> <<>>, subs |-> <<>>, next |-> 1]
NoHat == <<>>
NewProofVerifier == [requests |-> <<>>, common |-> FALSE, hat |-> NoHat, next |-> 1]
NoVerdict == [proof |-> 0, result |-> "none"]

-----------------------------------------------------------------------------
(* Issuance.                                                                 *)

(* The issuer's proof has a response for every base of the key.  The holder  *)
(* wants them all and no other, but for proofs of version 1, which cover the *)
(* schema and had no response for the master secret.                         *)
KeyCorrectnessProof == Key
KeyProven(names) == names \subseteq Key /\ Key \ names \subseteq {MasterSecret}

(* u needs a base of the key for every hidden value, and the proof of the    *)
(* blinded secrets one for every commitment too.                             *)
FactorsPossible == Attrs("hidden") \subseteq Key
SecretsProvable == Attrs("hidden") \cup Attrs("commitment") \subseteq Key

(* Prover::blind_credential_secrets, with blinding factors of its own every  *)
(* time: a holder that waits in vain asks again, and may be answered later.  *)
BlindCredentialSecrets ==
  /\ cred.state \in {"none", "requested"}
  /\ cred.requests < MaxRequests
  /\ \E names \in {KeyCorrectnessProof, SchemaAttrs} : KeyProven(names)
  /\ FactorsPossible
  /\ SecretsProvable
  /\ cred' = [cred EXCEPT !.state = "requested", !.requests = @ + 1]
  /\ UNCHANGED registryVars

(* _check_blinded_credential_secrets_correctness_proof: u and the nonce are  *)
(* hashed, so that a proof belongs to one request.                           *)
CorrectSecrets(request, proof) == request = proof

(* Issuer::_sign_primary_credential: a base for every known value.           *)
Signable == Attrs("known") \subseteq Key

(* Issuer::sign_credential_with_revoc for the holder: the primary signature  *)
(* first, so that a value without a base fails before the registry is        *)
(* touched; no signature comes back when the delta is lost.                  *)
SignCredential ==
  /\ cred.state = "requested"
  /\ Signable
  /\ Sign(Me)
  /\ \E request, proof \in 1 .. cred.requests :
       /\ CorrectSecrets(request, proof)
       /\ cred' = IF status'[Me] = "valid"
                  THEN [cred EXCEPT !.state = "signed", !.answers = request]
                  ELSE cred
  /\ UNCHANGED readerVars

(* _check_signature_correctness_proof: q = q' only with the v_prime of the   *)
(* request that was answered, added once.                                    *)
CorrectSignature(v, request) ==
  Signed \subseteq Key /\ v = 1 /\ request = cred.answers

(* _test_witness_signature: also with vr_prime added once.                   *)
CorrectWitness(vr, omega, acc) == WitnessTests(omega, acc) /\ vr = 1

(* The credential; the factors of other requests are of no use any more.     *)
Held(v, vr) == [state |-> "held", v |-> v, vr |-> vr, requests |-> 1, answers |-> 1]

(* Prover::process_credential_signature blinds the signature in place and    *)
(* checks it afterwards; an error leaves what was blinded as it is.          *)
ProcessedOnce(request, withWitness, k) ==
  IF ~withWitness THEN Held(1, cred.vr)
  ELSE IF WitnessTests(witness.omega, ledger[k].accum) THEN Held(1, 1)
  ELSE [cred EXCEPT !.v = 1, !.vr = 1]

Processed(request, withWitness, k) ==
  LET v  == cred.v + 1
      vr == cred.vr + 1
  IN IF ~CorrectSignature(v, request) THEN [cred EXCEPT !.v = v]
     ELSE IF ~withWitness THEN Held(v, cred.vr)
     ELSE IF CorrectWitness(vr, witness.omega, ledger[k].accum) THEN Held(v, vr)
     ELSE [cred EXCEPT !.v = v, !.vr = vr]

ProcessCredentialSignature ==
  /\ \/ cred.state = "signed"
     \/ cred.state = "held" /\ cred.vr = 0
  /\ cred.v < MaxTries
  /\ \E request \in 1 .. cred.requests :
       \/ cred' = Processed(request, FALSE, 0)
       \/ /\ witness # NoWitness
          /\ \E k \in DOMAIN ledger : cred' = Processed(request, TRUE, k)
  /\ UNCHANGED registryVars

(* The application returns to the signature as the issuer sent it.           *)
Reload ==
  /\ cred.state \in {"signed", "held"}
  /\ cred.v > 0
  /\ cred' = [cred EXCEPT !.state = "signed", !.v = 0, !.vr = 0]
  /\ UNCHANGED registryVars

Issuance ==
  /\ Idle
  /\ \/ BlindCredentialSecrets
     \/ SignCredential
     \/ ProcessCredentialSignature
     \/ Reload
  /\ UNCHANGED <<values, number, sessionVars>>

-----------------------------------------------------------------------------
(* Presentation, the prover's side.                                          *)

(* add_sub_proof_request takes a registry and a witness, or None: "shown"    *)
(* are the requests for which the holder's application passes both.          *)
Ask ==
  /\ Idle
  /\ cred.state = "held"
  /\ pending = NoDelta
  /\ \E asked \in Asks, common \in CommonAttrs, k \in DOMAIN ledger :
       \E shown \in SUBSET DOMAIN asked :
         /\ shown # {} => witness # NoWitness
         /\ session' = [asked |-> asked, common |-> common, shown |-> shown,
                        holderReg |-> IF shown = {} THEN NoReg ELSE k, verifierReg |-> NoReg]
  /\ UNCHANGED <<builder, proofs, verifier, verdict>>

BuilderAddCommonAttribute ==
  /\ builder.next <= Len(session.asked)
  /\ builder.common < MaxCommon
  /\ builder' = [builder EXCEPT !.common = @ + 1]
  /\ UNCHANGED <<session, proofs, verifier, verdict>>

PredicateAttrs(request) == {p.attr_name : p \in request.predicates}

(* ProofBuilder::_check_add_sub_proof_request_params_consistency.            *)
Consistent(request) ==
  /\ DOMAIN values = Key
  /\ request.revealed \subseteq DOMAIN values
  /\ PredicateAttrs(request) \subseteq DOMAIN values

(* The attributes _init_eq_proof has an m_tilde for.                         *)
Blinded(request) ==
  (Key \ request.revealed) \cup (IF builder.common > 0 THEN {session.common} ELSE {})

(* _init_ne_proof: a 32-bit value, a delta that is not negative, an m_tilde. *)
PrimaryPossible(request) ==
  \A p \in request.predicates :
    /\ p.attr_name = IntAttr
    /\ Provable(p, number)
    /\ p.attr_name \in Blinded(request)

NonRevocItem(n) == <<n, "non_revoc">>
PrimaryItem(n) == <<n, "primary">>

SubProof(n) ==
  [number |-> n, request |-> session.asked[n], common |-> builder.common,
   non_revoc |-> n \in session.shown,
   omega |-> witness.omega, at |-> witness.at, v |-> cred.v, vr |-> cred.vr]

(* The lists are kept call by call.  Items of different calls differ, so     *)
(* that two lists are the same exactly if they are the same call by call.    *)
Committed(n) == IF n \in session.shown THEN <<NonRevocItem(n), PrimaryItem(n)>>
                                       ELSE <<PrimaryItem(n)>>

(* ProofBuilder::add_sub_proof_request: the non-revocation items are in the  *)
(* lists before the primary proof is attempted, and stay when that fails.    *)
BuilderAddSubProofRequest ==
  LET n == builder.next
      request == session.asked[n]
      refused == [builder EXCEPT !.next = n + 1]
      orphaned == [refused EXCEPT !.tau = Append(@, <<NonRevocItem(n)>>)]
      proven == [refused EXCEPT !.tau = Append(@, Committed(n)),
                                !.subs = Append(@, SubProof(n))]
  IN /\ n <= Len(session.asked)
     /\ builder' = IF ~Consistent(request) THEN refused
                   ELSE IF PrimaryPossible(request) THEN proven
                   ELSE IF n \in session.shown THEN orphaned ELSE refused
     /\ UNCHANGED <<session, proofs, verifier, verdict>>

(* _finalize_ne_proof indexes eq_proof.m, which has no revealed attribute:   *)
(* the call panics.                                                          *)
Panics(sub) == PredicateAttrs(sub.request) \cap sub.request.revealed # {}

BuilderFinalize ==
  /\ ~Idle
  /\ builder.next > Len(session.asked)
  /\ Len(proofs) < MaxProofs
  /\ \A i \in DOMAIN builder.subs : ~Panics(builder.subs[i])
  /\ proofs' = Append(proofs, [id |-> Len(proofs) + 1, tau |-> builder.tau,
                               subs |-> builder.subs])
  /\ UNCHANGED <<session, builder, verifier, verdict>>

-----------------------------------------------------------------------------
(* Presentation, the verifier's side.  A ProofVerifier is filled when the    *)
(* proofs are made: none of them depends on it.                              *)
ProofsMade == ~Idle /\ Len(proofs) = MaxProofs

(* The declaration is read by verify only: the first one comes first.  One   *)
(* more forgets the m_hat that verify kept, and starts over.                 *)
VerifierAddCommonAttribute ==
  /\ ProofsMade
  /\ IF verifier.common THEN verifier.hat # NoHat ELSE verifier.next = 1
  /\ verifier' = [verifier EXCEPT !.common = TRUE, !.hat = NoHat]
  /\ verdict' = NoVerdict
  /\ UNCHANGED <<session, builder, proofs>>

(* ProofVerifier::_check_add_sub_proof_request_params_consistency looks at   *)
(* the credential schema only: attributes outside it are never asked for.    *)
Askable(request) ==
  request.revealed \cup PredicateAttrs(request) \subseteq SchemaAttrs

(* The verifier looks the registry up once, for all its requests, or passes  *)
(* none with any of them.                                                    *)
VerifierAddSubProofRequest ==
  LET request == session.asked[verifier.next]
  IN /\ ProofsMade
     /\ verifier.next <= Len(session.asked)
     /\ verifier' = [verifier EXCEPT
          !.next = @ + 1,
          !.requests = IF Askable(request) THEN Append(@, request) ELSE @]
     /\ \E k \in DOMAIN ledger \cup {NoReg} :
          /\ verifier.next > 1 => k = session.verifierReg
          /\ session' = [session EXCEPT !.verifierReg = k]
     /\ UNCHANGED <<builder, proofs, verdict>>

(* _check_verify_params_consistency.                                         *)
Corresponds(proof) ==
  /\ Len(proof.subs) = Len(verifier.requests)
  /\ \A i \in DOMAIN proof.subs : proof.subs[i].request = verifier.requests[i]

(* m_hat of the common attribute: its randomness comes from the builder's    *)
(* last add_common_attribute, or is the sub proof's own.                     *)
Hat(proof, sub) ==
  IF session.common \notin Key \ sub.request.revealed THEN NoHat
  ELSE <<proof.id, IF sub.common > 0 THEN <<"common", sub.common>> ELSE <<"own", sub.number>> >>

(* The verifier keeps the first m_hat it meets, across calls of verify.      *)
ForgetfulHatAfter(proof) ==
  IF verifier.common /\ proof.subs # <<>>
  THEN Hat(proof, proof.subs[1]) ELSE verifier.hat

HatAfter(proof) ==
  IF verifier.common /\ verifier.hat = NoHat /\ proof.subs # <<>>
  THEN Hat(proof, proof.subs[1]) ELSE verifier.hat

CommonAgree(proof) ==
  verifier.common =>
    \A i \in DOMAIN proof.subs :
      /\ Hat(proof, proof.subs[i]) # NoHat
      /\ Hat(proof, proof.subs[i]) = HatAfter(proof)

(* create_tau_list_expected: t4 holds the accumulator on both sides.         *)
SameAccumulator ==
  ledger[session.holderReg].accum = ledger[session.verifierReg].accum

(* _verify_non_revocation_proof.                                             *)
OldNonRevocVerifies(sub) ==
  CorrectWitness(sub.vr, sub.omega, ledger[session.holderReg].accum)

NonRevocVerifies(sub) ==
  /\ SameAccumulator
  /\ CorrectWitness(sub.vr, sub.omega, ledger[session.verifierReg].accum)

(* _verify_equality covers every attribute of both schemas.                  *)
PrimaryVerifies(sub) ==
  /\ sub.v = 1
  /\ Signed = Key
  /\ \A p \in sub.request.predicates : Verifies(p, number)

(* The non-revocation part is recomputed when the proof carries one and the  *)
(* verifier was given a registry; nothing asks for it otherwise.             *)
Rechecked(sub) == sub.non_revoc /\ session.verifierReg # NoReg

Bad == <<0, "bad">>
Recomputed(sub) ==
  LET non_revoc == IF NonRevocVerifies(sub) THEN NonRevocItem(sub.number) ELSE Bad
      primary == IF PrimaryVerifies(sub) THEN PrimaryItem(sub.number) ELSE Bad
  IN IF Rechecked(sub) THEN <<non_revoc, primary>> ELSE <<primary>>

(* The list that is hashed.                                                  *)
TauList(proof) == [i \in DOMAIN proof.subs |-> Recomputed(proof.subs[i])]

(* ProofVerifier::verify.                                                    *)
Result(proof) ==
  IF ~Corresponds(proof) \/ ~CommonAgree(proof) THEN "error"
  ELSE IF TauList(proof) = proof.tau THEN "accepted" ELSE "rejected"

Verify(proof) ==
  /\ verifier.next > Len(session.asked)
  /\ verdict' = [proof |-> proof.id, result |-> Result(proof)]
  /\ verifier' = IF Corresponds(proof)
                 THEN [verifier EXCEPT !.hat = HatAfter(proof)] ELSE verifier
  /\ UNCHANGED <<session, builder, proofs>>

VerifierVerify == \E i \in DOMAIN proofs : Verify(proofs[i])

Presentation ==
  /\ \/ Ask
     \/ BuilderAddCommonAttribute
     \/ BuilderAddSubProofRequest
     \/ BuilderFinalize
     \/ VerifierAddCommonAttribute
     \/ VerifierAddSubProofRequest
     \/ VerifierVerify
  /\ UNCHANGED <<registryVars, credVars>>

-----------------------------------------------------------------------------
CredInit ==
  /\ Init
  /\ values \in ValueSets
  /\ number \in IntValues
  /\ cred = [state |-> "none", v |-> 0, vr |-> 0, requests |-> 0, answers |-> 0]
  /\ session = NoSession
  /\ builder = NewProofBuilder
  /\ proofs = <<>>
  /\ verifier = NewProofVerifier
  /\ verdict = NoVerdict

(* The other indices, and revocation and recovery of the holder's.           *)
RegistryMoves ==
  /\ Idle
  /\ \/ \E i \in Indices \ {Me} : Sign(i)
     \/ \E i \in Indices : Revoke(i) \/ Recover(i)
  /\ UNCHANGED <<readerVars, credVars, sessionVars>>

HolderReads == Idle /\ ReaderNext /\ UNCHANGED <<issuerVars, credVars, sessionVars>>

CredNext == RegistryMoves \/ HolderReads \/ Issuance \/ Presentation

CredSpec == CredInit /\ [][CredNext]_vars

-----------------------------------------------------------------------------
SubProofs == [number : Nat, request : Requests, common : 0 .. MaxCommon, non_revoc : BOOLEAN,
              omega : Points, at : Nat, v : 0 .. MaxTries, vr : 0 .. MaxTries]
Items == Nat \X {"bad", "non_revoc", "primary"}
Commitments == Seq(Items)

CredTypeOK ==
  /\ RegistryTypeOK
  /\ values \in ValueSets
  /\ number \in IntValues
  /\ cred \in [state : {"none", "requested", "signed", "held"},
               v : 0 .. MaxTries, vr : 0 .. MaxTries,
               requests : 0 .. MaxRequests, answers : 0 .. MaxRequests]
  /\ builder.common \in 0 .. MaxCommon
  /\ builder.tau \in Seq(Commitments)
  /\ builder.subs \in Seq(SubProofs)
  /\ builder.next \in 1 .. Len(session.asked) + 1
  /\ Len(proofs) \in 0 .. MaxProofs
  /\ verifier.next \in 1 .. Len(session.asked) + 1
  /\ verdict \in [proof : 0 .. MaxProofs,
                  result : {"none", "error", "rejected", "accepted"}]

(* process_credential_signature adds the blinding factors in place: once an  *)
(* attempt on a signature has failed, no later attempt on the same object    *)
(* makes a credential of it; the application has to go back to its copy.     *)
RetryNeverHelps ==
  [][cred.state = "signed" /\ cred.v > 0 => cred'.state # "held" \/ cred'.v = 0]_vars

(* A proof that is accepted with its non-revocation part, against the newest *)
(* registry and with no delta lost, is about a credential that the issuer's  *)
(* application has not revoked, whatever old registries and witnesses were   *)
(* used.  A proof without the part says nothing: verify does not ask for it. *)
AcceptedNotRevoked ==
  /\ verdict.result = "accepted"
  /\ \E i \in DOMAIN proofs[verdict.proof].subs : proofs[verdict.proof].subs[i].non_revoc
  /\ session.verifierReg = Len(ledger)
  /\ lost = 0
  => status[Me] = "valid"

(* The sub proof shows what is asked, told from memberships and integers.    *)
(* Its non-revocation part, if it has one, shows that the holder is in the   *)
(* registry that both sides looked at.                                       *)
InRegistry(sub) ==
  /\ session.verifierReg # NoReg
  /\ sub.vr = 1
  /\ Me \in Members(session.verifierReg)
  /\ Members(sub.at) \ {Me} = Members(session.verifierReg) \ {Me}
  /\ Members(session.holderReg) = Members(session.verifierReg)

Truthful(sub) ==
  /\ sub.v = 1
  /\ Signed = Key
  /\ \A p \in sub.request.predicates :
       (Satisfied(p, number) /\ Representable(p, number)) \/ OffTheEnd(p, number)
  /\ sub.non_revoc => InRegistry(sub)

(* The prover could answer every request, or none of it: a request that was  *)
(* refused after its non-revocation part leaves items nobody recomputes.     *)
NoOrphans(proof) ==
  \A n \in session.shown :
    \/ ~Consistent(session.asked[n])
    \/ \E i \in DOMAIN proof.subs : proof.subs[i].number = n

(* The common attribute is hidden in every sub proof and was declared before *)
(* the first of them and not again before the last; a verifier that already  *)
(* took its m_hat from one proof accepts no other.                           *)
CommonShown(proof) ==
  verifier.common =>
    /\ \A i \in DOMAIN proof.subs :
         /\ session.common \in Key \ proof.subs[i].request.revealed
         /\ \A j \in DOMAIN proof.subs :
              i # j => proof.subs[i].common = proof.subs[j].common /\ proof.subs[i].common > 0
    /\ verifier.hat # NoHat => verifier.hat[1] = proof.id

(* verify accepts exactly the proofs that are in order: as many sub proofs   *)
(* as requests, nothing left over from a failed request, every statement     *)
(* true of the credential, the common attribute shown, and every sub proof   *)
(* that carries a non-revocation part true of the registries that both sides *)
(* used.  Nothing is said of the registry by the others, which verify takes  *)
(* as they are.  Along an intact ledger.                                     *)
InOrder(proof) ==
  /\ Corresponds(proof)
  /\ NoOrphans(proof)
  /\ \A j \in DOMAIN proof.subs : Truthful(proof.subs[j])
  /\ CommonShown(proof)

VerdictExact ==
  [][ \A i \in DOMAIN proofs :
        Verify(proofs[i]) /\ Intact(Len(ledger)) =>
          (verdict'.result = "accepted" <=> InOrder(proofs[i])) ]_vars
=============================================================================
