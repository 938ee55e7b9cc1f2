------------------------------- MODULE UrsaApi -------------------------------
(* The functions of libursa's C interface as sequences of steps, one         *)
(* definition per group of functions in the source.  A pointer that the code *)
(* does not check (some out pointers) has no step.                           *)
EXTENDS HandleCalls

(* What the library itself may fail with: its big numbers and the caller's   *)
(* tails with an invalid state, everything else with an invalid structure.   *)
Library == {InvalidState, InvalidStructure}

-----------------------------------------------------------------------------
(* Groups that look alike.                                                   *)

Free(T) == Call(<<T, "free">>, <<Ref(T, 1), Take(T)>>)
ToJson(T) == Call(<<T, "to_json">>, <<Ref(T, 1), Out(2), Body({InvalidState})>>)
FromJson(T) ==
  Call(<<T, "from_json">>, <<In(1), Out(2), Body({InvalidStructure}), Box(T)>>)
JsonApi(T) == {ToJson(T), FromJson(T), Free(T)}

NewBuilder(T) == Call(<<T, "new">>, <<Out(1), Body(Library), Box(T)>>)
Build(T, built) ==
  Call(<<T, "finalize">>,
       <<Ref(T, 1), Out(2), Take(T), Body(Library), Box(built)>>)
AddAttr(T, name) == Call(<<T, name>>, <<Ref(T, 1), In(2), Body(Library)>>)

FromBytes(T, out) ==
  Call(<<T, "from_bytes">>, <<Bytes(1, 2), Out(out), Body(Library), Box(T)>>)
AsBytes(T) == Call(<<T, "as_bytes">>, <<Ref(T, 1), Out(2), Out(3)>>)

-----------------------------------------------------------------------------
(* Issuer: keys.                                                             *)

NewCredentialDef ==
  Call(<<"issuer", "new_credential_def">>,
       << Ref("CredentialSchema", 1), Ref("NonCredentialSchema", 2),
          Out(3), Out(4), Out(5), Body(Library),
          Box("CredentialPublicKey"), Box("CredentialPrivateKey"),
          Box("CredentialKeyCorrectnessProof") >>)

CredentialPublicKeyApi == JsonApi("CredentialPublicKey")
CredentialPrivateKeyApi == JsonApi("CredentialPrivateKey")
CredentialKeyCorrectnessProofApi == JsonApi("CredentialKeyCorrectnessProof")

NewRevocationRegistryDef ==
  Call(<<"issuer", "new_revocation_registry_def">>,
       << Ref("CredentialPublicKey", 1), Out(4), Out(5), Out(6), Out(7),
          Body(Library), Box("RevocationKeyPublic"), Box("RevocationKeyPrivate"),
          Box("RevocationRegistry"), Box("RevocationTailsGenerator") >>)

RevocationKeyPublicApi == JsonApi("RevocationKeyPublic")
RevocationKeyPrivateApi == JsonApi("RevocationKeyPrivate")
RevocationRegistryApi == JsonApi("RevocationRegistry")
RevocationTailsGeneratorApi == JsonApi("RevocationTailsGenerator")

(* Issuer: credentials.                                                      *)

SignParameters ==
  << In(1), Ref("BlindedCredentialSecrets", 2),
     Ref("BlindedCredentialSecretsCorrectnessProof", 3),
     Ref("Nonce", 4), Ref("Nonce", 5), Ref("CredentialValues", 6),
     Ref("CredentialPublicKey", 7), Ref("CredentialPrivateKey", 8) >>
Signature == << Box("CredentialSignature"), Box("SignatureCorrectnessProof") >>

SignCredential ==
  Call(<<"issuer", "sign_credential">>,
       SignParameters \o << Out(10), Out(11), Body(Library) >> \o Signature)

(* Past the twelfth parameter a null pointer is an invalid state.            *)
Unnumbered(T) == RefAs(T, T, 112)
OutUnnumbered == Step("check", NoType, NoType, {Refused(112)})

SignCredentialWithRevoc ==
  Call(<<"issuer", "sign_credential_with_revoc">>,
       SignParameters
         \o << Ref("RevocationRegistry", 12), Unnumbered("RevocationKeyPrivate"),
               OutUnnumbered, OutUnnumbered, OutUnnumbered, Body(Library) >>
         \o Signature \o << BoxMaybe("RevocationRegistryDelta") >>)

CredentialSignatureApi == JsonApi("CredentialSignature")
SignatureCorrectnessProofApi == JsonApi("SignatureCorrectnessProof")

(* Issuer: revocation.  Both conversions of a delta work on the type next to *)
(* it in the file: to_json reads the delta as a correctness proof, and       *)
(* from_json can only read the text of a correctness proof.                  *)
RevocationRegistryDeltaApi ==
  { Call(<<"RevocationRegistryDelta", "to_json">>,
         << RefAs("RevocationRegistryDelta", "SignatureCorrectnessProof", P(1)),
            Out(2), Body({InvalidState}) >>),
    Call(<<"RevocationRegistryDelta", "from_json">>,
         << In(1), Out(2), Hopeless(InvalidStructure),
            Box("RevocationRegistryDelta") >>),
    Free("RevocationRegistryDelta") }

DeltaFromParts ==
  Call(<<"RevocationRegistryDelta", "from_parts">>,
       << Opt("RevocationRegistry"), Ref("RevocationRegistry", 2),
          Indexes(3, 4), Indexes(5, 6), Box("RevocationRegistryDelta") >>)

ChangeMembership(name) ==
  Call(<<"issuer", name>>,
       << Ref("RevocationRegistry", 1), Body(Library),
          Box("RevocationRegistryDelta") >>)
RevokeCredential == ChangeMembership("revoke_credential")
RecoveryCredential == ChangeMembership("recovery_credential")

(* The merged delta is the first one; what comes back is a boxed unit.       *)
MergeDeltas ==
  Call(<<"issuer", "merge_revocation_registry_deltas">>,
       << Ref("RevocationRegistryDelta", 1), Ref("RevocationRegistryDelta", 2),
          Body(Library), Box("unit") >>)

-----------------------------------------------------------------------------
(* Prover.                                                                   *)

NewMasterSecret ==
  Call(<<"prover", "new_master_secret">>,
       << Out(1), Body(Library), Box("MasterSecret") >>)
MasterSecretApi == JsonApi("MasterSecret")

BlindCredentialSecrets ==
  Call(<<"prover", "blind_credential_secrets">>,
       << Ref("CredentialPublicKey", 1), Ref("CredentialKeyCorrectnessProof", 2),
          Ref("CredentialValues", 3), Ref("Nonce", 4), Out(5), Out(6), Out(7),
          Body(Library), Box("BlindedCredentialSecrets"),
          Box("CredentialSecretsBlindingFactors"),
          Box("BlindedCredentialSecretsCorrectnessProof") >>)
BlindedCredentialSecretsApi == JsonApi("BlindedCredentialSecrets")
CredentialSecretsBlindingFactorsApi == JsonApi("CredentialSecretsBlindingFactors")
BlindedCredentialSecretsCorrectnessProofApi ==
  JsonApi("BlindedCredentialSecretsCorrectnessProof")

(* The signature is changed in place and stays the caller's.                 *)
ProcessCredentialSignature ==
  Call(<<"prover", "process_credential_signature">>,
       << Ref("CredentialSignature", 1), Ref("CredentialValues", 2),
          Ref("SignatureCorrectnessProof", 3),
          Ref("CredentialSecretsBlindingFactors", 4),
          Ref("CredentialPublicKey", 5), Ref("Nonce", 6),
          Opt("RevocationKeyPublic"), Opt("RevocationRegistry"), Opt("Witness"),
          Body(Library) >>)

GetCredentialRevocationIndex ==
  Call(<<"prover", "get_credential_revocation_index">>,
       << Ref("CredentialSignature", 1), Body({InvalidState}) >>)

NewProofBuilder == NewBuilder("ProofBuilder")
ProofBuilderAddCommonAttribute == AddAttr("ProofBuilder", "add_common_attribute")
ProofBuilderAddSubProofRequest ==
  Call(<<"ProofBuilder", "add_sub_proof_request">>,
       << Ref("ProofBuilder", 1), Ref("SubProofRequest", 2),
          Ref("CredentialSchema", 3), Ref("NonCredentialSchema", 4),
          Ref("CredentialSignature", 5), Ref("CredentialValues", 6),
          Ref("CredentialPublicKey", 7), Opt("RevocationRegistry"),
          Opt("Witness"), Body(Library) >>)
ProofBuilderFinalize ==
  Call(<<"ProofBuilder", "finalize">>,
       << Ref("ProofBuilder", 1), Ref("Nonce", 2), Out(3),
          Take("ProofBuilder"), Body(Library), Box("Proof") >>)
ProofApi == JsonApi("Proof")

-----------------------------------------------------------------------------
(* Verifier.                                                                 *)

NewProofVerifier == NewBuilder("ProofVerifier")
ProofVerifierAddCommonAttribute == AddAttr("ProofVerifier", "add_common_attribute")
ProofVerifierAddSubProofRequest ==
  Call(<<"ProofVerifier", "add_sub_proof_request">>,
       << Ref("ProofVerifier", 1), Ref("SubProofRequest", 2),
          Ref("CredentialSchema", 3), Ref("NonCredentialSchema", 4),
          Ref("CredentialPublicKey", 5), Opt("RevocationKeyPublic"),
          Opt("RevocationRegistry"), Body(Library) >>)
ProofVerifierVerify ==
  Call(<<"ProofVerifier", "verify">>,
       << Ref("ProofVerifier", 1), Ref("Proof", 2), Ref("Nonce", 3), Out(4),
          Take("ProofVerifier"), Body(Library \cup {ProofRejected}) >>)

-----------------------------------------------------------------------------
(* What issuer, prover and verifier share.                                   *)

TailsGeneratorNext ==
  Call(<<"RevocationTailsGenerator", "next">>,
       << Ref("RevocationTailsGenerator", 1), Out(2), Body(Library),
          BoxMaybe("Tail") >>)
TailsGeneratorCount ==
  Call(<<"RevocationTailsGenerator", "count">>,
       << Ref("RevocationTailsGenerator", 1), Out(2) >>)
MiscastWitnessUpdate ==
  Call(<<"Witness", "update">>,
       << Ref("RevocationRegistryDelta", 3),
          RefAs("Witness", "RevocationRegistryDelta", P(4)), Body(Library) >>)
TailFree == Free("Tail")

WitnessNew ==
  Call(<<"Witness", "new">>,
       << Ref("RevocationRegistryDelta", 3), Body(Library), Box("Witness") >>)
WitnessUpdate ==
  Call(<<"Witness", "update">>,
       << Ref("RevocationRegistryDelta", 3), Ref("Witness", 4), Body(Library) >>)
WitnessFree == Free("Witness")

CredentialSchemaApi ==
  { NewBuilder("CredentialSchemaBuilder"),
    AddAttr("CredentialSchemaBuilder", "add_attr"),
    Build("CredentialSchemaBuilder", "CredentialSchema"),
    Free("CredentialSchema") }

NonCredentialSchemaApi ==
  { NewBuilder("NonCredentialSchemaBuilder"),
    AddAttr("NonCredentialSchemaBuilder", "add_attr"),
    Build("NonCredentialSchemaBuilder", "NonCredentialSchema"),
    Free("NonCredentialSchema") }

AddValue(name, parameters) ==
  Call(<<"CredentialValuesBuilder", name>>,
       << Ref("CredentialValuesBuilder", 1) >>
         \o [i \in 1 .. parameters |-> In(i + 1)] \o << Body(Library) >>)
CredentialValuesNew == NewBuilder("CredentialValuesBuilder")
CredentialValuesAdd ==
  { AddValue("add_dec_known", 2), AddValue("add_dec_hidden", 2),
    AddValue("add_dec_commitment", 3) }
CredentialValuesFinalize ==
  { Build("CredentialValuesBuilder", "CredentialValues"), Free("CredentialValues") }

SubProofRequestAdd ==
  { NewBuilder("SubProofRequestBuilder"),
    AddAttr("SubProofRequestBuilder", "add_revealed_attr"),
    Call(<<"SubProofRequestBuilder", "add_predicate">>,
         << Ref("SubProofRequestBuilder", 1), In(2), In(3), Body(Library) >>) }
SubProofRequestFinalize ==
  { Build("SubProofRequestBuilder", "SubProofRequest"), Free("SubProofRequest") }

NonceApi == JsonApi("Nonce") \cup { NewBuilder("Nonce") }

-----------------------------------------------------------------------------
(* BLS signatures.                                                           *)

GeneratorApi ==
  { NewBuilder("Generator"), FromBytes("Generator", 1), AsBytes("Generator"),
    Free("Generator") }

(* The seed may be null, but not empty.                                      *)
OptBytes(m) == In(m)
SignKeyNew ==
  Call(<<"SignKey", "new">>, << OptBytes(2), Body(Library), Box("SignKey") >>)
SignKeyApi == { FromBytes("SignKey", 1), AsBytes("SignKey"), Free("SignKey") }

VerKeyApi ==
  { Call(<<"VerKey", "new">>,
         << Ref("Generator", 1), Ref("SignKey", 2), Body(Library), Box("VerKey") >>),
    FromBytes("VerKey", 1), AsBytes("VerKey"), Free("VerKey") }

ProofOfPossessionApi ==
  { Call(<<"ProofOfPossession", "new">>,
         << Ref("VerKey", 1), Ref("SignKey", 2), Body(Library),
            Box("ProofOfPossession") >>),
    FromBytes("ProofOfPossession", 3), AsBytes("ProofOfPossession"),
    Free("ProofOfPossession") }

SignatureApi ==
  { FromBytes("Signature", 1), AsBytes("Signature"), Free("Signature") }

MultiSignatureNew ==
  Call(<<"MultiSignature", "new">>,
       << Refs("Signature", 1, 2), Out(3), Body(Library), Box("MultiSignature") >>)
MultiSignatureApi ==
  { FromBytes("MultiSignature", 1), AsBytes("MultiSignature"),
    Free("MultiSignature") }

BlsSign ==
  Call(<<"bls", "sign">>,
       << Bytes(1, 2), Ref("SignKey", 3), Out(5), Body(Library), Box("Signature") >>)
BlsVerify ==
  Call(<<"bls", "verify">>,
       << Ref("Signature", 1), Bytes(2, 3), Ref("VerKey", 4), Ref("Generator", 5),
          Out(6), Body(Library) >>)
BlsVerifyMultiSig ==
  Call(<<"bls", "verify_multi_sig">>,
       << Ref("MultiSignature", 1), Bytes(2, 3), Refs("VerKey", 4, 5),
          Ref("Generator", 6), Out(7), Body(Library) >>)
BlsVerifyPop ==
  Call(<<"bls", "verify_pop">>,
       << Ref("ProofOfPossession", 1), Ref("VerKey", 2), Ref("Generator", 3),
          Out(4), Body(Library) >>)

-----------------------------------------------------------------------------
(* Logging.  A process has one logger: the second one is refused.            *)

InitLogger == Body({InvalidState})
SetLogger == Call(<<"logger", "set">>, << Callback(3), InitLogger >>)
SetDefaultLogger == Call(<<"logger", "set_default">>, << OptStr(1), InitLogger >>)

-----------------------------------------------------------------------------
IssuerCalls ==
  CredentialPublicKeyApi \cup CredentialPrivateKeyApi
    \cup CredentialKeyCorrectnessProofApi \cup RevocationKeyPublicApi
    \cup RevocationKeyPrivateApi \cup RevocationRegistryApi
    \cup RevocationTailsGeneratorApi \cup CredentialSignatureApi
    \cup SignatureCorrectnessProofApi \cup RevocationRegistryDeltaApi
    \cup { NewCredentialDef, NewRevocationRegistryDef, SignCredential,
           SignCredentialWithRevoc, DeltaFromParts, RevokeCredential,
           RecoveryCredential, MergeDeltas }

ProverCalls ==
  MasterSecretApi \cup BlindedCredentialSecretsApi
    \cup CredentialSecretsBlindingFactorsApi
    \cup BlindedCredentialSecretsCorrectnessProofApi \cup ProofApi
    \cup { NewMasterSecret, BlindCredentialSecrets, ProcessCredentialSignature,
           GetCredentialRevocationIndex, NewProofBuilder,
           ProofBuilderAddCommonAttribute, ProofBuilderAddSubProofRequest,
           ProofBuilderFinalize }

VerifierCalls ==
  { NewProofVerifier, ProofVerifierAddCommonAttribute,
    ProofVerifierAddSubProofRequest, ProofVerifierVerify }

SharedCalls ==
  CredentialSchemaApi \cup NonCredentialSchemaApi \cup CredentialValuesAdd
    \cup CredentialValuesFinalize \cup SubProofRequestAdd
    \cup SubProofRequestFinalize \cup NonceApi
    \cup { CredentialValuesNew, TailsGeneratorNext, TailsGeneratorCount, TailFree,
           WitnessNew, WitnessUpdate, WitnessFree }

BlsCalls ==
  GeneratorApi \cup SignKeyApi \cup VerKeyApi \cup ProofOfPossessionApi
    \cup SignatureApi \cup MultiSignatureApi
    \cup { SignKeyNew, MultiSignatureNew, BlsSign, BlsVerify, BlsVerifyMultiSig,
           BlsVerifyPop }

UrsaCalls == IssuerCalls \cup ProverCalls \cup VerifierCalls \cup SharedCalls
               \cup BlsCalls \cup { SetLogger, SetDefaultLogger }
=============================================================================
