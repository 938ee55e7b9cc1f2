-------------------------- MODULE AnonCreds_proofs --------------------------
(* Issuance and presentation, for any registry, schema, requests and bounds. *)
(* What is proved of the registry alone holds here too, since every step     *)
(* moves the registry as its own specification allows.  Presentation adds    *)
(* two invariants: nothing happens to registry, witness and credential       *)
(* during a session, and no item a prover puts into its lists is one a       *)
(* verifier only computes from a proof that fails; and the lists hold two    *)
(* items per sub proof, those of requests refused half-way, and no other.    *)
EXTENDS AnonCreds, Registry_proofs, Predicates_proofs

LEMMA StepMovesRegistry == CredNext => [Next]_registryVars
<1> SUFFICES ASSUME CredNext PROVE [Next]_registryVars
  OBVIOUS
<1>1. CASE RegistryMoves
  BY <1>1 DEF RegistryMoves, Next, IssuerNext
<1>2. CASE HolderReads
  BY <1>2 DEF HolderReads, Next
<1>3. CASE Issuance
  <2>1. CASE SignCredential
    BY <2>1, MeAssumption DEF SignCredential, Next, IssuerNext, Indices
  <2>2. CASE BlindCredentialSecrets \/ ProcessCredentialSignature \/ Reload
    BY <2>2 DEF BlindCredentialSecrets, ProcessCredentialSignature, Reload
  <2>. QED
    BY <1>3, <2>1, <2>2 DEF Issuance
<1>4. CASE Presentation
  BY <1>4 DEF Presentation
<1>. QED
  BY <1>1, <1>2, <1>3, <1>4 DEF CredNext

LEMMA CredStepMovesRegistry == [CredNext]_vars => [Next]_registryVars
BY StepMovesRegistry DEF vars

(* Issuance and presentation move the registry only as its specification     *)
(* says, so everything proved of the registry holds beside them.             *)
THEOREM CredImplementsRegistry == CredSpec => Spec
<1>1. CredInit => Init
  BY DEF CredInit
<1>. QED
  BY <1>1, CredStepMovesRegistry, PTL DEF CredSpec, Spec

LEMMA CredRegistryInv == CredSpec => []RegistryInv
BY CredImplementsRegistry, InvHolds, PTL

(* A set of members and a holder who knows it at some position is what the   *)
(* whole protocol implements as well.                                        *)
THEOREM CredImplementsLog == CredSpec => ImplementsLog
BY CredImplementsRegistry, Implements, PTL

-----------------------------------------------------------------------------
(* Types.                                                                    *)

Hats == {NoHat} \cup (Nat \X ({"common", "own"} \X Nat))

CredRecords == [state : {"none", "requested", "signed", "held"},
                v : 0 .. MaxTries, vr : 0 .. MaxTries,
                requests : 0 .. MaxRequests, answers : 0 .. MaxRequests]

SessionType ==
  /\ cred \in CredRecords
  /\ cred.vr <= cred.v
  /\ session \in [asked : Asks \cup {<<>>}, common : CommonAttrs \cup {""},
                  shown : SUBSET Nat, holderReg : Nat, verifierReg : Nat]
  /\ session.shown \subseteq 1 .. Len(session.asked)
  /\ builder \in [common : 0 .. MaxCommon, tau : Seq(Commitments), subs : Seq(SubProofs),
                  next : 1 .. Len(session.asked) + 1]
  /\ proofs \in Seq([id : Nat, tau : Seq(Commitments), subs : Seq(SubProofs)])
  /\ Len(proofs) <= MaxProofs
  /\ \A i \in DOMAIN proofs : proofs[i].id = i
  /\ verifier \in [requests : Seq(Requests), common : BOOLEAN, hat : Hats,
                   next : 1 .. Len(session.asked) + 1]
  /\ verdict \in [proof : 0 .. MaxProofs,
                  result : {"none", "error", "rejected", "accepted"}]
  /\ values \in ValueSets
  /\ number \in IntValues

SessionInv ==
  /\ Idle => /\ builder = NewProofBuilder /\ proofs = <<>>
             /\ verifier = NewProofVerifier /\ verdict = NoVerdict
  /\ ~Idle => /\ cred.state = "held"
              /\ session.shown # {} => witness # NoWitness
  /\ cred.state \in {"signed", "held"} => status[Me] # "free"

(* No item stands for a failed equation, and a sub proof shows the witness.  *)
Clean(items) == \A k \in DOMAIN items : items[k] # Bad

Genuine(list, subs) ==
  /\ \A i \in DOMAIN list : Clean(list[i])
  /\ \A i \in DOMAIN subs : /\ subs[i].omega = witness.omega
                            /\ subs[i].non_revoc => witness # NoWitness

ListsInv ==
  /\ Genuine(builder.tau, builder.subs)
  /\ \A i \in DOMAIN proofs : Genuine(proofs[i].tau, proofs[i].subs)

(* What an accepted proof showed, if it carries a non-revocation part and    *)
(* the verifier was given a registry.                                        *)
Shows(proof) == \E i \in DOMAIN proof.subs : proof.subs[i].non_revoc

VerdictInv ==
  /\ verifier.requests # <<>> => session.verifierReg \in DOMAIN ledger \cup {NoReg}
  /\ verdict # NoVerdict => /\ verifier.next > Len(session.asked)
                            /\ verdict.proof \in DOMAIN proofs
  /\ verdict.result = "accepted" /\ session.verifierReg # NoReg /\ Shows(proofs[verdict.proof])
       => WitnessTests(witness.omega, ledger[session.verifierReg].accum)

CredInv == SessionType /\ SessionInv /\ ListsInv /\ VerdictInv

LEMMA BoundsAreNat ==
  MaxRequests \in Nat /\ MaxTries \in Nat /\ MaxCommon \in Nat /\ MaxProofs \in Nat
BY CredBoundsAssumption

LEMMA AskedType ==
  ASSUME SessionType
  PROVE  /\ session.asked \in Seq(Requests) /\ Len(session.asked) \in Nat
         /\ Idle <=> Len(session.asked) = 0
         /\ \A n \in 1 .. Len(session.asked) : session.asked[n] \in Requests
<1>1. session.asked \in Seq(Requests)
  <2>1. session.asked \in Asks \cup {<<>>}
    BY DEF SessionType
  <2>. QED
    BY <2>1, AttrsAssumption, EmptySeq
<1>2. PICK s \in Seq(Requests) : s = session.asked
  BY <1>1
<1>3. Len(s) \in Nat /\ (s = <<>> <=> Len(s) = 0)
  BY EmptySeq
<1>4. \A n \in 1 .. Len(s) : s[n] \in Requests
  BY ElementOfSeq
<1>. QED
  BY <1>2, <1>3, <1>4 DEF Idle

LEMMA ItemsAreItems ==
  \A n \in Nat : /\ NonRevocItem(n) \in Items /\ PrimaryItem(n) \in Items
                 /\ NonRevocItem(n) # Bad /\ PrimaryItem(n) # Bad
BY DEF NonRevocItem, PrimaryItem, Items, Bad

(* What a call appends to the lists, whether it succeeds or not.             *)
LEMMA CommittedIsClean ==
  ASSUME NEW n \in Nat
  PROVE  /\ <<NonRevocItem(n)>> \in Commitments /\ Clean(<<NonRevocItem(n)>>)
         /\ Committed(n) \in Commitments /\ Clean(Committed(n))
<1> DEFINE first == NonRevocItem(n)
           second == PrimaryItem(n)
<1>1. first \in Items /\ second \in Items /\ first # Bad /\ second # Bad
  BY ItemsAreItems
<1>2. Committed(n) \in {<<first, second>>, <<second>>}
  BY DEF Committed
<1> HIDE DEF first, second
<1>3. /\ <<first>> \in Seq(Items) /\ <<second>> \in Seq(Items) /\ <<first, second>> \in Seq(Items)
  BY <1>1
<1>4. Clean(<<first>>) /\ Clean(<<second>>) /\ Clean(<<first, second>>)
  BY <1>1 DEF Clean
<1>. QED
  BY <1>2, <1>3, <1>4 DEF Commitments, first

-----------------------------------------------------------------------------
(* Outside a session.                                                        *)

LEMMA CredInitHolds == CredInit => CredInv
<1> SUFFICES ASSUME CredInit PROVE CredInv
  OBVIOUS
<1>1. session.asked = <<>> /\ Len(session.asked) = 0
  BY DEF CredInit, NoSession
<1>2. builder = NewProofBuilder /\ proofs = <<>>
      /\ verifier = NewProofVerifier /\ verdict = NoVerdict
  BY DEF CredInit
<1>3. SessionType
  <2>1. /\ session \in [asked : Asks \cup {<<>>}, common : CommonAttrs \cup {""},
                        shown : SUBSET Nat, holderReg : Nat, verifierReg : Nat]
        /\ session.shown = {}
    BY DEF CredInit, NoSession, NoReg
  <2>2. builder \in [common : 0 .. MaxCommon, tau : Seq(Commitments), subs : Seq(SubProofs),
                     next : 1 .. Len(session.asked) + 1]
    BY <1>1, <1>2, BoundsAreNat DEF NewProofBuilder
  <2>3. verifier \in [requests : Seq(Requests), common : BOOLEAN, hat : Hats,
                      next : 1 .. Len(session.asked) + 1]
    BY <1>1, <1>2 DEF NewProofVerifier, Hats
  <2>4. verdict \in [proof : 0 .. MaxProofs,
                     result : {"none", "error", "rejected", "accepted"}]
    BY <1>2, BoundsAreNat DEF NoVerdict
  <2>5. cred \in CredRecords /\ cred.vr <= cred.v
    BY BoundsAreNat DEF CredInit, CredRecords
  <2>6. proofs \in Seq([id : Nat, tau : Seq(Commitments), subs : Seq(SubProofs)])
        /\ Len(proofs) <= MaxProofs /\ DOMAIN proofs = {}
    BY <1>2, BoundsAreNat
  <2>. QED
    BY <2>1, <2>2, <2>3, <2>4, <2>5, <2>6 DEF SessionType, CredInit
<1>4. SessionInv
  BY <1>1, <1>2 DEF SessionInv, Idle, CredInit
<1>5. ListsInv /\ VerdictInv
  BY <1>2 DEF ListsInv, Genuine, VerdictInv, NewProofBuilder, NewProofVerifier, NoVerdict
<1>. QED
  BY <1>3, <1>4, <1>5 DEF CredInv

(* While nothing is asked there is nothing to disturb but the credential.    *)
LEMMA IdleKeeps ==
  ASSUME CredInv, Idle, UNCHANGED <<values, number, sessionVars>>,
         cred' \in CredRecords,
         cred'.vr <= cred'.v,
         cred'.state \in {"signed", "held"} => status'[Me] # "free"
  PROVE  CredInv'
<1>1. /\ values' = values /\ number' = number /\ session' = session
      /\ builder' = builder /\ proofs' = proofs
      /\ verifier' = verifier /\ verdict' = verdict
  BY DEF sessionVars
<1>2. /\ builder = NewProofBuilder /\ proofs = <<>>
      /\ verifier = NewProofVerifier /\ verdict = NoVerdict
  BY DEF CredInv, SessionInv
<1>3. SessionType'
  BY <1>1 DEF CredInv, SessionType
<1>4. SessionInv'
  BY <1>1, <1>2 DEF SessionInv, Idle
<1>5. ListsInv' /\ VerdictInv'
  BY <1>1, <1>2 DEF ListsInv, Genuine, VerdictInv, NewProofBuilder, NewProofVerifier, NoVerdict
<1>. QED
  BY <1>3, <1>4, <1>5 DEF CredInv

(* An index that was issued stays issued.                                    *)
LEMMA IssuedStays ==
  ASSUME RegistryInv, [Next]_registryVars, status[Me] # "free" PROVE status'[Me] # "free"
<1>1. status \in [Indices -> {"free", "valid", "revoked"}]
  BY DEF RegistryInv, RegistryTypeOK
<1>2. ASSUME NEW i \in Indices, Sign(i) \/ Revoke(i) \/ Recover(i)
      PROVE  \/ status' = status
             \/ status' = [status EXCEPT ![i] = "valid"]
             \/ status' = [status EXCEPT ![i] = "revoked"]
  BY <1>2 DEF Sign, SignOnDemand, SignByDefault, Revoke, Recover, Changed
<1>3. CASE IssuerNext
  <2>1. Me \in Indices
    BY MeAssumption DEF Indices
  <2>. QED
    BY <1>1, <1>2, <1>3, <2>1 DEF IssuerNext
<1>4. CASE UNCHANGED status
  BY <1>4
<1>. QED
  BY <1>3, <1>4 DEF Next, issuerVars, registryVars

LEMMA ProcessedType ==
  ASSUME SessionType, cred.state \in {"signed", "held"}, cred.v < MaxTries,
         NEW request \in 1 .. cred.requests, NEW withWitness \in BOOLEAN, NEW k
  PROVE  LET new == Processed(request, withWitness, k)
         IN new \in CredRecords /\ new.state \in {"signed", "held"} /\ new.vr <= new.v
<1>1. cred \in CredRecords /\ cred.vr <= cred.v
  BY DEF SessionType
<1>2. /\ cred.v + 1 \in 0 .. MaxTries /\ cred.vr + 1 \in 0 .. MaxTries
      /\ cred.vr <= cred.v + 1 /\ cred.vr + 1 <= cred.v + 1
      /\ cred.vr \in 0 .. MaxTries /\ 1 \in 0 .. MaxRequests
  <2>1. /\ cred.v \in 0 .. MaxTries /\ cred.vr \in 0 .. MaxTries
        /\ cred.requests \in 0 .. MaxRequests
    BY <1>1 DEF CredRecords
  <2>. QED
    BY <1>1, <2>1, BoundsAreNat
<1> DEFINE v == cred.v + 1
           vr == cred.vr + 1
<1>3. Processed(request, withWitness, k) \in
        {[cred EXCEPT !.v = v], Held(v, cred.vr), Held(v, vr),
         [cred EXCEPT !.v = v, !.vr = vr]}
  BY DEF Processed
<1> HIDE DEF v, vr
<1>4. ASSUME NEW x \in {cred.vr, vr}
      PROVE  LET new == Held(v, x)
             IN new \in CredRecords /\ new.state = "held" /\ new.vr <= new.v
  BY <1>1, <1>2 DEF Held, CredRecords, v, vr
<1>5. LET new == [cred EXCEPT !.v = v]
      IN new \in CredRecords /\ new.state \in {"signed", "held"} /\ new.vr <= new.v
  BY <1>1, <1>2 DEF CredRecords, v
<1>6. LET new == [cred EXCEPT !.v = v, !.vr = vr]
      IN new \in CredRecords /\ new.state \in {"signed", "held"} /\ new.vr <= new.v
  BY <1>1, <1>2 DEF CredRecords, v, vr
<1>. QED
  BY <1>3, <1>4, <1>5, <1>6

LEMMA IssuanceKeeps ==
  ASSUME RegistryInv, CredInv, Issuance PROVE CredInv'
<1>1. Idle /\ SessionType /\ SessionInv
      /\ UNCHANGED <<values, number, sessionVars>>
  BY DEF Issuance, CredInv
<1>2. cred \in CredRecords /\ cred.vr <= cred.v
  BY <1>1 DEF SessionType
<1>3. cred.state \in {"signed", "held"} => status[Me] # "free"
  BY <1>1 DEF SessionInv
<1>4. CASE BlindCredentialSecrets
  <2>1. cred' = [cred EXCEPT !.state = "requested", !.requests = @ + 1]
        /\ cred.requests + 1 \in 0 .. MaxRequests
    BY <1>2, <1>4, BoundsAreNat DEF BlindCredentialSecrets, CredRecords
  <2>2. cred' \in CredRecords /\ cred'.vr <= cred'.v /\ cred'.state = "requested"
    BY <1>2, <2>1 DEF CredRecords
  <2>. QED
    BY <1>1, <2>2, IdleKeeps
<1>5. CASE SignCredential
  <2>1. PICK request \in 1 .. cred.requests :
          cred' = IF status'[Me] = "valid"
                  THEN [cred EXCEPT !.state = "signed", !.answers = request]
                  ELSE cred
    BY <1>5 DEF SignCredential
  <2>2. request \in 0 .. MaxRequests /\ cred.state = "requested"
    BY <1>2, <1>5, BoundsAreNat DEF SignCredential, CredRecords
  <2>3. cred' \in CredRecords /\ cred'.vr <= cred'.v
    BY <1>2, <2>1, <2>2 DEF CredRecords
  <2>4. cred'.state \in {"signed", "held"} => status'[Me] # "free"
    BY <1>2, <2>1, <2>2
  <2>. QED
    BY <1>1, <2>3, <2>4, IdleKeeps
<1>6. CASE ProcessCredentialSignature
  <2>1. /\ cred.state \in {"signed", "held"} /\ cred.v < MaxTries
        /\ status' = status
        /\ \E request \in 1 .. cred.requests, w \in BOOLEAN, k \in DOMAIN ledger \cup {0} :
             cred' = Processed(request, w, k)
    BY <1>6 DEF ProcessCredentialSignature, registryVars
  <2>2. cred' \in CredRecords /\ cred'.vr <= cred'.v
    BY <1>1, <2>1, ProcessedType
  <2>. QED
    BY <1>1, <1>3, <2>1, <2>2, IdleKeeps
<1>7. CASE Reload
  <2>1. /\ cred' = [cred EXCEPT !.state = "signed", !.v = 0, !.vr = 0]
        /\ cred.state \in {"signed", "held"} /\ status' = status
    BY <1>7 DEF Reload, registryVars
  <2>2. 0 \in 0 .. MaxTries /\ "signed" \in {"none", "requested", "signed", "held"}
    BY BoundsAreNat
  <2>3. cred' \in CredRecords /\ cred'.v = 0 /\ cred'.vr = 0
    BY <1>2, <2>1, <2>2 DEF CredRecords
  <2>. QED
    BY <1>1, <1>3, <2>1, <2>3, IdleKeeps
<1>. QED
  BY <1>4, <1>5, <1>6, <1>7 DEF Issuance

LEMMA RegistryStepKeeps ==
  ASSUME RegistryInv, CredInv, RegistryMoves \/ HolderReads PROVE CredInv'
<1>1. Idle /\ UNCHANGED <<credVars, sessionVars>>
  BY DEF RegistryMoves, HolderReads
<1>2. CredNext
  BY DEF CredNext
<1>3. status[Me] # "free" => status'[Me] # "free"
  BY <1>2, StepMovesRegistry, IssuedStays
<1>4. /\ cred' = cred /\ UNCHANGED <<values, number, sessionVars>>
      /\ cred.state \in {"signed", "held"} => status'[Me] # "free"
  BY <1>1, <1>3 DEF credVars, CredInv, SessionInv
<1>5. cred \in CredRecords /\ cred.vr <= cred.v
  BY DEF CredInv, SessionType
<1>. QED
  BY <1>1, <1>4, <1>5, IdleKeeps

-----------------------------------------------------------------------------
(* During a session: registry, witness and credential rest.                  *)

LEMMA Rests ==
  ASSUME UNCHANGED <<registryVars, credVars>>
  PROVE  /\ UNCHANGED <<status, ledger, witness, lost, values, number, cred>>
         /\ \A list, subs : Genuine(list, subs) => Genuine(list, subs)'
<1>1. UNCHANGED <<status, ledger, witness, lost, values, number, cred>>
  BY DEF registryVars, credVars
<1>2. ASSUME NEW list, NEW subs, Genuine(list, subs) PROVE Genuine(list, subs)'
  BY <1>1, <1>2 DEF Genuine
<1>. QED
  BY <1>1, <1>2

LEMMA AskKeeps ==
  ASSUME RegistryInv, CredInv, Ask, UNCHANGED <<registryVars, credVars>> PROVE CredInv'
<1>1. UNCHANGED <<status, ledger, witness, lost, values, number, cred>>
  BY Rests
<1>2. /\ Idle /\ cred.state = "held"
      /\ UNCHANGED <<builder, proofs, verifier, verdict>>
      /\ \E asked \in Asks, common \in CommonAttrs, k \in DOMAIN ledger :
           \E shown \in SUBSET DOMAIN asked :
             /\ shown # {} => witness # NoWitness
             /\ session' = [asked |-> asked, common |-> common, shown |-> shown,
                            holderReg |-> IF shown = {} THEN NoReg ELSE k,
                            verifierReg |-> NoReg]
  BY DEF Ask
<1>3. builder = NewProofBuilder /\ proofs = <<>>
      /\ verifier = NewProofVerifier /\ verdict = NoVerdict
  BY <1>2 DEF CredInv, SessionInv
<1>4. PICK asked \in Asks, common \in CommonAttrs, k \in Nat : \E shown \in SUBSET DOMAIN asked :
        /\ shown # {} => witness # NoWitness
        /\ session' = [asked |-> asked, common |-> common, shown |-> shown,
                       holderReg |-> k, verifierReg |-> NoReg]
  <2>1. \A k \in DOMAIN ledger : k \in Nat
    BY LedgerType DEF RegistryInv
  <2>2. NoReg \in Nat
    BY DEF NoReg
  <2>. QED
    BY <1>2, <2>1, <2>2
<1>5. PICK shown \in SUBSET DOMAIN asked :
       /\ shown # {} => witness # NoWitness
       /\ session' = [asked |-> asked, common |-> common, shown |-> shown,
                      holderReg |-> k, verifierReg |-> NoReg]
  BY <1>4
<1>6. Len(session'.asked) \in Nat /\ session'.asked # <<>>
      /\ DOMAIN session'.asked = 1 .. Len(session'.asked)
  <2>1. session'.asked \in Asks
    BY <1>5
  <2>2. session'.asked \in Seq(Requests) /\ session'.asked # <<>>
    BY <2>1, AttrsAssumption
  <2>. QED
    BY <2>2, EmptySeq, LenProperties
<1>7. SessionType'
  <2>1. builder' \in [common : 0 .. MaxCommon, tau : Seq(Commitments), subs : Seq(SubProofs),
                      next : 1 .. Len(session'.asked) + 1]
    BY <1>2, <1>3, <1>6, BoundsAreNat DEF NewProofBuilder
  <2>2. verifier' \in [requests : Seq(Requests), common : BOOLEAN, hat : Hats,
                       next : 1 .. Len(session'.asked) + 1]
    BY <1>2, <1>3, <1>6 DEF NewProofVerifier, Hats
  <2>3. session'.shown \subseteq 1 .. Len(session'.asked)
    BY <1>5, <1>6
  <2>4. session' \in [asked : Asks \cup {<<>>}, common : CommonAttrs \cup {""},
                      shown : SUBSET Nat, holderReg : Nat, verifierReg : Nat]
    <3>1. shown \in SUBSET Nat
      BY <1>5, <2>3
    <3>. QED
      BY <1>5, <3>1 DEF NoReg
  <2>. QED
    BY <1>1, <1>2, <2>1, <2>2, <2>3, <2>4 DEF CredInv, SessionType
<1>8. SessionInv'
  <2>1. session'.shown # {} => witness' # NoWitness
    BY <1>1, <1>5
  <2>. QED
    BY <1>1, <1>2, <1>6, <2>1 DEF CredInv, SessionInv, Idle
<1>9. ListsInv' /\ VerdictInv'
  BY <1>2, <1>3
     DEF ListsInv, Genuine, VerdictInv, NewProofBuilder, NewProofVerifier, NoVerdict
<1>. QED
  BY <1>7, <1>8, <1>9 DEF CredInv

(* A step of the prover that leaves proofs and verifier alone.               *)
LEMMA BuilderKeeps ==
  ASSUME CredInv, ~Idle, UNCHANGED <<registryVars, credVars>>,
         UNCHANGED <<session, proofs, verifier, verdict>>,
         builder' \in [common : 0 .. MaxCommon, tau : Seq(Commitments), subs : Seq(SubProofs),
                       next : 1 .. Len(session.asked) + 1],
         Genuine(builder'.tau, builder'.subs)
  PROVE  CredInv'
<1>1. /\ UNCHANGED <<status, ledger, witness, lost, values, number, cred>>
      /\ \A list, subs : Genuine(list, subs) => Genuine(list, subs)'
  BY Rests
<1>2. SessionType'
  BY <1>1 DEF CredInv, SessionType
<1>3. SessionInv'
  BY <1>1 DEF CredInv, SessionInv, Idle
<1>4. ListsInv'
  BY <1>1 DEF CredInv, ListsInv, Genuine
<1>5. VerdictInv'
  BY <1>1 DEF CredInv, VerdictInv
<1>. QED
  BY <1>2, <1>3, <1>4, <1>5 DEF CredInv

LEMMA BuilderAddCommonKeeps ==
  ASSUME CredInv, BuilderAddCommonAttribute, UNCHANGED <<registryVars, credVars>>
  PROVE  CredInv'
<1>1. /\ builder \in [common : 0 .. MaxCommon, tau : Seq(Commitments), subs : Seq(SubProofs),
                      next : 1 .. Len(session.asked) + 1]
      /\ builder.common < MaxCommon /\ builder.next <= Len(session.asked)
      /\ builder' = [builder EXCEPT !.common = @ + 1]
      /\ UNCHANGED <<session, proofs, verifier, verdict>>
  BY DEF CredInv, SessionType, BuilderAddCommonAttribute
<1>2. ~Idle
  BY <1>1, AskedType DEF CredInv
<1>3. builder' \in [common : 0 .. MaxCommon, tau : Seq(Commitments), subs : Seq(SubProofs),
                    next : 1 .. Len(session.asked) + 1]
  <2>1. builder.common \in 0 .. MaxCommon /\ builder.common + 1 \in 0 .. MaxCommon
    BY <1>1, BoundsAreNat
  <2>. QED
    BY <1>1, <2>1
<1>4. Genuine(builder'.tau, builder'.subs)
  BY <1>1 DEF CredInv, ListsInv
<1>. QED
  BY <1>1, <1>2, <1>3, <1>4, BuilderKeeps

(* What add_sub_proof_request appends is genuine.                            *)
LEMMA GenuineGrows ==
  ASSUME NEW list \in Seq(Commitments), NEW subs \in Seq(SubProofs), Genuine(list, subs),
         NEW item \in Commitments, Clean(item), NEW sub \in SubProofs,
         sub.omega = witness.omega, sub.non_revoc => witness # NoWitness
  PROVE  /\ Append(list, item) \in Seq(Commitments) /\ Append(subs, sub) \in Seq(SubProofs)
         /\ Genuine(Append(list, item), subs)
         /\ Genuine(Append(list, item), Append(subs, sub))
<1>1. /\ Append(list, item) \in Seq(Commitments)
      /\ \A i \in DOMAIN Append(list, item) : Clean(Append(list, item)[i])
  <2>1. /\ Append(list, item) \in Seq(Commitments)
        /\ Len(Append(list, item)) = Len(list) + 1
        /\ \A i \in 1 .. Len(list) : Append(list, item)[i] = list[i]
        /\ Append(list, item)[Len(list) + 1] = item
    BY AppendProperties
  <2>2. DOMAIN Append(list, item) = 1 .. Len(list) + 1
        /\ Len(list) \in Nat /\ DOMAIN list = 1 .. Len(list)
    BY <2>1, LenProperties
  <2>. QED
    BY <2>1, <2>2 DEF Genuine
<1>2. /\ Append(subs, sub) \in Seq(SubProofs)
      /\ \A i \in DOMAIN Append(subs, sub) :
           /\ Append(subs, sub)[i].omega = witness.omega
           /\ Append(subs, sub)[i].non_revoc => witness # NoWitness
  <2>1. /\ Append(subs, sub) \in Seq(SubProofs)
        /\ Len(Append(subs, sub)) = Len(subs) + 1
        /\ \A i \in 1 .. Len(subs) : Append(subs, sub)[i] = subs[i]
        /\ Append(subs, sub)[Len(subs) + 1] = sub
    BY AppendProperties
  <2>2. DOMAIN Append(subs, sub) = 1 .. Len(subs) + 1
        /\ Len(subs) \in Nat /\ DOMAIN subs = 1 .. Len(subs)
    BY <2>1, LenProperties
  <2>. QED
    BY <2>1, <2>2 DEF Genuine
<1>. QED
  BY <1>1, <1>2 DEF Genuine

LEMMA BuilderAddSubKeeps ==
  ASSUME RegistryInv, CredInv, BuilderAddSubProofRequest,
         UNCHANGED <<registryVars, credVars>>
  PROVE  CredInv'
<1> DEFINE n == builder.next
           request == session.asked[n]
           tau1 == Append(builder.tau, <<NonRevocItem(n)>>)
           tau2 == Append(builder.tau, Committed(n))
           subs2 == Append(builder.subs, SubProof(n))
           refused == [builder EXCEPT !.next = n + 1]
           orphaned == [refused EXCEPT !.tau = tau1]
           proven == [refused EXCEPT !.tau = tau2, !.subs = subs2]
           next_builders == [common : 0 .. MaxCommon, tau : Seq(Commitments),
                             subs : Seq(SubProofs), next : 1 .. Len(session.asked) + 1]
<1>1. /\ builder \in next_builders /\ n <= Len(session.asked)
      /\ builder' \in {refused, orphaned, proven}
      /\ UNCHANGED <<session, proofs, verifier, verdict>>
  BY DEF CredInv, SessionType, BuilderAddSubProofRequest
<1>2. ~Idle /\ Len(session.asked) \in Nat /\ request \in Requests
  BY <1>1, AskedType DEF CredInv
<1>3. n \in Nat /\ n + 1 \in 1 .. Len(session.asked) + 1
  BY <1>1, <1>2
<1>4. /\ SubProof(n) \in SubProofs /\ SubProof(n).omega = witness.omega
      /\ SubProof(n).non_revoc => witness # NoWitness
  <2>1. builder.common \in 0 .. MaxCommon
    BY <1>1
  <2>2. witness.omega \in Points /\ witness.at \in Nat
    BY LedgerType DEF RegistryInv, RegistryTypeOK
  <2>3. cred.v \in 0 .. MaxTries /\ cred.vr \in 0 .. MaxTries
    BY DEF CredInv, SessionType, CredRecords
  <2>4. n \in session.shown => witness # NoWitness
    <3>1. session.shown # {} => witness # NoWitness
      BY <1>2 DEF CredInv, SessionInv
    <3> HIDE DEF n
    <3>. QED
      BY <3>1
  <2>5. /\ SubProof(n).non_revoc <=> n \in session.shown
        /\ SubProof(n).omega = witness.omega
    BY DEF SubProof
  <2>6. SubProof(n) \in SubProofs
    BY <1>2, <1>3, <2>1, <2>2, <2>3 DEF SubProof, SubProofs
  <2>. QED
    BY <2>4, <2>5, <2>6
<1>5. builder.tau \in Seq(Commitments) /\ builder.subs \in Seq(SubProofs)
      /\ Genuine(builder.tau, builder.subs)
  BY <1>1 DEF CredInv, ListsInv
<1>6. tau1 \in Seq(Commitments) /\ Genuine(tau1, builder.subs)
  BY <1>3, <1>4, <1>5, CommittedIsClean, GenuineGrows
<1>7. tau2 \in Seq(Commitments) /\ subs2 \in Seq(SubProofs) /\ Genuine(tau2, subs2)
  BY <1>3, <1>4, <1>5, CommittedIsClean, GenuineGrows
<1> HIDE DEF n, tau1, tau2, subs2
<1>8. /\ refused \in next_builders
      /\ refused.tau = builder.tau /\ refused.subs = builder.subs
  BY <1>1, <1>3
<1> HIDE DEF refused
<1>9. /\ orphaned \in next_builders
      /\ orphaned.tau = tau1 /\ orphaned.subs = builder.subs
  BY <1>6, <1>8
<1>10. /\ proven \in next_builders
       /\ proven.tau = tau2 /\ proven.subs = subs2
  BY <1>7, <1>8
<1> HIDE DEF orphaned, proven
<1>11. builder' \in next_builders /\ Genuine(builder'.tau, builder'.subs)
  BY <1>1, <1>5, <1>6, <1>7, <1>8, <1>9, <1>10
<1>. QED
  BY <1>1, <1>2, <1>11, BuilderKeeps

Proofs == [id : Nat, tau : Seq(Commitments), subs : Seq(SubProofs)]

LEMMA BuilderFinalizeKeeps ==
  ASSUME CredInv, BuilderFinalize, UNCHANGED <<registryVars, credVars>>
  PROVE  CredInv'
<1> DEFINE proof == [id |-> Len(proofs) + 1, tau |-> builder.tau, subs |-> builder.subs]
<1>1. /\ ~Idle /\ Len(proofs) < MaxProofs /\ proofs' = Append(proofs, proof)
      /\ UNCHANGED <<session, builder, verifier, verdict>>
  BY DEF BuilderFinalize
<1>2. /\ UNCHANGED <<status, ledger, witness, lost, values, number, cred>>
      /\ \A list, subs : Genuine(list, subs) => Genuine(list, subs)'
  BY Rests
<1>3. /\ proofs \in Seq(Proofs) /\ Len(proofs) \in Nat
      /\ DOMAIN proofs = 1 .. Len(proofs)
      /\ \A i \in DOMAIN proofs : /\ proofs[i].id = i
                                  /\ Genuine(proofs[i].tau, proofs[i].subs)
  <2>1. proofs \in Seq(Proofs)
    BY DEF CredInv, SessionType, Proofs
  <2>. QED
    BY <2>1, LenProperties DEF CredInv, SessionType, ListsInv
<1>4. /\ proof \in Proofs /\ proof.id = Len(proofs) + 1
      /\ Genuine(proof.tau, proof.subs)
  <2>1. builder.tau \in Seq(Commitments) /\ builder.subs \in Seq(SubProofs)
    BY DEF CredInv, SessionType
  <2>2. Len(proofs) + 1 \in Nat
    BY <1>3
  <2>. QED
    BY <2>1, <2>2 DEF Proofs, CredInv, ListsInv
<1> HIDE DEF proof
<1>5. /\ proofs' \in Seq(Proofs) /\ Len(proofs') = Len(proofs) + 1
      /\ DOMAIN proofs' = 1 .. Len(proofs) + 1
      /\ proofs'[Len(proofs) + 1] = proof
      /\ \A i \in 1 .. Len(proofs) : proofs'[i] = proofs[i]
  <2>1. /\ proofs' \in Seq(Proofs) /\ Len(proofs') = Len(proofs) + 1
        /\ proofs'[Len(proofs) + 1] = proof
        /\ \A i \in 1 .. Len(proofs) : proofs'[i] = proofs[i]
    BY <1>1, <1>3, <1>4, AppendProperties
  <2>. QED
    BY <2>1, LenProperties
<1>6. \A i \in DOMAIN proofs' : /\ proofs'[i].id = i
                                /\ Genuine(proofs'[i].tau, proofs'[i].subs)
  BY <1>3, <1>4, <1>5
<1>7. SessionType'
  <2>1. Len(proofs') <= MaxProofs
    BY <1>1, <1>3, <1>5, BoundsAreNat
  <2>. QED
    BY <1>1, <1>2, <1>5, <1>6, <2>1 DEF CredInv, SessionType, Proofs
<1>8. SessionInv'
  BY <1>1, <1>2 DEF CredInv, SessionInv, Idle
<1>9. ListsInv'
  BY <1>1, <1>2, <1>6 DEF CredInv, ListsInv, Genuine
<1>10. VerdictInv'
  <2>1. verdict.result = "accepted" => verdict # NoVerdict
    BY DEF NoVerdict
  <2>2. verdict # NoVerdict =>
          verdict.proof \in DOMAIN proofs' /\ proofs'[verdict.proof] = proofs[verdict.proof]
    BY <1>3, <1>5 DEF CredInv, VerdictInv
  <2>. QED
    BY <1>1, <1>2, <2>1, <2>2 DEF CredInv, VerdictInv, Shows
<1>. QED
  BY <1>7, <1>8, <1>9, <1>10 DEF CredInv

(* A step of the verifier, which leaves the prover's lists alone.            *)
LEMMA VerifierKeeps ==
  ASSUME CredInv, ~Idle, UNCHANGED <<registryVars, credVars>>,
         UNCHANGED <<builder, proofs>>,
         session' \in [asked : {session.asked}, common : CommonAttrs \cup {""},
                       shown : {session.shown}, holderReg : Nat, verifierReg : Nat],
         verifier' \in [requests : Seq(Requests), common : BOOLEAN, hat : Hats,
                        next : 1 .. Len(session.asked) + 1],
         verdict' \in [proof : 0 .. MaxProofs,
                       result : {"none", "error", "rejected", "accepted"}],
         VerdictInv'
  PROVE  CredInv'
<1>1. /\ UNCHANGED <<status, ledger, witness, lost, values, number, cred>>
      /\ \A list, subs : Genuine(list, subs) => Genuine(list, subs)'
  BY Rests
<1>2. session'.asked = session.asked /\ session'.shown = session.shown
  OBVIOUS
<1>3. SessionType'
  <2>1. session' \in [asked : Asks \cup {<<>>}, common : CommonAttrs \cup {""},
                      shown : SUBSET Nat, holderReg : Nat, verifierReg : Nat]
    BY DEF CredInv, SessionType
  <2>. QED
    BY <1>1, <1>2, <2>1 DEF CredInv, SessionType
<1>4. SessionInv'
  BY <1>1, <1>2 DEF CredInv, SessionInv, Idle
<1>5. ListsInv'
  BY <1>1 DEF CredInv, ListsInv, Genuine
<1>. QED
  BY <1>3, <1>4, <1>5 DEF CredInv

LEMMA BusyWithProofs == ASSUME CredInv, proofs # <<>> PROVE ~Idle
BY DEF CredInv, SessionInv

LEMMA SessionParts ==
  ASSUME CredInv
  PROVE  session \in [asked : {session.asked}, common : CommonAttrs \cup {""},
                      shown : {session.shown}, holderReg : Nat, verifierReg : Nat]
BY DEF CredInv, SessionType

LEMMA VerifierAddCommonKeeps ==
  ASSUME CredInv, VerifierAddCommonAttribute, UNCHANGED <<registryVars, credVars>>
  PROVE  CredInv'
<1>1. /\ ~Idle /\ verifier' = [verifier EXCEPT !.common = TRUE, !.hat = NoHat]
      /\ verdict' = NoVerdict
      /\ UNCHANGED <<session, builder, proofs>>
  BY DEF VerifierAddCommonAttribute, ProofsMade
<1>2. /\ verifier' \in [requests : Seq(Requests), common : BOOLEAN, hat : Hats,
                        next : 1 .. Len(session.asked) + 1]
      /\ verifier'.requests = verifier.requests /\ verifier'.next = verifier.next
  BY <1>1 DEF CredInv, SessionType, Hats
<1>3. UNCHANGED <<ledger, witness>>
  BY Rests
<1>4. VerdictInv'
  BY <1>1, <1>2, <1>3 DEF CredInv, VerdictInv, NoVerdict
<1>5. session' \in [asked : {session.asked}, common : CommonAttrs \cup {""},
                    shown : {session.shown}, holderReg : Nat, verifierReg : Nat]
  BY <1>1, SessionParts
<1>6. verdict' \in [proof : 0 .. MaxProofs,
                    result : {"none", "error", "rejected", "accepted"}]
  BY <1>1, BoundsAreNat DEF NoVerdict
<1>. QED
  BY <1>1, <1>2, <1>4, <1>5, <1>6, VerifierKeeps

LEMMA VerifierAddSubKeeps ==
  ASSUME RegistryInv, CredInv, VerifierAddSubProofRequest,
         UNCHANGED <<registryVars, credVars>>
  PROVE  CredInv'
<1> DEFINE request == session.asked[verifier.next]
           requests == IF Askable(request) THEN Append(verifier.requests, request)
                                           ELSE verifier.requests
<1>1. /\ ~Idle /\ verifier.next <= Len(session.asked)
      /\ verifier' = [verifier EXCEPT !.next = @ + 1, !.requests = requests]
      /\ UNCHANGED <<builder, proofs, verdict>>
  <2>1. verifier' = [verifier EXCEPT
          !.next = @ + 1,
          !.requests = IF Askable(request) THEN Append(@, request) ELSE @]
    BY DEF VerifierAddSubProofRequest
  <2>. QED
    BY <2>1 DEF VerifierAddSubProofRequest, ProofsMade
<1>2. PICK k \in DOMAIN ledger \cup {NoReg} : session' = [session EXCEPT !.verifierReg = k]
  BY DEF VerifierAddSubProofRequest
<1>3. /\ verifier \in [requests : Seq(Requests), common : BOOLEAN, hat : Hats,
                       next : 1 .. Len(session.asked) + 1]
      /\ session \in [asked : {session.asked}, common : CommonAttrs \cup {""},
                      shown : {session.shown}, holderReg : Nat, verifierReg : Nat]
  BY SessionParts DEF CredInv, SessionType
<1>4. /\ Len(session.asked) \in Nat /\ request \in Requests
      /\ verifier.next \in Nat /\ verifier.next + 1 \in 1 .. Len(session.asked) + 1
  <2>1. /\ Len(session.asked) \in Nat
        /\ \A n \in 1 .. Len(session.asked) : session.asked[n] \in Requests
    BY AskedType DEF CredInv
  <2>2. verifier.next \in 1 .. Len(session.asked) + 1
    BY <1>3
  <2>. QED
    BY <1>1, <2>1, <2>2
<1>5. requests \in Seq(Requests)
  BY <1>3, <1>4, AppendProperties
<1> HIDE DEF request, requests
<1>. DEFINE following == verifier.next + 1
<1>6. /\ verifier' \in [requests : Seq(Requests), common : BOOLEAN, hat : Hats,
                        next : 1 .. Len(session.asked) + 1]
      /\ verifier'.next = verifier.next + 1
  <2>1. verifier' = [verifier EXCEPT !.next = following, !.requests = requests]
    BY <1>1
  <2>2. following \in 1 .. Len(session.asked) + 1
    BY <1>4
  <2> HIDE DEF following
  <2>3. /\ verifier' \in [requests : Seq(Requests), common : BOOLEAN, hat : Hats,
                          next : 1 .. Len(session.asked) + 1]
        /\ verifier'.next = following
    BY <1>3, <1>5, <2>1, <2>2
  <2>. QED
    BY <2>3 DEF following
<1>7. /\ session' \in [asked : {session.asked}, common : CommonAttrs \cup {""},
                       shown : {session.shown}, holderReg : Nat, verifierReg : Nat]
      /\ session'.asked = session.asked /\ session'.verifierReg = k
  <2>1. k \in Nat
    BY LedgerType DEF RegistryInv, NoReg
  <2>. QED
    BY <1>2, <1>3, <2>1
<1>8. verdict = NoVerdict
  <2>1. verdict # NoVerdict => verifier.next > Len(session.asked)
    BY DEF CredInv, VerdictInv
  <2>. QED
    BY <1>1, <1>4, <2>1
<1>9. UNCHANGED <<ledger, witness>>
  BY Rests
<1>10. VerdictInv'
  BY <1>1, <1>2, <1>7, <1>8, <1>9 DEF VerdictInv, NoVerdict
<1>11. verdict' \in [proof : 0 .. MaxProofs,
                     result : {"none", "error", "rejected", "accepted"}]
  BY <1>1 DEF CredInv, SessionType
<1>. QED
  BY <1>1, <1>6, <1>7, <1>10, <1>11, VerifierKeeps

(* A proof that is accepted with a non-revocation part, and rechecked, shows *)
(* the holder's witness.                                                     *)
LEMMA AcceptedShows ==
  ASSUME CredInv, NEW i \in DOMAIN proofs, Result(proofs[i]) = "accepted",
         session.verifierReg # NoReg, Shows(proofs[i])
  PROVE  WitnessTests(witness.omega, ledger[session.verifierReg].accum)
<1> DEFINE proof == proofs[i]
<1>1. TauList(proof) = proof.tau
  BY DEF Result
<1>2. PICK j \in DOMAIN proof.subs : proof.subs[j].non_revoc
  BY DEF Shows
<1>3. Genuine(proof.tau, proof.subs)
  BY DEF CredInv, ListsInv
<1> HIDE DEF proof
<1>4. j \in DOMAIN proof.tau /\ proof.tau[j] = Recomputed(proof.subs[j])
  BY <1>1, <1>2 DEF TauList
<1> DEFINE sub == proof.subs[j]
           primary == IF PrimaryVerifies(sub) THEN PrimaryItem(sub.number) ELSE Bad
<1>5. ~NonRevocVerifies(sub) => Recomputed(sub) = <<Bad, primary>>
  BY <1>2 DEF Recomputed, Rechecked
<1> HIDE DEF primary, sub
<1>6. \A x : ~Clean(<<Bad, x>>)
  <2> TAKE x
  <2>1. 1 \in DOMAIN <<Bad, x>> /\ <<Bad, x>>[1] = Bad
    OBVIOUS
  <2>. QED
    BY <2>1 DEF Clean
<1>7. NonRevocVerifies(sub)
  BY <1>3, <1>4, <1>5, <1>6 DEF Genuine, sub
<1>8. sub.omega = witness.omega
  BY <1>2, <1>3 DEF Genuine, sub
<1>. QED
  BY <1>7, <1>8 DEF NonRevocVerifies, CorrectWitness

LEMMA HatType ==
  ASSUME CredInv, NEW i \in DOMAIN proofs PROVE HatAfter(proofs[i]) \in Hats
<1> DEFINE proof == proofs[i]
<1>1. proof \in Proofs
  <2>1. proofs \in Seq(Proofs)
    BY DEF CredInv, SessionType, Proofs
  <2>. QED
    BY <2>1, LenProperties, ElementOfSeq
<1> HIDE DEF proof
<1>2. verifier.hat \in Hats
  BY DEF CredInv, SessionType
<1>3. ASSUME proof.subs # <<>> PROVE Hat(proof, proof.subs[1]) \in Hats
  <2>1. proof.subs \in Seq(SubProofs) /\ proof.id \in Nat
    BY <1>1 DEF Proofs
  <2>2. 1 \in 1 .. Len(proof.subs)
    BY <1>3, <2>1, LenProperties, EmptySeq
  <2>3. proof.subs[1] \in SubProofs
    BY <2>1, <2>2, ElementOfSeq
  <2>4. proof.subs[1].common \in Nat /\ proof.subs[1].number \in Nat
    BY <2>3, BoundsAreNat DEF SubProofs
  <2>. QED
    BY <2>1, <2>4 DEF Hat, Hats
<1>. QED
  BY <1>2, <1>3 DEF HatAfter, proof

LEMMA VerifierVerifyKeeps ==
  ASSUME CredInv, VerifierVerify, UNCHANGED <<registryVars, credVars>>
  PROVE  CredInv'
<1>1. PICK i \in DOMAIN proofs : Verify(proofs[i])
  BY DEF VerifierVerify
<1> DEFINE proof == proofs[i]
<1>2. /\ verifier.next > Len(session.asked)
      /\ verdict' = [proof |-> proof.id, result |-> Result(proof)]
      /\ verifier' = IF Corresponds(proof)
                     THEN [verifier EXCEPT !.hat = HatAfter(proof)] ELSE verifier
      /\ UNCHANGED <<session, builder, proofs>>
  BY <1>1 DEF Verify
<1>3. ~Idle
  <2>1. DOMAIN proofs # {} => proofs # <<>>
    OBVIOUS
  <2>. QED
    BY <2>1, BusyWithProofs
<1>4. HatAfter(proof) \in Hats
  BY HatType
<1>5. verifier \in [requests : Seq(Requests), common : BOOLEAN, hat : Hats,
                    next : 1 .. Len(session.asked) + 1]
  BY DEF CredInv, SessionType
<1>6. /\ verifier' \in [requests : Seq(Requests), common : BOOLEAN, hat : Hats,
                        next : 1 .. Len(session.asked) + 1]
      /\ verifier'.requests = verifier.requests /\ verifier'.next = verifier.next
  <2> HIDE DEF proof
  <2>. QED
    BY <1>2, <1>4, <1>5
<1>7. verdict' \in [proof : 0 .. MaxProofs,
                    result : {"none", "error", "rejected", "accepted"}]
  <2>1. proof.id \in 0 .. MaxProofs
    <3>1. proof.id = i /\ Len(proofs) <= MaxProofs /\ proofs \in Seq(Proofs)
      BY DEF CredInv, SessionType, Proofs
    <3>. QED
      BY <3>1, LenProperties, BoundsAreNat
  <2>2. Result(proof) \in {"error", "rejected", "accepted"}
    BY DEF Result
  <2>. QED
    BY <1>2, <2>1, <2>2
<1>8. session' \in [asked : {session.asked}, common : CommonAttrs \cup {""},
                    shown : {session.shown}, holderReg : Nat, verifierReg : Nat]
  BY <1>2, SessionParts
<1>9. UNCHANGED <<ledger, witness>>
  BY Rests
<1>10. VerdictInv'
  <2>1. proof.id = i
    BY DEF CredInv, SessionType
  <2>2. verdict'.proof = i /\ verdict'.result = Result(proof)
    BY <1>2, <2>1
  <2>3. Result(proof) = "accepted" /\ session.verifierReg # NoReg /\ Shows(proofs[i])
          => WitnessTests(witness.omega, ledger[session.verifierReg].accum)
    BY AcceptedShows
  <2>. QED
    BY <1>2, <1>6, <1>9, <2>2, <2>3 DEF CredInv, VerdictInv, Shows
<1>. QED
  BY <1>2, <1>3, <1>6, <1>7, <1>8, <1>10, VerifierKeeps

-----------------------------------------------------------------------------
LEMMA CredNextKeeps == RegistryInv /\ CredInv /\ [CredNext]_vars => CredInv'
<1> SUFFICES ASSUME RegistryInv, CredInv, [CredNext]_vars PROVE CredInv'
  OBVIOUS
<1>1. CASE RegistryMoves \/ HolderReads
  BY <1>1, RegistryStepKeeps
<1>2. CASE Issuance
  BY <1>2, IssuanceKeeps
<1>3. CASE Presentation
  BY <1>3, AskKeeps, BuilderAddCommonKeeps, BuilderAddSubKeeps, BuilderFinalizeKeeps,
     VerifierAddCommonKeeps, VerifierAddSubKeeps, VerifierVerifyKeeps DEF Presentation
<1>4. CASE UNCHANGED vars
  <2>1. /\ UNCHANGED <<registryVars, credVars>>
        /\ UNCHANGED <<session, builder, proofs, verifier, verdict>>
    BY <1>4 DEF vars, sessionVars
  <2>2. /\ UNCHANGED <<status, ledger, witness, lost, values, number, cred>>
        /\ \A list, subs : Genuine(list, subs) => Genuine(list, subs)'
    BY <2>1, Rests
  <2>3. SessionType' /\ SessionInv'
    BY <2>1, <2>2 DEF CredInv, SessionType, SessionInv, Idle
  <2>4. ListsInv' /\ VerdictInv'
    BY <2>1, <2>2 DEF CredInv, ListsInv, VerdictInv, Genuine
  <2>. QED
    BY <2>3, <2>4 DEF CredInv
<1>. QED
  BY <1>1, <1>2, <1>3, <1>4 DEF CredNext

(* The inductive invariant of a session holds for any schema and requests.   *)
THEOREM CredInvHolds == CredSpec => []CredInv
BY CredInitHolds, CredNextKeeps, CredRegistryInv, PTL DEF CredSpec

(* Everything the presentation keeps has its type, and every position its    *)
(* place in what was asked.                                                  *)
THEOREM CredTypesHold == CredSpec => []CredTypeOK
<1>1. RegistryInv /\ CredInv => CredTypeOK
  <2> SUFFICES ASSUME RegistryInv, CredInv PROVE CredTypeOK
    OBVIOUS
  <2>1. SessionType /\ RegistryTypeOK
    BY DEF CredInv, RegistryInv
  <2>2. Len(proofs) \in 0 .. MaxProofs
    <3>1. proofs \in Seq(Proofs) /\ Len(proofs) <= MaxProofs
      BY <2>1 DEF SessionType, Proofs
    <3>. QED
      BY <3>1, LenProperties, BoundsAreNat
  <2>. QED
    BY <2>1, <2>2 DEF SessionType, CredRecords, CredTypeOK
<1>. QED
  BY <1>1, CredInvHolds, CredRegistryInv, PTL

(* An accepted proof with a non-revocation part, against the newest          *)
(* registry, is about a credential that is not revoked, however many         *)
(* credentials, deltas, requests and sub proofs there are.                   *)
THEOREM AcceptedHolds == CredSpec => []AcceptedNotRevoked
<1>1. RegistryInv /\ CredInv => AcceptedNotRevoked
  <2> SUFFICES ASSUME RegistryInv, CredInv,
                      verdict.result = "accepted", Shows(proofs[verdict.proof]),
                      session.verifierReg = Len(ledger), lost = 0
               PROVE  status[Me] = "valid"
    BY DEF AcceptedNotRevoked, Shows
  <2>1. Len(ledger) # NoReg
    BY LedgerType DEF RegistryInv, NoReg
  <2>2. WitnessTests(witness.omega, ledger[Len(ledger)].accum)
    BY <2>1 DEF CredInv, VerdictInv
  <2>3. ~Idle /\ cred.state = "held" /\ status[Me] # "free" /\ witness # NoWitness
    <3>1. ~Idle
      BY DEF CredInv, SessionInv, NoVerdict
    <3>2. verdict.proof \in DOMAIN proofs
      BY DEF CredInv, VerdictInv, NoVerdict
    <3>3. witness # NoWitness
      BY <3>2 DEF CredInv, ListsInv, Genuine, Shows
    <3>. QED
      BY <3>1, <3>3 DEF CredInv, SessionInv
  <2>4. /\ Len(ledger) \in DOMAIN ledger
        /\ Intact(Len(ledger)) /\ Intact(witness.at)
    <3>1. /\ Len(ledger) \in Nat \ {0} /\ DOMAIN ledger = 1 .. Len(ledger)
          /\ witness.at \in Nat /\ witness.at <= Len(ledger)
      BY LedgerType DEF RegistryInv
    <3>2. Intact(Len(ledger))
      BY DEF RegistryInv, LedgerInv
    <3>. QED
      BY <3>1, <3>2, IntactBefore
  <2>5. Me \in Members(Len(ledger))
    BY <2>2, <2>3, <2>4, ShowsFollows DEF WitnessShowsMembership
  <2>6. Members(Len(ledger)) = Believed
    <3>1. ledger[Len(ledger)].accum = Sum(Believed, 0)
      BY <2>4 DEF RegistryInv, LedgerInv, Last
    <3>. QED
      BY <3>1, SumShows, BelievedAreIndices DEF Members
  <2>. QED
    BY <2>3, <2>5, <2>6 DEF Believed
<1>. QED
  BY <1>1, CredInvHolds, CredRegistryInv, PTL

(* A signature that was blinded in place by a failed attempt never becomes a *)
(* credential without going back to the copy the issuer sent.                *)
THEOREM RetryHolds == CredSpec => RetryNeverHelps
<1>1. CredInv /\ [CredNext]_vars =>
        [cred.state = "signed" /\ cred.v > 0 => cred'.state # "held" \/ cred'.v = 0]_vars
  <2> SUFFICES ASSUME CredInv, [CredNext]_vars, cred.state = "signed", cred.v > 0
               PROVE  cred'.state # "held" \/ cred'.v = 0
    OBVIOUS
  <2>1. cred.v \in Nat /\ cred.state = "signed" /\ cred.v > 0
        /\ cred \in CredRecords
    <3>1. cred \in CredRecords
      BY DEF CredInv, SessionType
    <3>2. cred.v \in 0 .. MaxTries
      BY <3>1 DEF CredRecords
    <3>. QED
      BY <3>1, <3>2, BoundsAreNat DEF CredRecords
  <2>2. CASE UNCHANGED cred
    BY <2>1, <2>2
  <2>3. CASE Issuance
    <3>1. CASE BlindCredentialSecrets \/ SignCredential
      BY <2>1, <3>1 DEF BlindCredentialSecrets, SignCredential
    <3>2. CASE ProcessCredentialSignature
      <4>1. PICK request \in 1 .. cred.requests, w \in BOOLEAN,
                 k \in DOMAIN ledger \cup {0} : cred' = Processed(request, w, k)
        BY <3>2 DEF ProcessCredentialSignature
      <4>2. ~CorrectSignature(cred.v + 1, request)
        BY <2>1 DEF CorrectSignature
      <4>3. cred' = [cred EXCEPT !.v = cred.v + 1]
        BY <4>1, <4>2 DEF Processed
      <4>. QED
        BY <2>1, <4>3
    <3>3. CASE Reload
      BY <3>3 DEF Reload
    <3>. QED
      BY <2>3, <3>1, <3>2, <3>3 DEF Issuance
  <2>. QED
    BY <2>2, <2>3 DEF CredNext, RegistryMoves, HolderReads, Presentation, credVars, vars
<1>. QED
  BY <1>1, CredInvHolds, PTL DEF CredSpec, RetryNeverHelps

-----------------------------------------------------------------------------
(* What a proof is made of.  A sub proof answers the request whose number it *)
(* carries, for predicates the prover did not refuse; a request without a    *)
(* sub proof, though the prover found it consistent, left an orphan.         *)
Answers(sub) ==
  /\ sub.number \in 1 .. Len(session.asked)
  /\ sub.request = session.asked[sub.number]
  /\ Consistent(sub.request)
  /\ \A p \in sub.request.predicates : Provable(p, number)
  /\ sub.at = witness.at
  /\ sub.non_revoc <=> sub.number \in session.shown

Orphan(subs, next) ==
  \E n \in 1 .. Len(session.asked) :
    /\ n \in session.shown
    /\ n < next
    /\ Consistent(session.asked[n])
    /\ \A i \in DOMAIN subs : subs[i].number # n

(* One list of items per sub proof and in its place, and those of orphans    *)
(* besides.                                                                  *)
Filed(tau, subs, next) ==
  /\ \A i \in DOMAIN subs : Answers(subs[i]) /\ subs[i].number < next
  /\ \A i, j \in DOMAIN subs : subs[i].number = subs[j].number => i = j
  /\ Len(tau) >= Len(subs)
  /\ Orphan(subs, next) => Len(tau) > Len(subs)
  /\ ~Orphan(subs, next) => /\ Len(tau) = Len(subs)
                            /\ \A i \in DOMAIN subs : tau[i] = Committed(subs[i].number)

(* The m_hat a verifier keeps is that of a proof it has met.                 *)
HatInv ==
  verifier.hat # NoHat =>
    /\ verifier.requests # <<>>
    /\ verifier.next > Len(session.asked)
    /\ \E q \in DOMAIN proofs :
         /\ proofs[q].subs # <<>>
         /\ verifier.hat = Hat(proofs[q], proofs[q].subs[1])

PresentationInv ==
  /\ Filed(builder.tau, builder.subs, builder.next)
  /\ \A q \in DOMAIN proofs :
       /\ proofs[q].id = q
       /\ Filed(proofs[q].tau, proofs[q].subs, Len(session.asked) + 1)
  /\ session.shown # {} => session.holderReg \in DOMAIN ledger
  /\ HatInv

(* The sub proofs of a proof are sub proofs of this session.                 *)
LEMMA ProofParts ==
  ASSUME CredInv, NEW q \in DOMAIN proofs
  PROVE  /\ proofs[q] \in Proofs
         /\ proofs[q].tau \in Seq(Commitments) /\ proofs[q].subs \in Seq(SubProofs)
         /\ Len(proofs[q].subs) \in Nat /\ DOMAIN proofs[q].subs = 1 .. Len(proofs[q].subs)
         /\ Len(proofs[q].tau) \in Nat /\ DOMAIN proofs[q].tau = 1 .. Len(proofs[q].tau)
         /\ proofs[q].subs = <<>> <=> Len(proofs[q].subs) = 0
         /\ \A i \in DOMAIN proofs[q].subs : proofs[q].subs[i] \in SubProofs
<1>1. proofs[q] \in Proofs
  <2>1. proofs \in Seq(Proofs)
    BY DEF CredInv, SessionType, Proofs
  <2>. QED
    BY <2>1, LenProperties, ElementOfSeq
<1>2. proofs[q].tau \in Seq(Commitments) /\ proofs[q].subs \in Seq(SubProofs)
  BY <1>1 DEF Proofs
<1>3. PICK tau \in Seq(Commitments) : tau = proofs[q].tau
  BY <1>2
<1>4. PICK subs \in Seq(SubProofs) : subs = proofs[q].subs
  BY <1>2
<1>5. Len(tau) \in Nat /\ DOMAIN tau = 1 .. Len(tau)
  BY LenProperties
<1>6. /\ Len(subs) \in Nat /\ DOMAIN subs = 1 .. Len(subs)
      /\ subs = <<>> <=> Len(subs) = 0
      /\ \A i \in DOMAIN subs : subs[i] \in SubProofs
  BY LenProperties, EmptySeq, ElementOfSeq
<1>. QED
  BY <1>1, <1>2, <1>3, <1>4, <1>5, <1>6

LEMMA SameLength == ASSUME NEW a \in Nat, NEW b \in Nat, 1 .. a = 1 .. b PROVE a = b
<1>1. b > a => b \in 1 .. b /\ b \notin 1 .. a
  OBVIOUS
<1>2. a > b => a \in 1 .. a /\ a \notin 1 .. b
  OBVIOUS
<1>. QED
  BY <1>1, <1>2

(* The list of one call is recomputed exactly if its parts verify.           *)
Verified(sub) ==
  /\ PrimaryVerifies(sub)
  /\ sub.non_revoc => session.verifierReg # NoReg /\ NonRevocVerifies(sub)

LEMMA RecomputedExactly ==
  ASSUME NEW sub, sub.number \in Nat, sub.non_revoc <=> sub.number \in session.shown
  PROVE  Recomputed(sub) = Committed(sub.number) <=> Verified(sub)
<1> DEFINE first == NonRevocItem(sub.number)
           second == PrimaryItem(sub.number)
           non_revoc == IF NonRevocVerifies(sub) THEN first ELSE Bad
           primary == IF PrimaryVerifies(sub) THEN second ELSE Bad
<1>1. first # Bad /\ second # Bad
  BY ItemsAreItems
<1>2. Recomputed(sub) = IF Rechecked(sub) THEN <<non_revoc, primary>> ELSE <<primary>>
  BY DEF Recomputed
<1>3. Committed(sub.number) = IF sub.non_revoc THEN <<first, second>> ELSE <<second>>
  BY DEF Committed
<1> HIDE DEF first, second
<1>4. /\ non_revoc = first <=> NonRevocVerifies(sub)
      /\ primary = second <=> PrimaryVerifies(sub)
  BY <1>1
<1> HIDE DEF non_revoc, primary
<1>5. /\ \A a, b, c, d : <<a, b>> = <<c, d>> <=> a = c /\ b = d
      /\ \A a, b : <<a>> = <<b>> <=> a = b
      /\ \A a, b, c : <<a, b>> # <<c>> /\ <<c>> # <<a, b>>
  OBVIOUS
<1>6. CASE Rechecked(sub)
  BY <1>2, <1>3, <1>4, <1>5, <1>6 DEF Rechecked, Verified
<1>7. CASE ~Rechecked(sub) /\ sub.non_revoc
  BY <1>2, <1>3, <1>5, <1>7 DEF Rechecked, Verified
<1>8. CASE ~sub.non_revoc
  BY <1>2, <1>3, <1>4, <1>5, <1>8 DEF Rechecked, Verified
<1>. QED
  BY <1>6, <1>7, <1>8

(* The list the verifier computes is the one the prover hashed exactly if    *)
(* there is no orphan and every sub proof verifies.                          *)
LEMMA ListsAgree ==
  ASSUME CredInv, PresentationInv, NEW q \in DOMAIN proofs
  PROVE  TauList(proofs[q]) = proofs[q].tau
           <=> /\ ~Orphan(proofs[q].subs, Len(session.asked) + 1)
               /\ \A i \in DOMAIN proofs[q].subs : Verified(proofs[q].subs[i])
<1> DEFINE proof == proofs[q]
           tau == proof.tau
           subs == proof.subs
           next == Len(session.asked) + 1
<1>1. /\ Len(subs) \in Nat /\ DOMAIN subs = 1 .. Len(subs)
      /\ Len(tau) \in Nat /\ DOMAIN tau = 1 .. Len(tau)
      /\ \A i \in DOMAIN subs : subs[i] \in SubProofs
      /\ tau \in Seq(Commitments)
  BY ProofParts
<1>2. Filed(tau, subs, next)
  BY DEF PresentationInv
<1>3. TauList(proof) = [i \in DOMAIN subs |-> Recomputed(subs[i])]
  BY DEF TauList
<1> HIDE DEF proof, tau, subs, next
<1>4. \A i \in DOMAIN subs :
        Recomputed(subs[i]) = Committed(subs[i].number) <=> Verified(subs[i])
  <2> TAKE i \in DOMAIN subs
  <2>1. subs[i].number \in Nat
    BY <1>1 DEF SubProofs
  <2>2. subs[i].non_revoc <=> subs[i].number \in session.shown
    BY <1>2 DEF Filed, Answers
  <2>. QED
    BY <2>1, <2>2, RecomputedExactly
<1>5. ASSUME TauList(proof) = tau PROVE Len(tau) = Len(subs)
  <2>1. 1 .. Len(tau) = 1 .. Len(subs)
    BY <1>1, <1>3, <1>5
  <2>. QED
    BY <1>1, <2>1, SameLength
<1>6. Orphan(subs, next) => Len(tau) # Len(subs)
  <2>1. Orphan(subs, next) => Len(tau) > Len(subs)
    BY <1>2 DEF Filed
  <2>2. \A a, b \in Nat : a > b => a # b
    OBVIOUS
  <2>. QED
    BY <1>1, <2>1, <2>2
<1>7. ASSUME ~Orphan(subs, next)
      PROVE  TauList(proof) = tau <=> \A i \in DOMAIN subs : Verified(subs[i])
  <2>1. /\ Len(tau) = Len(subs)
        /\ \A i \in DOMAIN subs : tau[i] = Committed(subs[i].number)
    BY <1>2, <1>7 DEF Filed
  <2>2. tau = [i \in DOMAIN subs |-> tau[i]]
    BY <1>1, <2>1
  <2>3. TauList(proof) = tau <=> \A i \in DOMAIN subs : Recomputed(subs[i]) = tau[i]
    BY <1>3, <2>2
  <2>. QED
    BY <1>4, <2>1, <2>3
<1>. QED
  BY <1>5, <1>6, <1>7 DEF proof, tau, subs, next

(* The verdict of a sub proof, for whatever registries both sides looked at. *)
LEMMA SubVerifies ==
  ASSUME RegistryInv, CredInv, PresentationInv, Intact(Len(ledger)),
         verifier.requests # <<>>, NEW q \in DOMAIN proofs,
         NEW i \in DOMAIN proofs[q].subs
  PROVE  /\ Verified(proofs[q].subs[i]) => Truthful(proofs[q].subs[i])
         /\ FourSquaresFound => (Truthful(proofs[q].subs[i]) => Verified(proofs[q].subs[i]))
<1> DEFINE sub == proofs[q].subs[i]
           h == session.holderReg
           k == session.verifierReg
<1>1. /\ Answers(sub) /\ sub.omega = witness.omega
      /\ sub.non_revoc => witness # NoWitness
  BY DEF PresentationInv, Filed, CredInv, ListsInv, Genuine
<1> HIDE DEF sub
<1>2. sub.non_revoc => h \in DOMAIN ledger
  BY <1>1 DEF Answers, PresentationInv
<1>3. k \in DOMAIN ledger \cup {NoReg}
  BY DEF CredInv, VerdictInv
<1>4. \A n \in DOMAIN ledger : Intact(n) /\ ledger[n].accum = Sum(Members(n), 0)
  <2>1. \A n \in DOMAIN ledger : Intact(n)
    BY LedgerType, IntactBefore DEF RegistryInv
  <2>. QED
    BY <2>1 DEF RegistryInv, LedgerInv
<1>5. ASSUME sub.non_revoc, k # NoReg PROVE SameAccumulator <=> Members(h) = Members(k)
  <2>1. ledger[h].accum = Sum(Members(h), 0) /\ ledger[k].accum = Sum(Members(k), 0)
    BY <1>2, <1>3, <1>4, <1>5
  <2>. QED
    BY <2>1, SumInjective, MembersAreIndices DEF SameAccumulator
<1>6. ASSUME sub.non_revoc, k # NoReg
      PROVE  WitnessTests(sub.omega, ledger[k].accum)
               <=> Me \in Members(k) /\ Members(sub.at) \ {Me} = Members(k) \ {Me}
  <2>1. Intact(witness.at)
    BY LedgerType, IntactBefore DEF RegistryInv
  <2>. QED
    BY <1>1, <1>3, <1>4, <1>6, <2>1, ShowsFollows DEF WitnessShowsMembership, Answers
<1>7. (sub.non_revoc => k # NoReg /\ NonRevocVerifies(sub))
        <=> (sub.non_revoc => InRegistry(sub))
  BY <1>5, <1>6 DEF NonRevocVerifies, CorrectWitness, InRegistry
<1> DEFINE asked(p) == \/ Satisfied(p, number) /\ Representable(p, number)
                       \/ OffTheEnd(p, number)
<1>8. \A p \in sub.request.predicates :
        /\ Verifies(p, number) => asked(p)
        /\ FourSquaresFound => (asked(p) => Verifies(p, number))
  <2> TAKE p \in sub.request.predicates
  <2>1. number \in i32
    BY AttrsAssumption DEF CredInv, SessionType
  <2>2. sub.request \in Requests
    BY <1>1, AskedType DEF Answers, CredInv
  <2>3. p.p_type \in PredicateType /\ p.value \in i32
    BY <2>2, AttrsAssumption
  <2>4. Provable(p, number)
    BY <1>1 DEF Answers
  <2>. QED
    BY <2>1, <2>3, <2>4, VerifiesExactly
<1>. QED
  BY <1>7, <1>8 DEF sub, Verified, PrimaryVerifies, Truthful

-----------------------------------------------------------------------------
(* The common attribute.                                                     *)

(* What m_hat was made from.                                                 *)
Source(sub) == IF sub.common > 0 THEN <<"common", sub.common>> ELSE <<"own", sub.number>>
Hidden(sub) == session.common \in Key \ sub.request.revealed

LEMMA HatShows ==
  ASSUME NEW proof, NEW sub
  PROVE  /\ Hat(proof, sub) # NoHat <=> Hidden(sub)
         /\ Hidden(sub) => /\ Hat(proof, sub) = <<proof.id, Source(sub)>>
                           /\ Hat(proof, sub)[1] = proof.id
                           /\ Hat(proof, sub)[2] = Source(sub)
<1>1. \A x, y : <<x, y>> # <<>> /\ <<x, y>>[1] = x /\ <<x, y>>[2] = y
  OBVIOUS
<1>. QED
  BY <1>1 DEF Hat, Hidden, Source, NoHat

LEMMA SourcesDiffer ==
  ASSUME NEW sub \in SubProofs, NEW other \in SubProofs, sub.number # other.number
  PROVE  Source(sub) = Source(other) <=> sub.common = other.common /\ sub.common > 0
<1>1. \A x, y, u, v : <<x, y>> = <<u, v>> <=> x = u /\ y = v
  OBVIOUS
<1>2. sub.common \in Nat /\ other.common \in Nat
  BY BoundsAreNat DEF SubProofs
<1>. QED
  BY <1>1, <1>2 DEF Source

(* The sub proofs of one proof have one m_hat exactly when they show one     *)
(* hidden value.                                                             *)
LEMMA OneHat ==
  ASSUME CredInv, PresentationInv, NEW q \in DOMAIN proofs, proofs[q].subs # <<>>
  PROVE  (\A i \in DOMAIN proofs[q].subs :
            /\ Hat(proofs[q], proofs[q].subs[i]) # NoHat
            /\ Hat(proofs[q], proofs[q].subs[i]) = Hat(proofs[q], proofs[q].subs[1]))
         <=> \A i \in DOMAIN proofs[q].subs :
               /\ Hidden(proofs[q].subs[i])
               /\ \A j \in DOMAIN proofs[q].subs :
                    i # j => /\ proofs[q].subs[i].common = proofs[q].subs[j].common
                             /\ proofs[q].subs[i].common > 0
<1> DEFINE proof == proofs[q]
           subs == proof.subs
<1>1. /\ 1 \in DOMAIN subs
      /\ \A i \in DOMAIN subs : subs[i] \in SubProofs
      /\ \A i, j \in DOMAIN subs : subs[i].number = subs[j].number => i = j
  <2>1. Filed(proof.tau, subs, Len(session.asked) + 1)
    BY DEF PresentationInv
  <2>2. /\ Len(subs) \in Nat \ {0} /\ DOMAIN subs = 1 .. Len(subs)
        /\ \A i \in DOMAIN subs : subs[i] \in SubProofs
    BY ProofParts
  <2> HIDE DEF proof, subs
  <2>. QED
    BY <2>1, <2>2 DEF Filed
<1> HIDE DEF proof, subs
<1>2. \A i, j \in DOMAIN subs :
        i # j => (Source(subs[i]) = Source(subs[j])
                    <=> subs[i].common = subs[j].common /\ subs[i].common > 0)
  BY <1>1, SourcesDiffer
<1>3. ASSUME \A i \in DOMAIN subs : Hidden(subs[i])
      PROVE  /\ \A i \in DOMAIN subs : Hat(proof, subs[i]) # NoHat
             /\ \A i, j \in DOMAIN subs :
                  Hat(proof, subs[i]) = Hat(proof, subs[j]) <=> Source(subs[i]) = Source(subs[j])
  BY <1>3, HatShows
<1>4. (\A i \in DOMAIN subs : /\ Hat(proof, subs[i]) # NoHat
                              /\ Hat(proof, subs[i]) = Hat(proof, subs[1]))
      <=> \A i \in DOMAIN subs :
            /\ Hidden(subs[i])
            /\ \A j \in DOMAIN subs : i # j => Source(subs[i]) = Source(subs[j])
  <2>1. (\A i \in DOMAIN subs : Hat(proof, subs[i]) # NoHat)
          <=> \A i \in DOMAIN subs : Hidden(subs[i])
    BY HatShows
  <2>. QED
    BY <1>1, <1>3, <2>1
<1>. QED
  BY <1>2, <1>4 DEF proof, subs

LEMMA HatsAgree ==
  ASSUME CredInv, PresentationInv, NEW q \in DOMAIN proofs, Corresponds(proofs[q])
  PROVE  CommonAgree(proofs[q]) <=> CommonShown(proofs[q])
<1> DEFINE proof == proofs[q]
           subs == proof.subs
<1>1. proof.id = q
  BY DEF PresentationInv
<1>2. CommonShown(proof) <=>
        (verifier.common =>
           /\ \A i \in DOMAIN subs :
                /\ Hidden(subs[i])
                /\ \A j \in DOMAIN subs :
                     i # j => subs[i].common = subs[j].common /\ subs[i].common > 0
           /\ verifier.hat # NoHat => verifier.hat[1] = proof.id)
  BY DEF CommonShown, Hidden
<1>3. CASE subs = <<>>
  <2>1. DOMAIN subs = {}
    BY <1>3
  <2>2. verifier.requests = <<>>
    <3>1. verifier.requests \in Seq(Requests)
      BY DEF CredInv, SessionType
    <3>2. Len(verifier.requests) = 0
      BY <1>3, ProofParts DEF Corresponds
    <3>. QED
      BY <3>1, <3>2, EmptySeq
  <2>3. verifier.hat = NoHat
    BY <2>2 DEF PresentationInv, HatInv
  <2>. QED
    BY <1>2, <2>1, <2>3 DEF CommonAgree
<1>4. CASE subs # <<>>
  <2> DEFINE first == Hat(proof, subs[1])
             shown == \A i \in DOMAIN subs :
                        /\ Hidden(subs[i])
                        /\ \A j \in DOMAIN subs :
                             i # j => subs[i].common = subs[j].common /\ subs[i].common > 0
  <2>1. (\A i \in DOMAIN subs : Hat(proof, subs[i]) # NoHat /\ Hat(proof, subs[i]) = first)
          <=> shown
    BY <1>4, OneHat
  <2>2. 1 \in DOMAIN subs
    BY <1>4, ProofParts
  <2>3. verifier.common =>
          HatAfter(proof) = IF verifier.hat = NoHat THEN first ELSE verifier.hat
    BY <1>4 DEF HatAfter
  <2>4. CASE verifier.hat = NoHat
    BY <1>2, <2>1, <2>3, <2>4 DEF CommonAgree
  <2>5. CASE verifier.hat # NoHat
    <3>1. PICK r \in DOMAIN proofs : verifier.hat = Hat(proofs[r], proofs[r].subs[1])
      BY <2>5 DEF PresentationInv, HatInv
    <3>2. verifier.hat[1] = r
      BY <2>5, <3>1, HatShows DEF PresentationInv
    <3>3. first # NoHat => first[1] = q
      BY <1>1, HatShows
    <3>4. verifier.common =>
            (CommonAgree(proof) <=> \A i \in DOMAIN subs : /\ Hat(proof, subs[i]) # NoHat
                                                          /\ Hat(proof, subs[i]) = verifier.hat)
      BY <2>3, <2>5 DEF CommonAgree
    <3>5. q = r => first = verifier.hat
      BY <3>1
    <3> HIDE DEF subs, shown, first
    <3>6. (\A i \in DOMAIN subs : Hat(proof, subs[i]) # NoHat /\ Hat(proof, subs[i]) = verifier.hat)
            <=> shown /\ verifier.hat[1] = q
      <4>1. ASSUME \A i \in DOMAIN subs : /\ Hat(proof, subs[i]) # NoHat
                                          /\ Hat(proof, subs[i]) = verifier.hat
            PROVE  shown /\ verifier.hat[1] = q
        <5>1. first # NoHat /\ first = verifier.hat
          BY <2>2, <4>1 DEF first
        <5>. QED
          BY <2>1, <3>3, <4>1, <5>1
      <4>2. ASSUME shown, verifier.hat[1] = q
            PROVE  \A i \in DOMAIN subs : /\ Hat(proof, subs[i]) # NoHat
                                          /\ Hat(proof, subs[i]) = verifier.hat
        BY <2>1, <3>2, <3>5, <4>2
      <4>. QED
        BY <4>1, <4>2
    <3>. QED
      BY <1>1, <1>2, <2>5, <3>4, <3>6 DEF shown, CommonAgree
  <2>. QED
    BY <2>4, <2>5
<1>. QED
  BY <1>3, <1>4

(* What verify makes of a proof: it accepts only proofs that are in order,   *)
(* and all of those as far as the prover found four squares.                 *)
LEMMA VerdictFollows ==
  ASSUME RegistryInv, CredInv, PresentationInv, Intact(Len(ledger)),
         NEW q \in DOMAIN proofs
  PROVE  /\ Result(proofs[q]) = "accepted" => InOrder(proofs[q])
         /\ FourSquaresFound /\ InOrder(proofs[q]) => Result(proofs[q]) = "accepted"
<1> DEFINE proof == proofs[q]
           verified == \A j \in DOMAIN proof.subs : Verified(proof.subs[j])
           truthful == \A j \in DOMAIN proof.subs : Truthful(proof.subs[j])
<1>1. Result(proof) = "accepted"
        <=> Corresponds(proof) /\ CommonAgree(proof) /\ TauList(proof) = proof.tau
  BY DEF Result
<1>2. Corresponds(proof) => (CommonAgree(proof) <=> CommonShown(proof))
  BY HatsAgree
<1>3. Orphan(proof.subs, Len(session.asked) + 1) <=> ~NoOrphans(proof)
  <2>1. session.shown \subseteq 1 .. Len(session.asked) /\ Len(session.asked) \in Nat
    BY AskedType DEF CredInv, SessionType
  <2>2. \A n \in 1 .. Len(session.asked) : n < Len(session.asked) + 1
    BY <2>1
  <2> HIDE DEF proof
  <2>. QED
    BY <2>1, <2>2 DEF Orphan, NoOrphans
<1>4. Corresponds(proof) /\ proof.subs # <<>> => verifier.requests # <<>>
  <2>1. proof.subs # <<>> => Len(proof.subs) # 0
    BY ProofParts
  <2>2. verifier.requests = <<>> => Len(verifier.requests) = 0
    OBVIOUS
  <2>. QED
    BY <2>1, <2>2 DEF Corresponds
<1>5. ASSUME Corresponds(proof)
      PROVE  /\ verified => truthful
             /\ FourSquaresFound /\ truthful => verified
  <2>1. CASE proof.subs = <<>>
    BY <2>1
  <2>2. CASE proof.subs # <<>>
    <3>1. \A j \in DOMAIN proof.subs :
            /\ Verified(proof.subs[j]) => Truthful(proof.subs[j])
            /\ FourSquaresFound => (Truthful(proof.subs[j]) => Verified(proof.subs[j]))
      BY <1>4, <1>5, <2>2, SubVerifies
    <3> HIDE DEF proof
    <3>. QED
      BY <3>1
  <2>. QED
    BY <2>1, <2>2
<1>6. TauList(proof) = proof.tau
        <=> ~Orphan(proof.subs, Len(session.asked) + 1) /\ verified
  BY ListsAgree
<1>7. InOrder(proof) <=> /\ Corresponds(proof) /\ NoOrphans(proof)
                         /\ truthful /\ CommonShown(proof)
  BY DEF InOrder
<1> HIDE DEF proof, verified, truthful
<1>8. /\ Result(proof) = "accepted" => InOrder(proof)
      /\ FourSquaresFound /\ InOrder(proof) => Result(proof) = "accepted"
  BY <1>1, <1>2, <1>3, <1>5, <1>6, <1>7
<1>. QED
  BY <1>8 DEF proof

-----------------------------------------------------------------------------
(* The lists stay as they were filed.                                        *)

LEMMA FiledNothing == Filed(<<>>, <<>>, 1) /\ Filed(<<>>, <<>>, 1)'
<1>1. DOMAIN <<>> = {} /\ Len(<<>>) = 0
  OBVIOUS
<1>2. ~Orphan(<<>>, 1) /\ ~Orphan(<<>>, 1)'
  BY DEF Orphan
<1>. QED
  BY <1>1, <1>2 DEF Filed

LEMMA FiledRests ==
  ASSUME UNCHANGED <<registryVars, credVars>>,
         session'.asked = session.asked, session'.shown = session.shown,
         Filed(builder'.tau, builder'.subs, builder'.next),
         \A q \in DOMAIN proofs' :
           Filed(proofs'[q].tau, proofs'[q].subs, Len(session.asked) + 1)
  PROVE  /\ Filed(builder.tau, builder.subs, builder.next)'
         /\ \A q \in DOMAIN proofs' :
              Filed(proofs[q].tau, proofs[q].subs, Len(session.asked) + 1)'
<1>1. UNCHANGED <<witness, values, number>>
  BY Rests
<1>2. Filed(builder.tau, builder.subs, builder.next)'
  BY <1>1 DEF Filed, Orphan, Answers, Consistent, Committed
<1>3. ASSUME NEW q \in DOMAIN proofs'
      PROVE  Filed(proofs[q].tau, proofs[q].subs, Len(session.asked) + 1)'
  <2> DEFINE tau == proofs[q].tau
             subs == proofs[q].subs
             next == Len(session.asked) + 1
  <2>1. Filed(tau', subs', next)
    BY <1>3
  <2>2. next' = next
    OBVIOUS
  <2>3. \A i \in DOMAIN subs' : Answers(subs[i])' /\ subs'[i].number < next'
    BY <1>1, <2>1, <2>2 DEF Filed, Answers, Consistent
  <2>4. Orphan(subs, next)' <=> Orphan(subs', next)
    BY <1>1, <2>2 DEF Orphan, Consistent
  <2>5. ~Orphan(subs', next) =>
          \A i \in DOMAIN subs' : tau'[i] = Committed(subs[i].number)'
    BY <2>1 DEF Filed, Committed
  <2>. QED
    BY <2>1, <2>2, <2>3, <2>4, <2>5 DEF Filed
<1>. QED
  BY <1>2, <1>3

LEMMA PresentationInitHolds == CredInit => PresentationInv
<1> SUFFICES ASSUME CredInit PROVE PresentationInv
  OBVIOUS
<1>1. /\ builder = NewProofBuilder /\ proofs = <<>> /\ verifier = NewProofVerifier
      /\ session = NoSession
  BY DEF CredInit
<1>2. /\ builder.tau = <<>> /\ builder.subs = <<>> /\ builder.next = 1
      /\ verifier.hat = NoHat /\ session.shown = {}
  BY <1>1 DEF NewProofBuilder, NewProofVerifier, NoSession
<1>3. Filed(builder.tau, builder.subs, builder.next)
  BY <1>2, FiledNothing
<1>. QED
  BY <1>1, <1>2, <1>3 DEF PresentationInv, HatInv

(* Before a session and at its beginning there is nothing to file.           *)
LEMMA NothingFiled ==
  ASSUME CredInv, Idle, UNCHANGED <<builder, proofs, verifier>>,
         session'.shown # {} => session'.holderReg \in DOMAIN ledger'
  PROVE  PresentationInv'
<1>1. builder' = NewProofBuilder /\ proofs' = <<>> /\ verifier' = NewProofVerifier
  BY DEF CredInv, SessionInv
<1>. QED
  BY <1>1, FiledNothing DEF PresentationInv, HatInv, NewProofBuilder, NewProofVerifier

LEMMA IdleKeepsFiled ==
  ASSUME CredInv, RegistryMoves \/ HolderReads \/ Issuance PROVE PresentationInv'
<1>1. Idle /\ UNCHANGED <<session, builder, proofs, verifier>>
  BY DEF RegistryMoves, HolderReads, Issuance, sessionVars
<1>2. session.shown = {}
  <2>1. session.shown \subseteq 1 .. Len(session.asked) /\ Len(session.asked) = 0
    BY <1>1, AskedType DEF CredInv, SessionType
  <2>. QED
    BY <2>1
<1>. QED
  BY <1>1, <1>2, NothingFiled

LEMMA AskKeepsFiled ==
  ASSUME CredInv, Ask, UNCHANGED <<registryVars, credVars>> PROVE PresentationInv'
<1>1. /\ Idle /\ UNCHANGED <<builder, proofs, verifier>>
      /\ session'.shown # {} => session'.holderReg \in DOMAIN ledger
  BY DEF Ask
<1>2. ledger' = ledger
  BY Rests
<1>. QED
  BY <1>1, <1>2, NothingFiled

(* A step of the prover leaves what it proved before.                        *)
LEMMA BuilderKeepsFiled ==
  ASSUME PresentationInv, UNCHANGED <<registryVars, credVars>>,
         UNCHANGED <<session, proofs, verifier>>,
         Filed(builder'.tau, builder'.subs, builder'.next)
  PROVE  PresentationInv'
<1>1. ledger' = ledger
  BY Rests
<1>2. \A q \in DOMAIN proofs' :
        /\ proofs'[q].id = q
        /\ Filed(proofs'[q].tau, proofs'[q].subs, Len(session.asked) + 1)
  BY DEF PresentationInv
<1>3. /\ Filed(builder.tau, builder.subs, builder.next)'
      /\ \A q \in DOMAIN proofs' :
           Filed(proofs[q].tau, proofs[q].subs, Len(session.asked) + 1)'
  BY <1>2, FiledRests DEF PresentationInv
<1>4. HatInv'
  BY DEF PresentationInv, HatInv, Hat
<1>. QED
  BY <1>1, <1>2, <1>3, <1>4 DEF PresentationInv, Idle

(* A step of the verifier leaves all lists alone.                            *)
LEMMA VerifierKeepsFiled ==
  ASSUME PresentationInv, UNCHANGED <<registryVars, credVars>>,
         UNCHANGED <<builder, proofs>>,
         session'.asked = session.asked, session'.shown = session.shown,
         session'.holderReg = session.holderReg,
         HatInv'
  PROVE  PresentationInv'
<1>1. ledger' = ledger
  BY Rests
<1>2. \A q \in DOMAIN proofs' :
        /\ proofs'[q].id = q
        /\ Filed(proofs'[q].tau, proofs'[q].subs, Len(session.asked) + 1)
  BY DEF PresentationInv
<1>3. /\ Filed(builder.tau, builder.subs, builder.next)'
      /\ \A q \in DOMAIN proofs' :
           Filed(proofs[q].tau, proofs[q].subs, Len(session.asked) + 1)'
  BY <1>2, FiledRests DEF PresentationInv
<1>. QED
  BY <1>1, <1>2, <1>3 DEF PresentationInv, Idle

LEMMA VerifierAddCommonKeepsFiled ==
  ASSUME PresentationInv, VerifierAddCommonAttribute, UNCHANGED <<registryVars, credVars>>,
         CredInv
  PROVE  PresentationInv'
<1>1. UNCHANGED <<session, builder, proofs>>
  BY DEF VerifierAddCommonAttribute
<1>2. verifier'.hat = NoHat
  BY DEF VerifierAddCommonAttribute, CredInv, SessionType
<1>3. HatInv'
  BY <1>2 DEF HatInv
<1>. QED
  BY <1>1, <1>3, VerifierKeepsFiled

LEMMA VerifierAddSubKeepsFiled ==
  ASSUME PresentationInv, VerifierAddSubProofRequest, UNCHANGED <<registryVars, credVars>>,
         CredInv
  PROVE  PresentationInv'
<1>1. /\ UNCHANGED <<builder, proofs>> /\ verifier.next <= Len(session.asked)
      /\ session'.asked = session.asked /\ session'.shown = session.shown
      /\ session'.holderReg = session.holderReg
  BY DEF VerifierAddSubProofRequest, CredInv, SessionType
<1>2. verifier'.hat = verifier.hat
  BY DEF VerifierAddSubProofRequest, CredInv, SessionType
<1>3. verifier.hat = NoHat
  <2>1. verifier.next \in 1 .. Len(session.asked) + 1 /\ Len(session.asked) \in Nat
    <3>1. SessionType /\ verifier.next \in 1 .. Len(session.asked) + 1
      BY DEF CredInv, SessionType
    <3>. QED
      BY <3>1, AskedType
  <2>. QED
    BY <1>1, <2>1 DEF PresentationInv, HatInv
<1>. QED
  BY <1>1, <1>2, <1>3, VerifierKeepsFiled DEF HatInv

LEMMA VerifierVerifyKeepsFiled ==
  ASSUME PresentationInv, VerifierVerify, UNCHANGED <<registryVars, credVars>>, CredInv
  PROVE  PresentationInv'
<1>1. PICK q \in DOMAIN proofs : Verify(proofs[q])
  BY DEF VerifierVerify
<1>2. /\ verifier.next > Len(session.asked)
      /\ UNCHANGED <<session, builder, proofs>>
      /\ verifier' = IF Corresponds(proofs[q])
                     THEN [verifier EXCEPT !.hat = HatAfter(proofs[q])] ELSE verifier
  BY <1>1 DEF Verify
<1>3. /\ verifier'.requests = verifier.requests /\ verifier'.next = verifier.next
      /\ \/ verifier'.hat = verifier.hat
         \/ /\ Corresponds(proofs[q]) /\ proofs[q].subs # <<>>
            /\ verifier'.hat = Hat(proofs[q], proofs[q].subs[1])
  <2>1. verifier \in [requests : Seq(Requests), common : BOOLEAN, hat : Hats,
                      next : 1 .. Len(session.asked) + 1]
    BY DEF CredInv, SessionType
  <2>2. HatAfter(proofs[q]) # verifier.hat =>
          proofs[q].subs # <<>> /\ HatAfter(proofs[q]) = Hat(proofs[q], proofs[q].subs[1])
    BY DEF HatAfter
  <2>. QED
    BY <1>2, <2>1, <2>2
<1>4. Corresponds(proofs[q]) /\ proofs[q].subs # <<>> => verifier.requests # <<>>
  <2>1. proofs[q].subs # <<>> => Len(proofs[q].subs) # 0
    BY ProofParts
  <2>2. verifier.requests = <<>> => Len(verifier.requests) = 0
    OBVIOUS
  <2>. QED
    BY <2>1, <2>2 DEF Corresponds
<1>5. HatInv'
  BY <1>2, <1>3, <1>4 DEF PresentationInv, HatInv, Hat
<1>. QED
  BY <1>2, <1>5, VerifierKeepsFiled

LEMMA BuilderAddCommonKeepsFiled ==
  ASSUME CredInv, PresentationInv, BuilderAddCommonAttribute,
         UNCHANGED <<registryVars, credVars>>
  PROVE  PresentationInv'
<1>1. UNCHANGED <<session, proofs, verifier>>
  BY DEF BuilderAddCommonAttribute
<1>2. builder'.tau = builder.tau /\ builder'.subs = builder.subs /\ builder'.next = builder.next
  BY DEF BuilderAddCommonAttribute, CredInv, SessionType
<1>3. Filed(builder'.tau, builder'.subs, builder'.next)
  BY <1>2 DEF PresentationInv
<1>. QED
  BY <1>1, <1>3, BuilderKeepsFiled

(* The three ways a request goes: refused without a trace, refused after its *)
(* non-revocation items, or answered.                                        *)
LEMMA FiledRefused ==
  ASSUME NEW tau, NEW subs, NEW n \in 1 .. Len(session.asked), Filed(tau, subs, n),
         Len(session.asked) \in Nat,
         Consistent(session.asked[n]) => n \notin session.shown
  PROVE  Filed(tau, subs, n + 1)
<1>1. \A m \in 1 .. Len(session.asked) : m < n + 1 <=> m < n \/ m = n
  OBVIOUS
<1>2. Orphan(subs, n + 1) <=> Orphan(subs, n)
  BY <1>1 DEF Orphan
<1>3. \A i \in DOMAIN subs : Answers(subs[i]) /\ subs[i].number < n + 1
  BY <1>1 DEF Filed, Answers
<1>. QED
  BY <1>2, <1>3 DEF Filed

LEMMA FiledOrphaned ==
  ASSUME NEW tau \in Seq(Commitments), NEW subs \in Seq(SubProofs),
         NEW n \in 1 .. Len(session.asked), Filed(tau, subs, n),
         Len(session.asked) \in Nat, n \in session.shown,
         Consistent(session.asked[n]), NEW items \in Commitments
  PROVE  Filed(Append(tau, items), subs, n + 1)
<1>1. \A i \in DOMAIN subs :
        Answers(subs[i]) /\ subs[i].number < n + 1 /\ subs[i].number # n
  <2> TAKE i \in DOMAIN subs
  <2>1. subs[i].number < n /\ Answers(subs[i]) /\ subs[i].number \in 1 .. Len(session.asked)
    BY DEF Filed, Answers
  <2>. QED
    BY <2>1
<1>2. Orphan(subs, n + 1)
  <2>1. n < n + 1
    OBVIOUS
  <2>. QED
    BY <1>1, <2>1 DEF Orphan
<1>3. Len(Append(tau, items)) > Len(subs) /\ Len(Append(tau, items)) >= Len(subs)
  <2>1. Len(Append(tau, items)) = Len(tau) + 1
    BY AppendProperties
  <2>2. Len(tau) \in Nat /\ Len(subs) \in Nat /\ Len(tau) >= Len(subs)
    BY LenProperties DEF Filed
  <2>. QED
    BY <2>1, <2>2
<1>. QED
  BY <1>1, <1>2, <1>3 DEF Filed

LEMMA FiledShown ==
  ASSUME NEW tau \in Seq(Commitments), NEW subs \in Seq(SubProofs),
         NEW n \in 1 .. Len(session.asked), Filed(tau, subs, n),
         Len(session.asked) \in Nat,
         NEW sub \in SubProofs, Answers(sub), sub.number = n
  PROVE  Filed(Append(tau, Committed(n)), Append(subs, sub), n + 1)
<1> DEFINE items == Committed(n)
           tau2 == Append(tau, items)
           subs2 == Append(subs, sub)
<1>1. items \in Commitments
  <2>1. n \in Nat
    OBVIOUS
  <2>. QED
    BY <2>1, CommittedIsClean
<1> HIDE DEF items
<1>2. /\ Len(tau) \in Nat /\ Len(tau2) = Len(tau) + 1
      /\ \A i \in 1 .. Len(tau) : tau2[i] = tau[i]
      /\ tau2[Len(tau) + 1] = items
  BY <1>1, AppendProperties, LenProperties
<1>3. /\ Len(subs) \in Nat /\ DOMAIN subs = 1 .. Len(subs)
      /\ Len(subs2) = Len(subs) + 1 /\ DOMAIN subs2 = 1 .. Len(subs) + 1
      /\ \A i \in 1 .. Len(subs) : subs2[i] = subs[i]
      /\ subs2[Len(subs) + 1] = sub
  <2>1. /\ subs2 \in Seq(SubProofs) /\ Len(subs2) = Len(subs) + 1
        /\ \A i \in 1 .. Len(subs) : subs2[i] = subs[i]
        /\ subs2[Len(subs) + 1] = sub
    BY AppendProperties
  <2>. QED
    BY <2>1, LenProperties
<1> HIDE DEF tau2, subs2
<1>4. \A i \in DOMAIN subs :
        /\ Answers(subs[i]) /\ subs[i].number < n
        /\ subs[i].number \in 1 .. Len(session.asked)
  BY DEF Filed, Answers
<1>5. \A i \in DOMAIN subs2 : i \in DOMAIN subs \/ i = Len(subs) + 1
  BY <1>3
<1>6. \A i \in DOMAIN subs2 : Answers(subs2[i]) /\ subs2[i].number < n + 1
  <2> TAKE i \in DOMAIN subs2
  <2>1. CASE i \in DOMAIN subs
    <3>1. subs2[i] = subs[i]
      BY <1>3, <2>1
    <3>2. subs[i].number < n + 1
      BY <1>4, <2>1
    <3>. QED
      BY <1>4, <2>1, <3>1, <3>2
  <2>2. CASE i = Len(subs) + 1
    <3>1. n < n + 1
      OBVIOUS
    <3>. QED
      BY <1>3, <2>2, <3>1
  <2>. QED
    BY <1>5, <2>1, <2>2
<1>7. \A i, j \in DOMAIN subs2 : subs2[i].number = subs2[j].number => i = j
  <2>1. \A i \in DOMAIN subs : subs2[i] = subs[i] /\ subs[i].number # n
    BY <1>3, <1>4
  <2>2. \A i, j \in DOMAIN subs : subs[i].number = subs[j].number => i = j
    BY DEF Filed
  <2>. QED
    BY <1>3, <1>5, <2>1, <2>2
<1>8. Orphan(subs2, n + 1) <=> Orphan(subs, n)
  <2>1. \A m \in 1 .. Len(session.asked) : m < n + 1 <=> m < n \/ m = n
    OBVIOUS
  <2>2. \A m \in 1 .. Len(session.asked) :
          m < n => ((\A i \in DOMAIN subs2 : subs2[i].number # m)
                      <=> \A i \in DOMAIN subs : subs[i].number # m)
    <3>1. Len(subs) + 1 \in DOMAIN subs2 /\ \A i \in DOMAIN subs : i \in DOMAIN subs2
      BY <1>3
    <3>2. \A m \in 1 .. Len(session.asked) : m < n => m # n
      OBVIOUS
    <3>. QED
      BY <1>3, <1>5, <3>1, <3>2
  <2>3. \E i \in DOMAIN subs2 : subs2[i].number = n
    <3>1. Len(subs) + 1 \in DOMAIN subs2
      BY <1>3
    <3>. QED
      BY <1>3, <3>1
  <2>. QED
    BY <2>1, <2>2, <2>3 DEF Orphan
<1>9. /\ Len(tau2) >= Len(subs2)
      /\ Orphan(subs2, n + 1) => Len(tau2) > Len(subs2)
  <2>1. Len(tau) >= Len(subs) /\ (Orphan(subs, n) => Len(tau) > Len(subs))
    BY DEF Filed
  <2>. QED
    BY <1>2, <1>3, <1>8, <2>1
<1>10. ASSUME ~Orphan(subs2, n + 1)
       PROVE  /\ Len(tau2) = Len(subs2)
              /\ \A i \in DOMAIN subs2 : tau2[i] = Committed(subs2[i].number)
  <2>1. /\ Len(tau) = Len(subs)
        /\ \A i \in DOMAIN subs : tau[i] = Committed(subs[i].number)
    BY <1>8, <1>10 DEF Filed
  <2>. QED
    BY <1>2, <1>3, <1>5, <2>1 DEF items
<1>11. Filed(tau2, subs2, n + 1)
  BY <1>6, <1>7, <1>9, <1>10 DEF Filed
<1>. QED
  BY <1>11 DEF tau2, subs2, items

LEMMA BuilderAddSubKeepsFiled ==
  ASSUME RegistryInv, CredInv, PresentationInv, BuilderAddSubProofRequest,
         UNCHANGED <<registryVars, credVars>>
  PROVE  PresentationInv'
<1> DEFINE n == builder.next
           request == session.asked[n]
           tau == builder.tau
           subs == builder.subs
           refused == [builder EXCEPT !.next = n + 1]
           orphaned == [refused EXCEPT !.tau = Append(tau, <<NonRevocItem(n)>>)]
           proven == [refused EXCEPT !.tau = Append(tau, Committed(n)),
                                     !.subs = Append(subs, SubProof(n))]
<1>1. /\ builder \in [common : 0 .. MaxCommon, tau : Seq(Commitments), subs : Seq(SubProofs),
                      next : 1 .. Len(session.asked) + 1]
      /\ n <= Len(session.asked)
      /\ builder' = IF ~Consistent(request) THEN refused
                    ELSE IF PrimaryPossible(request) THEN proven
                    ELSE IF n \in session.shown THEN orphaned ELSE refused
      /\ UNCHANGED <<session, proofs, verifier>>
  BY DEF CredInv, SessionType, BuilderAddSubProofRequest
<1>2. /\ Len(session.asked) \in Nat /\ request \in Requests /\ n \in 1 .. Len(session.asked)
  BY <1>1, AskedType DEF CredInv
<1>3. tau \in Seq(Commitments) /\ subs \in Seq(SubProofs) /\ Filed(tau, subs, n)
  BY <1>1 DEF PresentationInv
<1>4. /\ refused.tau = tau /\ refused.subs = subs /\ refused.next = n + 1
      /\ orphaned.tau = Append(tau, <<NonRevocItem(n)>>) /\ orphaned.subs = subs
      /\ orphaned.next = n + 1
      /\ proven.tau = Append(tau, Committed(n))
      /\ proven.subs = Append(subs, SubProof(n)) /\ proven.next = n + 1
  BY <1>1
<1>5. SubProof(n) \in SubProofs
  <2>1. builder.common \in 0 .. MaxCommon
    BY <1>1
  <2>2. witness.omega \in Points /\ witness.at \in Nat
    BY LedgerType DEF RegistryInv, RegistryTypeOK
  <2>3. cred.v \in 0 .. MaxTries /\ cred.vr \in 0 .. MaxTries
    BY DEF CredInv, SessionType, CredRecords
  <2>. QED
    BY <1>2, <2>1, <2>2, <2>3 DEF SubProof, SubProofs
<1>6. Consistent(request) /\ PrimaryPossible(request) => Answers(SubProof(n))
  <2>1. /\ SubProof(n).number = n /\ SubProof(n).request = request
        /\ SubProof(n).at = witness.at
        /\ SubProof(n).non_revoc <=> n \in session.shown
    BY DEF SubProof
  <2>. QED
    BY <1>2, <2>1 DEF Answers, PrimaryPossible
<1>7. SubProof(n).number = n /\ <<NonRevocItem(n)>> \in Commitments
  BY <1>2, CommittedIsClean DEF SubProof
<1> HIDE DEF n, tau, subs, refused, orphaned, proven
<1>8. CASE /\ ~Consistent(request) \/ ~PrimaryPossible(request)
           /\ Consistent(request) => n \notin session.shown
  <2>1. Filed(tau, subs, n + 1)
    BY <1>2, <1>3, <1>8, FiledRefused DEF request
  <2>2. Filed(builder'.tau, builder'.subs, builder'.next)
    BY <1>1, <1>4, <1>8, <2>1
  <2>. QED
    BY <1>1, <2>2, BuilderKeepsFiled
<1>9. CASE Consistent(request) /\ ~PrimaryPossible(request) /\ n \in session.shown
  <2>1. Filed(Append(tau, <<NonRevocItem(n)>>), subs, n + 1)
    BY <1>2, <1>3, <1>7, <1>9, FiledOrphaned DEF request
  <2>2. Filed(builder'.tau, builder'.subs, builder'.next)
    BY <1>1, <1>4, <1>9, <2>1
  <2>. QED
    BY <1>1, <2>2, BuilderKeepsFiled
<1>10. CASE Consistent(request) /\ PrimaryPossible(request)
  <2>1. Filed(Append(tau, Committed(n)), Append(subs, SubProof(n)), n + 1)
    BY <1>2, <1>3, <1>5, <1>6, <1>7, <1>10, FiledShown
  <2>2. Filed(builder'.tau, builder'.subs, builder'.next)
    BY <1>1, <1>4, <1>10, <2>1
  <2>. QED
    BY <1>1, <2>2, BuilderKeepsFiled
<1>11. CASE ~Consistent(request)
  BY <1>8, <1>11
<1>. QED
  BY <1>8, <1>9, <1>10, <1>11

LEMMA BuilderFinalizeKeepsFiled ==
  ASSUME CredInv, PresentationInv, BuilderFinalize, UNCHANGED <<registryVars, credVars>>
  PROVE  PresentationInv'
<1> DEFINE proof == [id |-> Len(proofs) + 1, tau |-> builder.tau, subs |-> builder.subs]
<1>1. /\ ~Idle /\ builder.next > Len(session.asked)
      /\ proofs' = Append(proofs, proof)
      /\ UNCHANGED <<session, builder, verifier>>
  BY DEF BuilderFinalize
<1>2. builder.next = Len(session.asked) + 1
  <2>1. SessionType /\ builder.next \in 1 .. Len(session.asked) + 1
    BY DEF CredInv, SessionType
  <2>. QED
    BY <1>1, <2>1, AskedType
<1>3. /\ Len(proofs) \in Nat /\ DOMAIN proofs = 1 .. Len(proofs)
      /\ DOMAIN proofs' = 1 .. Len(proofs) + 1
      /\ proofs'[Len(proofs) + 1] = proof
      /\ \A q \in 1 .. Len(proofs) : proofs'[q] = proofs[q]
  <2>1. proofs \in Seq(Proofs)
    BY DEF CredInv, SessionType, Proofs
  <2>2. builder.tau \in Seq(Commitments) /\ builder.subs \in Seq(SubProofs)
    BY DEF CredInv, SessionType
  <2>3. Len(proofs) \in Nat /\ DOMAIN proofs = 1 .. Len(proofs)
    BY <2>1, LenProperties
  <2>4. proof \in Proofs
    BY <2>2, <2>3 DEF Proofs
  <2> HIDE DEF proof
  <2>5. /\ proofs' \in Seq(Proofs) /\ Len(proofs') = Len(proofs) + 1
        /\ proofs'[Len(proofs) + 1] = proof
        /\ \A q \in 1 .. Len(proofs) : proofs'[q] = proofs[q]
    BY <1>1, <2>1, <2>4, AppendProperties
  <2>. QED
    BY <2>3, <2>5, LenProperties
<1>4. /\ proof.id = Len(proofs) + 1
      /\ Filed(proof.tau, proof.subs, Len(session.asked) + 1)
  BY <1>2 DEF PresentationInv
<1> HIDE DEF proof
<1>5. \A q \in DOMAIN proofs' :
        /\ proofs'[q].id = q
        /\ Filed(proofs'[q].tau, proofs'[q].subs, Len(session.asked) + 1)
  <2> TAKE q \in DOMAIN proofs'
  <2>1. q \in 1 .. Len(proofs) \/ q = Len(proofs) + 1
    BY <1>3
  <2>2. CASE q \in 1 .. Len(proofs)
    BY <1>3, <2>2 DEF PresentationInv
  <2>3. CASE q = Len(proofs) + 1
    BY <1>3, <1>4, <2>3
  <2>. QED
    BY <2>1, <2>2, <2>3
<1>6. /\ Filed(builder.tau, builder.subs, builder.next)'
      /\ \A q \in DOMAIN proofs' :
           Filed(proofs[q].tau, proofs[q].subs, Len(session.asked) + 1)'
  BY <1>1, <1>5, FiledRests DEF PresentationInv
<1>7. HatInv'
  <2>1. \A q \in DOMAIN proofs : q \in DOMAIN proofs' /\ proofs'[q] = proofs[q]
    BY <1>3
  <2>. QED
    BY <1>1, <2>1 DEF PresentationInv, HatInv, Hat
<1>8. ledger' = ledger
  BY Rests
<1>. QED
  BY <1>1, <1>5, <1>6, <1>7, <1>8 DEF PresentationInv, Idle

LEMMA PresentationNextKeeps ==
  RegistryInv /\ CredInv /\ PresentationInv /\ [CredNext]_vars => PresentationInv'
<1> SUFFICES ASSUME RegistryInv, CredInv, PresentationInv, [CredNext]_vars
             PROVE  PresentationInv'
  OBVIOUS
<1>1. CASE RegistryMoves \/ HolderReads \/ Issuance
  BY <1>1, IdleKeepsFiled
<1>2. CASE Presentation
  BY <1>2, AskKeepsFiled, BuilderAddCommonKeepsFiled, BuilderAddSubKeepsFiled,
     BuilderFinalizeKeepsFiled, VerifierAddCommonKeepsFiled, VerifierAddSubKeepsFiled,
     VerifierVerifyKeepsFiled DEF Presentation
<1>3. CASE UNCHANGED vars
  <2>1. UNCHANGED <<registryVars, credVars>> /\ UNCHANGED <<session, builder, proofs, verifier>>
    BY <1>3 DEF vars, sessionVars
  <2>2. Filed(builder'.tau, builder'.subs, builder'.next)
    BY <2>1 DEF PresentationInv
  <2>. QED
    BY <2>1, <2>2, BuilderKeepsFiled
<1>. QED
  BY <1>1, <1>2, <1>3 DEF CredNext

LEMMA PresentationInvHolds == CredSpec => []PresentationInv
BY PresentationInitHolds, PresentationNextKeeps, CredInvHolds, CredRegistryInv, PTL
   DEF CredSpec

(* verify accepts no proof that is not in order, for any schema, requests    *)
(* and number of credentials, proofs and attempts: whatever the prover left  *)
(* in its lists and however the verifier met the proofs.                     *)
THEOREM AcceptedInOrder ==
  CredSpec => [][\A i \in DOMAIN proofs :
                   Verify(proofs[i]) /\ Intact(Len(ledger)) /\ verdict'.result = "accepted"
                     => InOrder(proofs[i])]_vars
<1>1. RegistryInv /\ CredInv /\ PresentationInv /\ [CredNext]_vars =>
        [\A i \in DOMAIN proofs :
           Verify(proofs[i]) /\ Intact(Len(ledger)) /\ verdict'.result = "accepted"
             => InOrder(proofs[i])]_vars
  BY VerdictFollows DEF Verify
<1>. QED
  BY <1>1, PresentationInvHolds, CredInvHolds, CredRegistryInv, PTL DEF CredSpec

(* ... and accepts every one that is: completeness too.  The hypothesis is   *)
(* Lagrange's theorem, that the prover's loops find the four squares they    *)
(* look for.                                                                 *)
THEOREM VerdictHolds == ASSUME FourSquaresFound PROVE CredSpec => VerdictExact
<1>1. RegistryInv /\ CredInv /\ PresentationInv /\ [CredNext]_vars =>
        [\A i \in DOMAIN proofs :
           Verify(proofs[i]) /\ Intact(Len(ledger)) =>
             (verdict'.result = "accepted" <=> InOrder(proofs[i]))]_vars
  BY FourSquaresFound, VerdictFollows DEF Verify
<1>. QED
  BY <1>1, PresentationInvHolds, CredInvHolds, CredRegistryInv, PTL
     DEF CredSpec, VerdictExact
=============================================================================
