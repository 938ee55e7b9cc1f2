------------------------------ MODULE Registry ------------------------------
(* The revocation registry of Ursa's anonymous credentials: the issuer's     *)
(* accumulator, the deltas published for every change of it, and the holder  *)
(* who merges deltas and keeps the witness of one credential.                *)
(*                                                                           *)
(* A point of the curve is modelled by its coefficients over the tails: the  *)
(* tails are independent for anyone who does not know gamma, so two points   *)
(* are equal exactly when their coefficients are.  Adding a tail twice or    *)
(* subtracting one that was never added is then visible.                     *)
EXTENDS Integers, Sequences, FiniteSets

CONSTANTS MaxCred,    \* max_cred_num
          Me,         \* rev_idx of the holder that is followed
          MaxLog,     \* bound: published deltas
          MaxLost     \* bound: changes whose delta was lost

ASSUME MaxCredAssumption == MaxCred \in Nat \ {0}
ASSUME MeAssumption == Me \in 1 .. MaxCred
ASSUME BoundsAssumption == MaxLog \in Nat \ {0} /\ MaxLost \in Nat

Indices == 1 .. MaxCred

(* RevocationTailsGenerator: 0 unused, 1..L, L+1 never accumulated, L+2..2L. *)
Tails == 0 .. 2 * MaxCred
Points == [Tails -> Int]
Infinity == [n \in Tails |-> 0]
Add(point, n) == [point EXCEPT ![n] = @ + 1]
Sub(point, n) == [point EXCEPT ![n] = @ - 1]

(* Issuer::_get_index, the tail that stands for a credential.                *)
Index(i) == MaxCred + 1 - i

(* The sum of tails Index(j) + shift over the indices of S.                  *)
Sum(S, shift) == [n \in Tails |-> IF Index(n - shift) \in S THEN 1 ELSE 0]

NoDelta == [absent |-> TRUE]
NoPoint == [none |-> TRUE]
Delta(prev, accum, issued, revoked) ==
  [prev |-> prev, accum |-> accum, issued |-> issued, revoked |-> revoked]
Deltas == [prev : Points \cup {NoPoint}, accum : Points,
           issued : SUBSET Indices, revoked : SUBSET Indices]

VARIABLES
  issuanceByDefault,   \* how the registry was created
  accum,               \* RevocationRegistry.accum, in the issuer's memory
  status,              \* what the issuer's application believes of an index
  ledger,              \* the deltas it published, the initial registry first
  lost,                \* changes of accum for which no delta came back
  pending,             \* the holder's merged delta, not yet applied
  seen,                \* how much of the ledger went into it
  witness              \* Witness.omega and the position it was made for

issuerVars == <<issuanceByDefault, accum, status, ledger, lost>>
readerVars == <<pending, seen, witness>>
registryVars == <<issuanceByDefault, accum, status, ledger, lost, pending, seen, witness>>

NoWitness == [omega |-> Infinity, at |-> 0]

-----------------------------------------------------------------------------
(* Issuer.  An access to the tails file may fail: on reading (take), before  *)
(* anything happened, so that the call changes nothing; or on giving the     *)
(* tail back (put), after the closure already changed rev_reg.accum, so that *)
(* the call returns an error and no delta for a change that was made.        *)

Publish(delta) == ledger' = Append(ledger, delta)

Changed(i, new, issued, revoked, becomes) ==
  /\ Len(ledger) < MaxLog
  /\ accum' = new
  /\ \/ /\ Publish(Delta(accum, new, issued, revoked))
        /\ status' = [status EXCEPT ![i] = becomes]
        /\ UNCHANGED lost
     \/ /\ lost < MaxLost
        /\ lost' = lost + 1
        /\ UNCHANGED <<ledger, status>>
  /\ UNCHANGED issuanceByDefault

SignOnDemand(i) ==
  /\ ~issuanceByDefault
  /\ status[i] = "free"
  /\ Changed(i, Add(accum, Index(i)), {i}, {}, "valid")

SignByDefault(i) ==
  /\ issuanceByDefault
  /\ status[i] = "free"
  /\ status' = [status EXCEPT ![i] = "valid"]
  /\ UNCHANGED <<issuanceByDefault, accum, ledger, lost>>

SignByDefaultAgain(i) ==
  /\ issuanceByDefault
  /\ status[i] = "free"
  /\ Changed(i, Add(accum, Index(i)), {i}, {}, "valid")
AlwaysAddingSign(i) == SignOnDemand(i) \/ SignByDefaultAgain(i)
Sign(i) == SignOnDemand(i) \/ SignByDefault(i)

Revoke(i) ==
  /\ status[i] = "valid"
  /\ Changed(i, Sub(accum, Index(i)), {}, {i}, "revoked")

SubtractingRecover(i) ==
  /\ status[i] = "revoked"
  /\ Changed(i, Sub(accum, Index(i)), {i}, {}, "valid")

Recover(i) ==
  /\ status[i] = "revoked"
  /\ Changed(i, Add(accum, Index(i)), {i}, {}, "valid")

-----------------------------------------------------------------------------
(* Holder.                                                                   *)

Mergeable(delta, other) == other.prev # NoPoint /\ delta.accum = other.prev

UnitingMerged(delta, other) ==
  Delta(delta.prev, other.accum, delta.issued \cup other.issued,
        delta.revoked \cup other.revoked)

Merged(delta, other) ==
  LET issued  == delta.issued \cup (other.issued \ delta.revoked)
      revoked == delta.revoked \cup (other.revoked \ issued)
  IN Delta(delta.prev, other.accum, issued \ other.revoked, revoked \ other.issued)

(* The next delta of the ledger: the first is taken as it is, the others are *)
(* merged into it.  A delta that cannot be merged leaves the holder stuck.   *)
ReadDelta ==
  /\ seen < Len(ledger)
  /\ LET other == ledger[seen + 1]
     IN \/ /\ pending = NoDelta
           /\ pending' = other
        \/ /\ pending # NoDelta
           /\ Mergeable(pending, other)
           /\ pending' = Merged(pending, other)
  /\ seen' = seen + 1
  /\ UNCHANGED witness

NewOmega(delta) ==
  Sum((IF issuanceByDefault THEN Indices \ delta.revoked ELSE delta.issued) \ {Me}, Me)

(* Witness::new; an error of the tails accessor leaves no witness behind.    *)
NewWitness ==
  /\ witness = NoWitness
  /\ pending # NoDelta
  /\ witness' = [omega |-> NewOmega(pending), at |-> seen]
  /\ pending' = NoDelta
  /\ UNCHANGED seen

UpdatedOmegaWithOwn(omega, delta) ==
  LET denom == Sum(delta.revoked, Me)
      num   == Sum(delta.issued, Me)
  IN [n \in Tails |-> omega[n] + (num[n] - denom[n])]

UpdatedOmega(omega, delta) ==
  LET denom == Sum(delta.revoked \ {Me}, Me)
      num   == Sum(delta.issued \ {Me}, Me)
  IN [n \in Tails |-> omega[n] + (num[n] - denom[n])]

UpdateWitnessAhead ==
  /\ witness # NoWitness
  /\ pending # NoDelta
  /\ witness' = [omega |-> UpdatedOmega(witness.omega, pending), at |-> seen + 1]
  /\ pending' = NoDelta
  /\ UNCHANGED seen

(* Witness::update; on an error of the accessor omega keeps its value.       *)
UpdateWitness ==
  /\ witness # NoWitness
  /\ pending # NoDelta
  /\ witness' = [omega |-> UpdatedOmega(witness.omega, pending), at |-> seen]
  /\ pending' = NoDelta
  /\ UNCHANGED seen

(* _test_witness_signature's first equation,                                 *)
(*   e(g_i, accum) = e(g, omega) * z,                                        *)
(* in the exponents of gamma: g_i shifts accum by Me, z is gamma^(L+1).      *)
Z(n) == IF n = MaxCred + 1 THEN 1 ELSE 0
Coefficient(point, n) == IF n \in Tails THEN point[n] ELSE 0

LowWitnessTests(omega, acc) ==
  \A n \in 0 .. MaxCred + 1 :
    Coefficient(acc, n - Me) - Coefficient(omega, n) = Z(n)

WitnessTests(omega, acc) ==
  \A n \in 0 .. 3 * MaxCred :
    Coefficient(acc, n - Me) - Coefficient(omega, n) = Z(n)

-----------------------------------------------------------------------------
(* Issuer::_new_revocation_registry: by default every tail is accumulated.   *)
NewAccum(byDefault) == IF byDefault THEN Sum(Indices, 0) ELSE Infinity

Init ==
  /\ issuanceByDefault \in BOOLEAN
  /\ accum = NewAccum(issuanceByDefault)
  /\ status = [i \in Indices |-> "free"]
  /\ ledger = <<Delta(NoPoint, accum, {}, {})>>
  /\ lost = 0
  /\ pending = NoDelta
  /\ seen = 0
  /\ witness = NoWitness

IssuerNext == \E i \in Indices : Sign(i) \/ Revoke(i) \/ Recover(i)
ReaderNext == ReadDelta \/ NewWitness \/ UpdateWitness

Next == \/ IssuerNext /\ UNCHANGED readerVars
        \/ ReaderNext /\ UNCHANGED issuerVars

Spec == Init /\ [][Next]_registryVars

-----------------------------------------------------------------------------
Last == ledger[Len(ledger)]

(* The credentials a published registry contains, told from its accumulator. *)
Members(k) == {i \in Indices : ledger[k].accum[Index(i)] = 1}

(* Up to position k every delta starts where the one before it ended.        *)
Intact(k) == \A n \in 2 .. k : ledger[n].prev = ledger[n - 1].accum

(* What the issuer's application believes the registry contains.             *)
Believed == {i \in Indices : \/ status[i] = "valid"
                             \/ status[i] = "free" /\ issuanceByDefault}

(* The members the holder's pending delta starts from.                       *)
Base == IF witness = NoWitness THEN 1 ELSE witness.at

RegistryTypeOK ==
  /\ issuanceByDefault \in BOOLEAN
  /\ accum \in Points
  /\ status \in [Indices -> {"free", "valid", "revoked"}]
  /\ ledger \in Seq(Deltas)
  /\ Len(ledger) \in 1 .. MaxLog
  /\ lost \in 0 .. MaxLost
  /\ pending \in Deltas \cup {NoDelta}
  /\ seen \in 0 .. Len(ledger)
  /\ witness \in [omega : Points, at : 0 .. Len(ledger)]

(* As long as no delta was lost, the issuer's accumulator is the sum of the  *)
(* tails of exactly the credentials its application believes to be in it,    *)
(* each once: revoke_credential and recovery_credential check neither.       *)
AccumulatorMatchesStatus == lost = 0 => accum = Sum(Believed, 0)

(* RevocationRegistryDelta::merge: along an intact ledger the merged delta   *)
(* of the holder is the difference of the two memberships it spans, however  *)
(* often a credential was revoked and recovered in between.                  *)
MergeIsComposition ==
  pending # NoDelta /\ Intact(seen) =>
    /\ pending.accum = ledger[seen].accum
    /\ pending.issued = Members(seen) \ Members(Base)
    /\ pending.revoked = Members(Base) \ Members(seen)

(* Witness::new and Witness::update: whatever was merged between updates,    *)
(* the witness is the one Witness::new would compute from the members at its *)
(* position, and never contains the holder's own tail, number L + 1.         *)
WitnessTracks ==
  witness # NoWitness /\ Intact(witness.at) =>
    witness.omega = Sum(Members(witness.at) \ {Me}, Me)

(* The pairing equation between a witness and any published registry holds   *)
(* exactly when the holder is in that registry and nobody else joined or     *)
(* left since the witness was computed.                                      *)
WitnessShowsMembership ==
  \A k \in DOMAIN ledger :
    witness # NoWitness /\ Intact(k) /\ Intact(witness.at) =>
      (WitnessTests(witness.omega, ledger[k].accum)
         <=> /\ Me \in Members(k)
             /\ Members(witness.at) \ {Me} = Members(k) \ {Me})

Abstract == INSTANCE MembershipLog WITH
  members <- {i \in Indices : accum[Index(i)] = 1},
  log     <- [k \in 1 .. Len(ledger) |-> Members(k)],
  sound   <- lost = 0,
  known   <- {j \in Indices \ {Me} : witness.omega[Index(j) + Me] = 1},
  at      <- witness.at

(* Accumulator, deltas and witnesses implement a published set of members    *)
(* and a holder who knows it at some position, until a delta is lost.        *)
ImplementsLog == Abstract!Spec
=============================================================================
