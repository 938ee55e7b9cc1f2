-------------------------- MODULE Registry_proofs --------------------------
(* The revocation registry for any number of credentials, any length of its  *)
(* ledger and any number of lost deltas.  Everything rests on one invariant: *)
(* as far as the ledger is intact, every accumulator in it is a sum of       *)
(* tails, each once, and every delta the difference of its two neighbours.   *)
EXTENDS Registry, SequenceTheorems, TLAPS

USE MaxCredAssumption, MeAssumption

(* An index and its tail determine each other.                               *)
LEMMA IndexInTails ==
  \A i \in Indices : Index(i) \in Tails /\ Index(Index(i)) = i /\ Index(i) \in Indices
BY DEF Index, Indices, Tails

(* A sum of tails is a point, and shows which tails were summed.             *)
LEMMA SumIsPoint == \A S, shift : Sum(S, shift) \in Points
BY DEF Sum, Points

LEMMA SumShows ==
  ASSUME NEW S \in SUBSET Indices PROVE {i \in Indices : Sum(S, 0)[Index(i)] = 1} = S
<1>1. \A i \in Indices : Sum(S, 0)[Index(i)] = IF i \in S THEN 1 ELSE 0
  <2> TAKE i \in Indices
  <2>1. Index(i) \in Tails /\ Index(Index(i) - 0) = i
    BY IndexInTails DEF Index, Indices
  <2>. QED
    BY <2>1 DEF Sum
<1>. QED
  BY <1>1

LEMMA SumInjective ==
  ASSUME NEW S \in SUBSET Indices, NEW T \in SUBSET Indices, Sum(S, 0) = Sum(T, 0)
  PROVE  S = T
BY SumShows

(* Adding the tail of an index that is not in the sum, and subtracting one   *)
(* that is, gives the sum with and without it.                               *)
LEMMA AddSum ==
  ASSUME NEW S \in SUBSET Indices, NEW i \in Indices \ S
  PROVE  Add(Sum(S, 0), Index(i)) = Sum(S \cup {i}, 0)
<1>1. Index(i) \in Tails
  BY IndexInTails
<1>2. ASSUME NEW n \in Tails
      PROVE  Add(Sum(S, 0), Index(i))[n] = Sum(S \cup {i}, 0)[n]
  BY <1>1, <1>2 DEF Add, Sum, Index, Indices, Tails
<1>. QED
  BY <1>2 DEF Add, Sum

LEMMA SubSum ==
  ASSUME NEW S \in SUBSET Indices, NEW i \in S
  PROVE  Sub(Sum(S, 0), Index(i)) = Sum(S \ {i}, 0)
<1>1. Index(i) \in Tails
  BY IndexInTails
<1>2. ASSUME NEW n \in Tails
      PROVE  Sub(Sum(S, 0), Index(i))[n] = Sum(S \ {i}, 0)[n]
  BY <1>1, <1>2 DEF Sub, Sum, Index, Indices, Tails
<1>. QED
  BY <1>2 DEF Sub, Sum

LEMMA AddType ==
  \A p \in Points : \A n \in Tails : Add(p, n) \in Points /\ Sub(p, n) \in Points
BY DEF Points, Add, Sub

(* Updating the witness for one set of members by a difference gives the     *)
(* witness for the other set.                                                *)
LEMMA UpdateSum ==
  ASSUME NEW B \in SUBSET Indices, NEW N \in SUBSET Indices, NEW delta,
         delta.issued = N \ B, delta.revoked = B \ N
  PROVE  UpdatedOmega(Sum(B \ {Me}, Me), delta) = Sum(N \ {Me}, Me)
<1>1. ASSUME NEW n \in Tails
      PROVE  UpdatedOmega(Sum(B \ {Me}, Me), delta)[n] = Sum(N \ {Me}, Me)[n]
  BY <1>1 DEF UpdatedOmega, Sum
<1>. QED
  BY <1>1 DEF UpdatedOmega, Sum

(* The pairing equation compares two sums of tails index by index; the       *)
(* holder's own index is where the two sides must differ by one.             *)
LEMMA PairingShows ==
  ASSUME NEW K \in SUBSET Indices, NEW W \in SUBSET (Indices \ {Me})
  PROVE  WitnessTests(Sum(W, Me), Sum(K, 0)) <=> Me \in K /\ W = K \ {Me}
<1> DEFINE at(n) == Index(n - Me)
           one(b) == IF b THEN 1 ELSE 0
<1>1. ASSUME NEW n \in 0 .. 3 * MaxCred
      PROVE  Coefficient(Sum(K, 0), n - Me) = one(at(n) \in K)
  BY <1>1 DEF Coefficient, Sum, Index, Indices, Tails
<1>2. ASSUME NEW n \in 0 .. 3 * MaxCred
      PROVE  Coefficient(Sum(W, Me), n) = one(at(n) \in W)
  BY <1>2 DEF Coefficient, Sum, Index, Indices, Tails
<1>3. \A n \in 0 .. 3 * MaxCred : n = MaxCred + 1 <=> at(n) = Me
  BY DEF Index, Indices
<1>4. \A j \in Indices : \E n \in 0 .. 3 * MaxCred : at(n) = j
  <2> TAKE j \in Indices
  <2>1. MaxCred + 1 - j + Me \in 0 .. 3 * MaxCred /\ at(MaxCred + 1 - j + Me) = j
    BY DEF Index, Indices
  <2>. QED
    BY <2>1
<1> HIDE DEF at
<1>5. WitnessTests(Sum(W, Me), Sum(K, 0)) <=>
        \A n \in 0 .. 3 * MaxCred : one(at(n) \in K) - one(at(n) \in W) = one(at(n) = Me)
  BY <1>1, <1>2, <1>3 DEF WitnessTests, Z
<1>6. (\A n \in 0 .. 3 * MaxCred : one(at(n) \in K) - one(at(n) \in W) = one(at(n) = Me))
        <=> \A j \in Indices : one(j \in K) - one(j \in W) = one(j = Me)
  <2>1. \A n \in 0 .. 3 * MaxCred : at(n) \notin Indices =>
          at(n) \notin K /\ at(n) \notin W /\ at(n) # Me
    BY DEF Indices
  <2>. QED
    BY <1>4, <2>1
<1>7. (\A j \in Indices : one(j \in K) - one(j \in W) = one(j = Me))
        <=> Me \in K /\ W = K \ {Me}
  <2>1. Me \in Indices
    BY DEF Indices
  <2>2. \A j \in Indices : one(j \in K) - one(j \in W) = one(j = Me)
          <=> IF j = Me THEN j \in K /\ j \notin W ELSE j \in K <=> j \in W
    OBVIOUS
  <2> HIDE DEF one
  <2>3. (\A j \in Indices : IF j = Me THEN j \in K /\ j \notin W ELSE j \in K <=> j \in W)
          <=> Me \in K /\ W = K \ {Me}
    BY <2>1
  <2>. QED
    BY <2>2, <2>3
<1>. QED
  BY <1>5, <1>6, <1>7

-----------------------------------------------------------------------------
(* The invariant.                                                            *)

LedgerInv ==
  /\ ledger[1].accum = Sum(IF issuanceByDefault THEN Indices ELSE {}, 0)
  /\ ledger[1].issued = {} /\ ledger[1].revoked = {}
  /\ \A n \in DOMAIN ledger : Intact(n) => ledger[n].accum = Sum(Members(n), 0)
  /\ \A n \in 2 .. Len(ledger) : Intact(n) =>
       /\ ledger[n].issued = Members(n) \ Members(n - 1)
       /\ ledger[n].revoked = Members(n - 1) \ Members(n)
  /\ Intact(Len(ledger)) => Last.accum = Sum(Believed, 0)
  /\ lost = 0 => accum = Last.accum /\ Intact(Len(ledger))

ReaderInv ==
  /\ witness # NoWitness => witness.at >= 1
  /\ pending = NoDelta => seen = witness.at
  /\ pending # NoDelta => seen >= Base
  /\ MergeIsComposition
  /\ WitnessTracks

RegistryInv == RegistryTypeOK /\ LedgerInv /\ ReaderInv

(* What the type says of the ledger.                                         *)
LEMMA LedgerType ==
  ASSUME RegistryTypeOK
  PROVE  /\ Len(ledger) \in Nat \ {0}
         /\ DOMAIN ledger = 1 .. Len(ledger)
         /\ \A n \in DOMAIN ledger : ledger[n] \in Deltas
         /\ seen \in Nat /\ witness.at \in Nat
         /\ seen <= Len(ledger) /\ witness.at <= Len(ledger)
<1>1. ledger \in Seq(Deltas) /\ Len(ledger) \in 1 .. MaxLog
  BY DEF RegistryTypeOK
<1>2. Len(ledger) \in Nat \ {0}
  BY <1>1
<1>3. seen \in 0 .. Len(ledger) /\ witness.at \in 0 .. Len(ledger)
  BY DEF RegistryTypeOK
<1>. QED
  BY <1>1, <1>2, <1>3

LEMMA DeltaIsNotAbsent == \A delta \in Deltas : delta # NoDelta
<1> SUFFICES ASSUME NEW delta \in Deltas, delta = NoDelta PROVE FALSE
  OBVIOUS
<1>1. "prev" \in DOMAIN delta
  BY DEF Deltas
<1>2. DOMAIN NoDelta = {"absent"}
  BY DEF NoDelta
<1>. QED
  BY <1>1, <1>2

LEMMA MembersAreIndices == \A k : Members(k) \in SUBSET Indices
BY DEF Members

LEMMA BelievedAreIndices == Believed \in SUBSET Indices
BY DEF Believed

(* An initial piece of an intact piece is intact.                            *)
LEMMA IntactBefore ==
  ASSUME NEW n \in Nat, NEW k \in Nat, k <= n, Intact(n) PROVE Intact(k)
BY DEF Intact

-----------------------------------------------------------------------------
(* Publishing adds to the ledger and leaves what is in it.                   *)
LEMMA LedgerGrows ==
  ASSUME RegistryTypeOK, NEW delta \in Deltas, ledger' = Append(ledger, delta)
  PROVE  /\ Len(ledger') = Len(ledger) + 1
         /\ DOMAIN ledger' = 1 .. Len(ledger) + 1
         /\ ledger'[Len(ledger) + 1] = delta
         /\ \A n \in DOMAIN ledger : /\ ledger'[n] = ledger[n]
                                     /\ Members(n)' = Members(n)
                                     /\ Intact(n)' = Intact(n)
<1>1. ledger \in Seq(Deltas)
  BY DEF RegistryTypeOK
<1>2. /\ Len(ledger') = Len(ledger) + 1
      /\ DOMAIN ledger' = 1 .. Len(ledger) + 1
      /\ ledger'[Len(ledger) + 1] = delta
      /\ \A n \in 1 .. Len(ledger) : ledger'[n] = ledger[n]
  BY <1>1
<1>3. DOMAIN ledger = 1 .. Len(ledger) /\ Len(ledger) \in Nat
  BY LedgerType
<1>4. ASSUME NEW n \in DOMAIN ledger
      PROVE  Members(n)' = Members(n) /\ Intact(n)' = Intact(n)
  <2>1. Members(n)' = Members(n)
    BY <1>2, <1>3 DEF Members
  <2>2. \A m \in 2 .. n : ledger'[m] = ledger[m] /\ ledger'[m - 1] = ledger[m - 1]
    BY <1>2, <1>3
  <2>3. Intact(n)' = Intact(n)
    BY <2>2 DEF Intact
  <2>. QED
    BY <2>1, <2>3
<1>. QED
  BY <1>2, <1>3, <1>4

(* A ledger that stays or grows does not disturb its reader.                 *)
LEMMA ReaderUndisturbed ==
  ASSUME RegistryInv, UNCHANGED readerVars,
         \/ UNCHANGED ledger
         \/ \E delta \in Deltas : ledger' = Append(ledger, delta)
  PROVE  ReaderInv'
<1>1. /\ RegistryTypeOK /\ ReaderInv
      /\ pending' = pending /\ seen' = seen /\ witness' = witness
  BY DEF RegistryInv, readerVars
<1>2. \A n \in DOMAIN ledger : /\ ledger'[n] = ledger[n]
                              /\ Members(n)' = Members(n)
                              /\ Intact(n)' = Intact(n)
  <2>1. CASE UNCHANGED ledger
    BY <2>1 DEF Members, Intact
  <2>2. CASE \E delta \in Deltas : ledger' = Append(ledger, delta)
    BY <1>1, <2>2, LedgerGrows
  <2>. QED
    BY <2>1, <2>2
<1>3. DOMAIN ledger = 1 .. Len(ledger) /\ Len(ledger) \in Nat \ {0}
      /\ seen \in 0 .. Len(ledger) /\ witness.at \in 0 .. Len(ledger)
  BY <1>1, LedgerType
<1>4. Base' = Base /\ (pending # NoDelta => Base \in DOMAIN ledger /\ seen \in DOMAIN ledger)
  BY <1>1, <1>3 DEF Base, ReaderInv
<1>5. MergeIsComposition'
  BY <1>1, <1>2, <1>4 DEF MergeIsComposition, ReaderInv
<1>6. WitnessTracks'
  <2>1. witness # NoWitness => witness.at \in DOMAIN ledger
    BY <1>1, <1>3 DEF ReaderInv
  <2>. QED
    BY <1>1, <1>2, <2>1 DEF WitnessTracks, ReaderInv
<1>. QED
  BY <1>1, <1>4, <1>5, <1>6 DEF ReaderInv

-----------------------------------------------------------------------------
(* A change of the accumulator: its delta is published and the application's *)
(* belief follows, or neither happens.                                       *)
LEMMA ChangedKeeps ==
  ASSUME RegistryInv, NEW i \in Indices,
         NEW new, NEW issued, NEW revoked, NEW becomes,
         Changed(i, new, issued, revoked, becomes),
         \/ /\ becomes = "valid" /\ i \notin Believed
            /\ new = Add(accum, Index(i)) /\ issued = {i} /\ revoked = {}
         \/ /\ becomes = "revoked" /\ i \in Believed
            /\ new = Sub(accum, Index(i)) /\ issued = {} /\ revoked = {i},
         UNCHANGED readerVars
  PROVE  RegistryInv'
<1>0. /\ RegistryTypeOK /\ LedgerInv /\ ReaderInv
      /\ pending' = pending /\ seen' = seen /\ witness' = witness
      /\ issuanceByDefault' = issuanceByDefault /\ accum' = new
  BY DEF RegistryInv, readerVars, Changed
<1>1. new \in Points
  BY <1>0, IndexInTails, AddType DEF RegistryTypeOK
<1>2. Len(ledger) \in Nat \ {0} /\ DOMAIN ledger = 1 .. Len(ledger)
  BY <1>0, LedgerType
<1>3. CASE lost' = lost + 1 /\ UNCHANGED <<ledger, status>> /\ lost < MaxLost
  <2>1. lost' \in 0 .. MaxLost /\ lost' # 0
    BY <1>0, <1>3, BoundsAssumption DEF RegistryTypeOK
  <2>2. RegistryTypeOK'
    BY <1>0, <1>1, <1>3, <2>1 DEF RegistryTypeOK
  <2>3. LedgerInv'
    <3>1. Believed' = Believed /\ Last' = Last
      BY <1>0, <1>3 DEF Believed, Last
    <3>2. \A n : Members(n)' = Members(n) /\ Intact(n)' = Intact(n)
      BY <1>3 DEF Members, Intact
    <3>. QED
      BY <1>0, <1>3, <2>1, <3>1, <3>2 DEF LedgerInv
  <2>4. ReaderInv'
    BY <1>3, ReaderUndisturbed
  <2>. QED
    BY <2>2, <2>3, <2>4 DEF RegistryInv
<1>4. CASE /\ Publish(Delta(accum, new, issued, revoked))
           /\ status' = [status EXCEPT ![i] = becomes]
           /\ UNCHANGED lost
           /\ Len(ledger) < MaxLog
  <2> DEFINE delta == Delta(accum, new, issued, revoked)
  <2>0. PICK k \in Nat \ {0} : k = Len(ledger)
    BY <1>2
  <2>1. delta \in Deltas
    BY <1>0, <1>1 DEF Delta, Deltas, RegistryTypeOK
  <2>2. ledger' = Append(ledger, delta)
    BY <1>4 DEF Publish
  <2> HIDE DEF delta
  <2>3. /\ Len(ledger') = k + 1
        /\ DOMAIN ledger' = 1 .. k + 1
        /\ ledger'[k + 1] = delta
        /\ \A n \in DOMAIN ledger : /\ ledger'[n] = ledger[n]
                                    /\ Members(n)' = Members(n)
                                    /\ Intact(n)' = Intact(n)
    BY <1>0, <2>0, <2>1, <2>2, LedgerGrows
  <2>4. delta.prev = accum /\ delta.accum = new
        /\ delta.issued = issued /\ delta.revoked = revoked
    BY DEF delta, Delta
  <2>5. Intact(k + 1)' => Intact(k) /\ accum = ledger[k].accum
    <3>1. SUFFICES ASSUME Intact(k + 1)' PROVE Intact(k) /\ accum = ledger[k].accum
      OBVIOUS
    <3>2. \A n \in 2 .. k + 1 : ledger'[n].prev = ledger'[n - 1].accum
      BY <3>1 DEF Intact
    <3>3. k \in DOMAIN ledger
      BY <1>2, <2>0
    <3>4. accum = ledger[k].accum
      <4>1. CASE k >= 1
        <5>1. k + 1 \in 2 .. k + 1 /\ (k + 1) - 1 = k
          BY <1>2
        <5>. QED
          BY <2>3, <2>4, <3>2, <3>3, <5>1
      <4>. QED
        BY <1>2, <4>1
    <3>5. Intact(k)'
      BY <3>2 DEF Intact
    <3>. QED
      BY <2>3, <3>3, <3>4, <3>5
  <2>6. Intact(k) /\ accum = ledger[k].accum => Intact(k + 1)'
    <3>1. SUFFICES ASSUME Intact(k), accum = ledger[k].accum,
                          NEW n \in 2 .. k + 1
                   PROVE  ledger'[n].prev = ledger'[n - 1].accum
      BY DEF Intact
    <3>2. CASE n = k + 1
      <4>1. n - 1 = k /\ k \in DOMAIN ledger
        BY <1>2, <2>0, <3>2
      <4>. QED
        BY <2>3, <2>4, <3>1, <3>2, <4>1
    <3>3. CASE n # k + 1
      <4>1. n \in 2 .. k /\ n \in DOMAIN ledger /\ n - 1 \in DOMAIN ledger
        BY <1>2, <2>0, <3>3
      <4>. QED
        BY <2>3, <3>1, <4>1 DEF Intact
    <3>. QED
      BY <3>2, <3>3
  <2>7. Believed' = IF becomes = "valid" THEN Believed \cup {i} ELSE Believed \ {i}
    BY <1>0, <1>4 DEF Believed, RegistryTypeOK
  <2>8. ASSUME Intact(k + 1)'
        PROVE  /\ new = Sum(Believed', 0)
               /\ Members(k) = Believed /\ Members(k + 1)' = Believed'
               /\ issued = Believed' \ Believed /\ revoked = Believed \ Believed'
    <3>1. accum = Sum(Believed, 0) /\ ledger[k].accum = accum
      BY <1>0, <2>0, <2>5, <2>8 DEF LedgerInv, Last
    <3>2. new = Sum(Believed', 0)
      BY <2>7, <3>1, AddSum, SubSum, BelievedAreIndices
    <3>3. Believed' \in SUBSET Indices
      BY <2>7, BelievedAreIndices
    <3>4. Members(k) = Believed
      BY <3>1, SumShows, BelievedAreIndices DEF Members
    <3>5. Members(k + 1)' = {j \in Indices : new[Index(j)] = 1}
      BY <2>3, <2>4 DEF Members
    <3>6. Members(k + 1)' = Believed'
      BY <3>2, <3>3, <3>5, SumShows
    <3>7. issued = Believed' \ Believed /\ revoked = Believed \ Believed'
      BY <2>7
    <3>. QED
      BY <3>2, <3>4, <3>6, <3>7
  <2>9. RegistryTypeOK'
    <3>1. Len(ledger') \in 1 .. MaxLog /\ seen \in 0 .. Len(ledger')
          /\ witness \in [omega : Points, at : 0 .. Len(ledger')]
      BY <1>0, <1>2, <1>4, <2>0, <2>3, BoundsAssumption DEF RegistryTypeOK
    <3>2. ledger' \in Seq(Deltas)
      BY <1>0, <2>1, <2>2 DEF RegistryTypeOK
    <3>3. status' \in [Indices -> {"free", "valid", "revoked"}]
      BY <1>0, <1>4 DEF RegistryTypeOK
    <3>. QED
      BY <1>0, <1>1, <1>4, <3>1, <3>2, <3>3 DEF RegistryTypeOK
  <2>10. LedgerInv'
    <3>1. 1 \in DOMAIN ledger /\ k \in DOMAIN ledger
      BY <1>2, <2>0
    <3>2. ledger'[1].accum = Sum(IF issuanceByDefault' THEN Indices ELSE {}, 0)
          /\ ledger'[1].issued = {} /\ ledger'[1].revoked = {}
      BY <1>0, <2>3, <3>1 DEF LedgerInv
    <3>3. ASSUME NEW n \in DOMAIN ledger', Intact(n)'
          PROVE  ledger'[n].accum = Sum(Members(n)', 0)
      <4>1. CASE n = k + 1
        BY <2>3, <2>4, <2>8, <3>3, <4>1
      <4>2. CASE n # k + 1
        BY <1>0, <1>2, <2>0, <2>3, <3>3, <4>2 DEF LedgerInv
      <4>. QED
        BY <4>1, <4>2
    <3>4. ASSUME NEW n \in 2 .. Len(ledger'), Intact(n)'
          PROVE  /\ ledger'[n].issued = Members(n)' \ Members(n - 1)'
                 /\ ledger'[n].revoked = Members(n - 1)' \ Members(n)'
      <4>1. CASE n = k + 1
        <5>1. n - 1 = k
          BY <1>2, <4>1
        <5>2. Members(n - 1)' = Believed /\ Members(n)' = Believed'
          BY <2>3, <2>8, <3>1, <3>4, <4>1, <5>1
        <5>. QED
          BY <2>3, <2>4, <2>8, <3>4, <4>1, <5>2
      <4>2. CASE n # k + 1
        <5>1. n \in 2 .. k /\ n \in DOMAIN ledger /\ n - 1 \in DOMAIN ledger
          BY <1>2, <2>0, <2>3, <4>2
        <5>. QED
          BY <1>0, <2>0, <2>3, <3>4, <5>1 DEF LedgerInv
      <4>. QED
        BY <4>1, <4>2
    <3>5. Last' = delta
      BY <2>3 DEF Last
    <3>6. (Intact(Len(ledger)) => Last.accum = Sum(Believed, 0))'
      BY <2>3, <2>4, <2>8, <3>5
    <3>7. (lost = 0 => accum = Last.accum /\ Intact(Len(ledger)))'
      <4>1. lost = 0 => accum = ledger[k].accum /\ Intact(k)
        BY <1>0, <2>0 DEF LedgerInv, Last
      <4>. QED
        BY <1>0, <1>4, <2>3, <2>4, <2>6, <3>5, <4>1
    <3>. QED
      BY <3>2, <3>3, <3>4, <3>6, <3>7 DEF LedgerInv
  <2>11. ReaderInv'
    BY <2>1, <2>2, ReaderUndisturbed
  <2>. QED
    BY <2>9, <2>10, <2>11 DEF RegistryInv
<1>. QED
  BY <1>3, <1>4 DEF Changed

LEMMA IssuerKeeps ==
  ASSUME RegistryInv, UNCHANGED readerVars, NEW i \in Indices,
         Sign(i) \/ Revoke(i) \/ Recover(i)
  PROVE  RegistryInv'
<1>1. CASE SignOnDemand(i)
  <2>1. i \notin Believed
    BY <1>1 DEF SignOnDemand, Believed
  <2>. QED
    BY <1>1, <2>1, ChangedKeeps DEF SignOnDemand
<1>2. CASE SignByDefault(i)
  <2>1. /\ RegistryTypeOK /\ LedgerInv /\ ReaderInv
        /\ status' = [status EXCEPT ![i] = "valid"]
        /\ status[i] = "free" /\ issuanceByDefault
        /\ UNCHANGED <<issuanceByDefault, accum, ledger, lost>>
        /\ UNCHANGED <<pending, seen, witness>>
    BY <1>2 DEF RegistryInv, SignByDefault, readerVars
  <2>2. RegistryTypeOK'
    BY <2>1 DEF RegistryTypeOK
  <2>3. Believed' = Believed
    BY <2>1 DEF Believed, RegistryTypeOK
  <2>4. Last' = Last /\ \A n : Members(n)' = Members(n) /\ Intact(n)' = Intact(n)
    BY <2>1 DEF Last, Members, Intact
  <2>5. LedgerInv'
    BY <2>1, <2>3, <2>4 DEF LedgerInv
  <2>6. ReaderInv'
    BY <2>1, ReaderUndisturbed
  <2>. QED
    BY <2>2, <2>5, <2>6 DEF RegistryInv
<1>3. CASE Revoke(i)
  <2>1. i \in Believed
    BY <1>3 DEF Revoke, Believed
  <2>. QED
    BY <1>3, <2>1, ChangedKeeps DEF Revoke
<1>4. CASE Recover(i)
  <2>1. i \notin Believed
    BY <1>4 DEF Recover, Believed
  <2>. QED
    BY <1>4, <2>1, ChangedKeeps DEF Recover
<1>. QED
  BY <1>1, <1>2, <1>3, <1>4 DEF Sign

-----------------------------------------------------------------------------
(* The holder's steps read the ledger and change nothing of it.              *)
LEMMA LedgerRests ==
  ASSUME RegistryInv, UNCHANGED issuerVars
  PROVE  /\ LedgerInv'
         /\ ledger' = ledger
         /\ \A n : Members(n)' = Members(n) /\ Intact(n)' = Intact(n)
<1>1. UNCHANGED <<issuanceByDefault, accum, status, ledger, lost>>
  BY DEF issuerVars
<1>2. Believed' = Believed /\ Last' = Last
  BY <1>1 DEF Believed, Last
<1>3. \A n : Members(n)' = Members(n) /\ Intact(n)' = Intact(n)
  BY <1>1 DEF Members, Intact
<1>. QED
  BY <1>1, <1>2, <1>3 DEF RegistryInv, LedgerInv

LEMMA MergedType ==
  ASSUME NEW delta \in Deltas, NEW other \in Deltas
  PROVE  Merged(delta, other) \in Deltas
BY DEF Deltas, Merged, Delta

LEMMA UpdatedType ==
  ASSUME NEW omega \in Points, NEW delta PROVE UpdatedOmega(omega, delta) \in Points
BY SumIsPoint DEF UpdatedOmega, Points

LEMMA ReadDeltaKeeps ==
  ASSUME RegistryInv, ReadDelta, UNCHANGED issuerVars PROVE RegistryInv'
<1>1. /\ RegistryTypeOK /\ LedgerInv /\ ReaderInv
      /\ seen' = seen + 1 /\ witness' = witness /\ seen < Len(ledger)
  BY DEF RegistryInv, ReadDelta
<1>2. /\ LedgerInv' /\ ledger' = ledger
      /\ \A n : Members(n)' = Members(n) /\ Intact(n)' = Intact(n)
  BY LedgerRests
<1>3. /\ Len(ledger) \in Nat \ {0} /\ DOMAIN ledger = 1 .. Len(ledger)
      /\ seen \in Nat /\ seen + 1 \in DOMAIN ledger
      /\ ledger[seen + 1] \in Deltas
  BY <1>1, LedgerType
<1>4. Base' = Base /\ Base \in Nat \ {0}
  <2>1. witness.at \in Nat
    BY <1>1, LedgerType
  <2>. QED
    BY <1>1, <2>1 DEF Base, ReaderInv
<1> DEFINE other == ledger[seen + 1]
<1>5. \/ pending = NoDelta /\ pending' = other
      \/ pending # NoDelta /\ pending' = Merged(pending, other)
  BY DEF ReadDelta
<1>6. pending' \in Deltas
  BY <1>1, <1>3, <1>5, MergedType DEF RegistryTypeOK
<1>7. RegistryTypeOK'
  <2>1. UNCHANGED <<issuanceByDefault, accum, status, ledger, lost>>
    BY DEF issuerVars
  <2>2. seen + 1 \in 0 .. Len(ledger)
    BY <1>3
  <2>. QED
    BY <1>1, <1>6, <2>1, <2>2 DEF RegistryTypeOK
<1>8. seen + 1 >= Base
  <2>1. CASE pending = NoDelta
    BY <1>1, <1>3, <2>1 DEF ReaderInv, Base, NoWitness
  <2>2. CASE pending # NoDelta
    BY <1>1, <1>3, <1>4, <2>2 DEF ReaderInv
  <2>. QED
    BY <2>1, <2>2
<1>9. ASSUME Intact(seen + 1)
      PROVE  /\ pending'.accum = ledger[seen + 1].accum
             /\ pending'.issued = Members(seen + 1) \ Members(Base)
             /\ pending'.revoked = Members(Base) \ Members(seen + 1)
  <2>1. ASSUME seen >= 1
        PROVE  /\ other.issued = Members(seen + 1) \ Members(seen)
               /\ other.revoked = Members(seen) \ Members(seen + 1)
    <3>1. seen + 1 \in 2 .. Len(ledger) /\ (seen + 1) - 1 = seen
      BY <1>3, <2>1
    <3>. QED
      BY <1>1, <1>9, <3>1 DEF LedgerInv
  <2>2. Intact(seen)
    BY <1>3, <1>9, IntactBefore
  <2>3. CASE pending = NoDelta
    <3>1. seen = witness.at /\ pending' = other
      BY <1>1, <1>5, <2>3 DEF ReaderInv
    <3>2. CASE witness = NoWitness
      <4>1. Base = 1 /\ seen = 0
        BY <3>1, <3>2 DEF Base, NoWitness
      <4>. QED
        BY <1>1, <3>1, <4>1 DEF LedgerInv
    <3>3. CASE witness # NoWitness
      <4>1. Base = seen /\ seen >= 1
        BY <1>1, <3>1, <3>3 DEF Base, ReaderInv
      <4>. QED
        BY <2>1, <3>1, <4>1
    <3>. QED
      BY <3>2, <3>3
  <2>4. CASE pending # NoDelta
    <3>1. seen >= Base /\ seen >= 1
      BY <1>1, <1>3, <1>4, <2>4 DEF ReaderInv
    <3>2. /\ pending.issued = Members(seen) \ Members(Base)
          /\ pending.revoked = Members(Base) \ Members(seen)
      BY <1>1, <2>2, <2>4 DEF ReaderInv, MergeIsComposition
    <3>3. pending' = Merged(pending, other)
      BY <1>5, <2>4
    <3>4. /\ other.issued = Members(seen + 1) \ Members(seen)
          /\ other.revoked = Members(seen) \ Members(seen + 1)
      BY <2>1, <3>1
    <3> HIDE DEF other
    <3>5. /\ Merged(pending, other).issued = Members(seen + 1) \ Members(Base)
          /\ Merged(pending, other).revoked = Members(Base) \ Members(seen + 1)
          /\ Merged(pending, other).accum = other.accum
      <4> DEFINE B == Members(Base)
                 S == Members(seen)
                 N == Members(seen + 1)
      <4> HIDE DEF B, S, N
      <4>1. pending.issued = S \ B /\ pending.revoked = B \ S
        BY <3>2 DEF B, S
      <4>2. other.issued = N \ S /\ other.revoked = S \ N
        BY <3>4 DEF S, N
      <4>3. /\ Merged(pending, other).issued = N \ B
            /\ Merged(pending, other).revoked = B \ N
            /\ Merged(pending, other).accum = other.accum
        BY <4>1, <4>2 DEF Merged, Delta
      <4>. QED
        BY <4>3 DEF B, N
    <3>. QED
      BY <3>3, <3>5 DEF other
  <2>. QED
    BY <2>3, <2>4
<1>10. pending' # NoDelta
  BY <1>6, DeltaIsNotAbsent
<1>11. MergeIsComposition'
  BY <1>1, <1>2, <1>4, <1>9 DEF MergeIsComposition
<1>12. WitnessTracks'
  BY <1>1, <1>2 DEF WitnessTracks, ReaderInv
<1>13. ReaderInv'
  BY <1>1, <1>4, <1>8, <1>10, <1>11, <1>12 DEF ReaderInv
<1>. QED
  BY <1>2, <1>7, <1>13 DEF RegistryInv

(* A witness that takes up the pending delta.                                *)
LEMMA WitnessKeeps ==
  ASSUME RegistryInv, UNCHANGED issuerVars, NEW omega \in Points,
         pending # NoDelta,
         witness' = [omega |-> omega, at |-> seen], pending' = NoDelta, UNCHANGED seen,
         Intact(seen) => omega = Sum(Members(seen) \ {Me}, Me)
  PROVE  RegistryInv'
<1>1. RegistryTypeOK /\ LedgerInv /\ ReaderInv
  BY DEF RegistryInv
<1>2. /\ LedgerInv' /\ ledger' = ledger
      /\ \A n : Members(n)' = Members(n) /\ Intact(n)' = Intact(n)
  BY LedgerRests
<1>3. seen \in 0 .. Len(ledger) /\ seen >= 1
  <2>1. Base >= 1 /\ Base \in Nat
    <3>1. witness.at \in Nat
      BY <1>1, LedgerType
    <3>. QED
      BY <1>1, <3>1 DEF Base, ReaderInv
  <2>2. seen \in Nat /\ seen <= Len(ledger) /\ Len(ledger) \in Nat
    BY <1>1, LedgerType
  <2>. QED
    BY <1>1, <2>1, <2>2 DEF ReaderInv
<1>4. RegistryTypeOK'
  <2>1. UNCHANGED <<issuanceByDefault, accum, status, ledger, lost>>
    BY DEF issuerVars
  <2>. QED
    BY <1>1, <1>3, <2>1 DEF RegistryTypeOK
<1>5. WitnessTracks'
  BY <1>2 DEF WitnessTracks
<1>6. MergeIsComposition'
  BY DEF MergeIsComposition
<1>7. ReaderInv'
  BY <1>3, <1>5, <1>6 DEF ReaderInv
<1>. QED
  BY <1>2, <1>4, <1>7 DEF RegistryInv

LEMMA NewWitnessKeeps ==
  ASSUME RegistryInv, NewWitness, UNCHANGED issuerVars
  PROVE  /\ RegistryInv'
         /\ Intact(seen) => witness'.omega = Sum(Members(seen) \ {Me}, Me)
<1>1. RegistryTypeOK /\ LedgerInv /\ ReaderInv
  BY DEF RegistryInv
<1> DEFINE omega == NewOmega(pending)
<1>2. /\ witness = NoWitness /\ pending # NoDelta
      /\ witness' = [omega |-> omega, at |-> seen] /\ pending' = NoDelta /\ UNCHANGED seen
  BY DEF NewWitness
<1>3. ASSUME Intact(seen) PROVE omega = Sum(Members(seen) \ {Me}, Me)
  <2>1. /\ pending.issued = Members(seen) \ Members(1)
        /\ pending.revoked = Members(1) \ Members(seen)
    BY <1>1, <1>2, <1>3 DEF ReaderInv, MergeIsComposition, Base
  <2>2. Members(1) = IF issuanceByDefault THEN Indices ELSE {}
    BY <1>1, SumShows DEF LedgerInv, Members
  <2>3. Members(seen) \in SUBSET Indices
    BY MembersAreIndices
  <2>4. (IF issuanceByDefault THEN Indices \ pending.revoked ELSE pending.issued)
          = Members(seen)
    BY <2>1, <2>2, <2>3
  <2>. QED
    BY <2>4 DEF NewOmega
<1>4. omega \in Points
  BY SumIsPoint DEF NewOmega
<1> HIDE DEF omega
<1>5. RegistryInv'
  BY <1>2, <1>3, <1>4, WitnessKeeps
<1>. QED
  BY <1>2, <1>3, <1>5

LEMMA UpdateWitnessKeeps ==
  ASSUME RegistryInv, UpdateWitness, UNCHANGED issuerVars
  PROVE  /\ RegistryInv'
         /\ Intact(seen) => witness'.omega = Sum(Members(seen) \ {Me}, Me)
<1>1. RegistryTypeOK /\ LedgerInv /\ ReaderInv
  BY DEF RegistryInv
<1> DEFINE omega == UpdatedOmega(witness.omega, pending)
<1>2. /\ witness # NoWitness /\ pending # NoDelta
      /\ witness' = [omega |-> omega, at |-> seen] /\ pending' = NoDelta /\ UNCHANGED seen
  BY DEF UpdateWitness
<1>3. ASSUME Intact(seen) PROVE omega = Sum(Members(seen) \ {Me}, Me)
  <2> DEFINE B == Members(witness.at)
             N == Members(seen)
  <2>1. pending.issued = N \ B /\ pending.revoked = B \ N
    BY <1>1, <1>2, <1>3 DEF ReaderInv, MergeIsComposition, Base
  <2>2. witness.omega = Sum(B \ {Me}, Me)
    <3>1. seen \in Nat /\ witness.at \in Nat /\ witness.at <= seen
      BY <1>1, <1>2, LedgerType DEF ReaderInv, Base
    <3>2. Intact(witness.at)
      BY <1>3, <3>1, IntactBefore
    <3>. QED
      BY <1>1, <1>2, <3>2 DEF ReaderInv, WitnessTracks
  <2>3. B \in SUBSET Indices /\ N \in SUBSET Indices
    BY MembersAreIndices
  <2> HIDE DEF B, N
  <2>4. omega = UpdatedOmega(Sum(B \ {Me}, Me), pending)
    BY <2>2
  <2> HIDE DEF omega
  <2>5. UpdatedOmega(Sum(B \ {Me}, Me), pending) = Sum(N \ {Me}, Me)
    BY <2>1, <2>3, UpdateSum
  <2>. QED
    BY <2>4, <2>5 DEF N
<1>4. omega \in Points
  BY <1>1, UpdatedType DEF RegistryTypeOK
<1> HIDE DEF omega
<1>5. RegistryInv'
  BY <1>2, <1>3, <1>4, WitnessKeeps
<1>. QED
  BY <1>2, <1>3, <1>5

-----------------------------------------------------------------------------
LEMMA InitHolds == Init => RegistryInv
<1> SUFFICES ASSUME Init PROVE RegistryInv
  OBVIOUS
<1> DEFINE first == Delta(NoPoint, accum, {}, {})
           initial == IF issuanceByDefault THEN Indices ELSE {}
<1>1. accum = Sum(initial, 0) /\ initial \in SUBSET Indices
  <2>1. Sum({}, 0) = Infinity
    BY DEF Sum, Infinity
  <2>. QED
    BY <2>1 DEF Init, NewAccum
<1>2. accum \in Points
  BY <1>1, SumIsPoint
<1>3. first \in Deltas /\ first.accum = accum /\ first.issued = {} /\ first.revoked = {}
  BY <1>2 DEF Deltas, Delta
<1>4. /\ ledger = <<first>> /\ Len(ledger) = 1 /\ DOMAIN ledger = 1 .. 1
      /\ ledger[1] = first /\ ledger \in Seq(Deltas)
  BY <1>3 DEF Init
<1> HIDE DEF first
<1>5. Infinity \in Points
  BY DEF Infinity, Points
<1>6. RegistryTypeOK
  BY <1>2, <1>4, <1>5, BoundsAssumption DEF Init, RegistryTypeOK, NoWitness
<1>7. Members(1) = initial
  BY <1>1, <1>3, <1>4, SumShows DEF Members
<1>8. Believed = initial
  BY DEF Init, Believed
<1>9. LedgerInv
  <2>1. Intact(1)
    BY DEF Intact
  <2>2. \A n \in DOMAIN ledger : n = 1
    BY <1>4
  <2>3. \A n \in 2 .. Len(ledger) : FALSE
    BY <1>4
  <2>. QED
    BY <1>1, <1>3, <1>4, <1>7, <1>8, <2>1, <2>2, <2>3 DEF LedgerInv, Last, Init
<1>10. ReaderInv
  BY DEF Init, ReaderInv, MergeIsComposition, WitnessTracks, NoWitness
<1>. QED
  BY <1>6, <1>9, <1>10 DEF RegistryInv

LEMMA NextKeeps == RegistryInv /\ [Next]_registryVars => RegistryInv'
<1> SUFFICES ASSUME RegistryInv, [Next]_registryVars PROVE RegistryInv'
  OBVIOUS
<1>1. CASE IssuerNext /\ UNCHANGED readerVars
  BY <1>1, IssuerKeeps DEF IssuerNext
<1>2. CASE ReaderNext /\ UNCHANGED issuerVars
  BY <1>2, ReadDeltaKeeps, NewWitnessKeeps, UpdateWitnessKeeps DEF ReaderNext
<1>3. CASE UNCHANGED registryVars
  <2>1. UNCHANGED issuerVars /\ UNCHANGED readerVars
    BY <1>3 DEF registryVars, issuerVars, readerVars
  <2>2. LedgerInv'
    BY <2>1, LedgerRests
  <2>3. ReaderInv'
    BY <2>1, ReaderUndisturbed DEF issuerVars
  <2>4. RegistryTypeOK'
    BY <2>1 DEF RegistryInv, RegistryTypeOK, issuerVars, readerVars
  <2>. QED
    BY <2>2, <2>3, <2>4 DEF RegistryInv
<1>. QED
  BY <1>1, <1>2, <1>3 DEF Next

(* The inductive invariant: every published change is one credential's, and *)
(* the holder's delta and witness are what the ledger up to seen says.       *)
THEOREM InvHolds == Spec => []RegistryInv
BY InitHolds, NextKeeps, PTL DEF Spec

(* Accumulator, ledger, delta and witness keep their types.                  *)
THEOREM TypeCorrect == Spec => []RegistryTypeOK
BY InvHolds, PTL DEF RegistryInv

LEMMA AccumulatorFollows == RegistryInv => AccumulatorMatchesStatus
BY DEF RegistryInv, LedgerInv, AccumulatorMatchesStatus

(* As long as no delta was lost, the accumulator is the sum of the tails of  *)
(* the credentials the issuer's application believes to be in it.            *)
THEOREM AccumulatorHolds == Spec => []AccumulatorMatchesStatus
BY InvHolds, AccumulatorFollows, PTL

(* Merging is composition: the pending delta is the difference between the   *)
(* memberships at its two ends.                                              *)
THEOREM MergeHolds == Spec => []MergeIsComposition
BY InvHolds, PTL DEF RegistryInv, ReaderInv

(* A witness updated by merged deltas is the witness made from scratch.      *)
THEOREM WitnessHolds == Spec => []WitnessTracks
BY InvHolds, PTL DEF RegistryInv, ReaderInv

LEMMA ShowsFollows == RegistryInv => WitnessShowsMembership
<1> SUFFICES ASSUME RegistryInv, NEW k \in DOMAIN ledger,
                    witness # NoWitness, Intact(k), Intact(witness.at)
             PROVE  WitnessTests(witness.omega, ledger[k].accum)
                      <=> /\ Me \in Members(k)
                          /\ Members(witness.at) \ {Me} = Members(k) \ {Me}
  BY DEF WitnessShowsMembership
<1> DEFINE K == Members(k)
           W == Members(witness.at) \ {Me}
<1>1. ledger[k].accum = Sum(K, 0)
  BY DEF RegistryInv, LedgerInv
<1>2. witness.omega = Sum(W, Me)
  BY DEF RegistryInv, ReaderInv, WitnessTracks
<1>3. K \in SUBSET Indices /\ W \in SUBSET (Indices \ {Me})
  BY MembersAreIndices
<1> HIDE DEF K, W
<1>4. WitnessTests(Sum(W, Me), Sum(K, 0)) <=> Me \in K /\ W = K \ {Me}
  BY <1>3, PairingShows
<1>. QED
  BY <1>1, <1>2, <1>4 DEF K, W

(* The pairing equation holds exactly for members whose witness is current.  *)
THEOREM ShowsHolds == Spec => []WitnessShowsMembership
BY InvHolds, ShowsFollows, PTL

-----------------------------------------------------------------------------
(* The refinement.  A change whose delta is lost ends the promise; until     *)
(* then the accumulator and the witness show the sets they stand for.        *)
LEMMA KnownShows ==
  ASSUME NEW W \in SUBSET (Indices \ {Me})
  PROVE  {j \in Indices \ {Me} : Sum(W, Me)[Index(j) + Me] = 1} = W
<1>1. ASSUME NEW j \in Indices \ {Me}
      PROVE  Sum(W, Me)[Index(j) + Me] = IF j \in W THEN 1 ELSE 0
  <2>1. Index(j) + Me \in Tails /\ Index((Index(j) + Me) - Me) = j
    BY <1>1 DEF Index, Indices, Tails
  <2>. QED
    BY <2>1 DEF Sum
<1>. QED
  BY <1>1

(* A sequence with one more element is the function its elements make.       *)
LEMMA AppendIsFunction ==
  ASSUME NEW S, NEW s \in Seq(S), NEW e \in S
  PROVE  Append(s, e) = [n \in 1 .. Len(s) + 1 |-> Append(s, e)[n]]
<1>1. Append(s, e) \in Seq(S) /\ Len(Append(s, e)) = Len(s) + 1
  BY AppendProperties
<1> DEFINE new == Append(s, e)
<1>2. new \in [1 .. Len(new) -> S]
  BY <1>1, LenProperties
<1>. QED
  BY <1>1, <1>2, Zenon

(* Nothing the abstraction sees changes.                                     *)
LEMMA NothingSeen ==
  ASSUME UNCHANGED <<accum, ledger, lost, witness>> PROVE UNCHANGED Abstract!vars
<1>1. \A k : Members(k)' = Members(k)
  BY DEF Members
<1>. QED
  BY <1>1 DEF Abstract!vars

LEMMA InitMaps == Init => Abstract!Init
<1> SUFFICES ASSUME Init PROVE Abstract!Init
  OBVIOUS
<1>1. /\ Len(ledger) = 1 /\ ledger[1].accum = accum /\ lost = 0 /\ witness = NoWitness
  BY DEF Init, Delta
<1>2. [k \in 1 .. Len(ledger) |-> Members(k)] = <<{i \in Indices : accum[Index(i)] = 1}>>
  BY <1>1 DEF Members
<1>3. {j \in Indices \ {Me} : witness.omega[Index(j) + Me] = 1} = {}
  <2>1. \A j \in Indices : Index(j) + Me \in Tails
    BY DEF Index, Indices, Tails
  <2>. QED
    BY <1>1, <2>1 DEF NoWitness, Infinity
<1>. QED
  BY <1>1, <1>2, <1>3 DEF Abstract!Init, NoWitness

LEMMA ChangedMaps ==
  ASSUME RegistryInv, RegistryInv', NEW i \in Indices,
         NEW new, NEW issued, NEW revoked, NEW becomes,
         Changed(i, new, issued, revoked, becomes),
         \/ becomes = "valid" /\ i \notin Believed
         \/ becomes = "revoked" /\ i \in Believed,
         UNCHANGED readerVars
  PROVE  Abstract!Next
<1>1. lost \in Nat
  BY DEF RegistryInv, RegistryTypeOK
<1>2. CASE lost' # 0
  BY <1>2 DEF Abstract!Next, Abstract!Lapse
<1>3. CASE lost' = 0
  <2> DEFINE delta == Delta(accum, new, issued, revoked)
  <2>1. /\ ledger' = Append(ledger, delta) /\ lost = 0 /\ lost' = lost
        /\ status' = [status EXCEPT ![i] = becomes]
        /\ accum' = new /\ issuanceByDefault' = issuanceByDefault /\ witness' = witness
    BY <1>1, <1>3 DEF Changed, Publish, readerVars
  <2>2. accum = Sum(Believed, 0) /\ accum' = Sum(Believed', 0)
    BY <1>3, <2>1 DEF RegistryInv, LedgerInv
  <2>3. Believed' = IF becomes = "valid" THEN Believed \cup {i} ELSE Believed \ {i}
    BY <2>1 DEF Believed, RegistryInv, RegistryTypeOK
  <2>4. /\ {j \in Indices : accum[Index(j)] = 1} = Believed
        /\ {j \in Indices : accum'[Index(j)] = 1} = Believed'
    <3>1. Believed \in SUBSET Indices /\ Believed' \in SUBSET Indices
      BY <2>3, BelievedAreIndices
    <3>. QED
      BY <2>2, <3>1, SumShows
  <2>5. Believed' = IF i \in Believed THEN Believed \ {i} ELSE Believed \cup {i}
    BY <2>3
  <2>6. delta \in Deltas /\ delta.accum = accum'
    <3>1. accum \in Points /\ accum' \in Points
      BY DEF RegistryInv, RegistryTypeOK
    <3>2. issued \in SUBSET Indices /\ revoked \in SUBSET Indices
      <4>1. ledger' \in Seq(Deltas)
        BY DEF RegistryInv, RegistryTypeOK
      <4>2. ledger \in Seq(Deltas)
        BY DEF RegistryInv, RegistryTypeOK
      <4>3. delta \in Deltas
        BY <2>1, <4>1, <4>2
      <4>. QED
        BY <4>3 DEF Deltas, Delta
    <3>. QED
      BY <2>1, <3>1, <3>2 DEF Deltas, Delta
  <2> HIDE DEF delta
  <2>7. PICK k \in Nat \ {0} : k = Len(ledger)
    BY LedgerType DEF RegistryInv
  <2>8. /\ Len(ledger') = k + 1
        /\ ledger'[k + 1] = delta
        /\ \A n \in 1 .. k : Members(n)' = Members(n)
    BY <2>1, <2>6, <2>7, LedgerGrows, LedgerType DEF RegistryInv
  <2>9. Members(k + 1)' = Believed'
    BY <2>4, <2>6, <2>8 DEF Members
  <2>10. [n \in 1 .. k + 1 |-> Members(n)']
           = Append([n \in 1 .. k |-> Members(n)], Believed')
    <3> DEFINE old == [n \in 1 .. k |-> Members(n)]
    <3>1. old \in Seq(SUBSET Indices) /\ Len(old) = k
      BY MembersAreIndices
    <3>2. \A n \in 1 .. k + 1 : Append(old, Believed')[n] = Members(n)'
      <4> TAKE n \in 1 .. k + 1
      <4>1. CASE n = k + 1
        BY <2>9, <3>1, <4>1
      <4>2. CASE n \in 1 .. k
        BY <2>8, <3>1, <4>2
      <4>. QED
        BY <4>1, <4>2
    <3>3. Believed' \in SUBSET Indices
      BY <2>3, BelievedAreIndices
    <3> HIDE DEF old
    <3>4. Append(old, Believed') = [n \in 1 .. k + 1 |-> Append(old, Believed')[n]]
      BY <3>1, <3>3, AppendIsFunction
    <3>. QED
      BY <3>2, <3>4 DEF old
  <2>11. Abstract!Publish(i)
    BY <2>1, <2>4, <2>5, <2>7, <2>8, <2>10 DEF Abstract!Publish
  <2>. QED
    BY <2>11 DEF Abstract!Next
<1>. QED
  BY <1>2, <1>3

LEMMA IssuerMaps ==
  ASSUME RegistryInv, RegistryInv', IssuerNext, UNCHANGED readerVars
  PROVE  [Abstract!Next]_Abstract!vars
<1>1. PICK i \in Indices : Sign(i) \/ Revoke(i) \/ Recover(i)
  BY DEF IssuerNext
<1>2. CASE SignOnDemand(i)
  BY <1>2, ChangedMaps DEF SignOnDemand, Believed
<1>3. CASE SignByDefault(i)
  BY <1>3, NothingSeen DEF SignByDefault, readerVars
<1>4. CASE Revoke(i)
  BY <1>4, ChangedMaps DEF Revoke, Believed
<1>5. CASE Recover(i)
  BY <1>5, ChangedMaps DEF Recover, Believed
<1>. QED
  BY <1>1, <1>2, <1>3, <1>4, <1>5 DEF Sign

LEMMA ReaderMaps ==
  ASSUME RegistryInv, ReaderNext, UNCHANGED issuerVars
  PROVE  [Abstract!Next]_Abstract!vars
<1>1. CASE ReadDelta
  BY <1>1, NothingSeen DEF ReadDelta, issuerVars
<1>2. ASSUME NewWitness \/ UpdateWitness PROVE Abstract!Next
  <2>1. CASE lost # 0
    BY <2>1 DEF Abstract!Next, Abstract!Lapse, issuerVars
  <2>2. CASE lost = 0
    <3>1. /\ witness'.at = seen /\ pending # NoDelta
          /\ UNCHANGED <<accum, ledger, lost>>
      BY <1>2 DEF NewWitness, UpdateWitness, issuerVars
    <3>2. /\ seen \in 1 .. Len(ledger) /\ seen >= witness.at
      <4>1. /\ seen \in Nat /\ witness.at \in Nat
            /\ seen <= Len(ledger) /\ Len(ledger) \in Nat
        BY LedgerType DEF RegistryInv
      <4>2. seen >= Base /\ (witness # NoWitness => witness.at >= 1)
        BY <3>1 DEF RegistryInv, ReaderInv
      <4>. QED
        BY <4>1, <4>2 DEF Base, NoWitness
    <3>3. Intact(seen)
      BY <2>2, <3>2, IntactBefore, LedgerType DEF RegistryInv, LedgerInv
    <3>4. witness'.omega = Sum(Members(seen) \ {Me}, Me)
      BY <1>2, <3>3, NewWitnessKeeps, UpdateWitnessKeeps
    <3>5. {j \in Indices \ {Me} : witness'.omega[Index(j) + Me] = 1} = Members(seen) \ {Me}
      <4>1. Members(seen) \ {Me} \in SUBSET (Indices \ {Me})
        BY MembersAreIndices
      <4>. QED
        BY <3>4, <4>1, KnownShows
    <3>6. \A n : Members(n)' = Members(n)
      BY <3>1 DEF Members
    <3>7. Abstract!Learn(seen)
      BY <3>1, <3>2, <3>5, <3>6 DEF Abstract!Learn
    <3>. QED
      BY <3>2, <3>7 DEF Abstract!Next
  <2>. QED
    BY <2>1, <2>2
<1>. QED
  BY <1>1, <1>2 DEF ReaderNext

LEMMA NextMaps ==
  RegistryInv /\ RegistryInv' /\ [Next]_registryVars => [Abstract!Next]_Abstract!vars
<1> SUFFICES ASSUME RegistryInv, RegistryInv', [Next]_registryVars
             PROVE  [Abstract!Next]_Abstract!vars
  OBVIOUS
<1>1. CASE UNCHANGED registryVars
  BY <1>1, NothingSeen DEF registryVars
<1>. QED
  BY <1>1, IssuerMaps, ReaderMaps DEF Next

(* The accumulator, the ledger and the witness implement a published set of  *)
(* members and a holder who knows it, until a delta is lost.                 *)
THEOREM Implements == Spec => ImplementsLog
BY InitMaps, NextMaps, InvHolds, PTL DEF Spec, ImplementsLog, Abstract!Spec
=============================================================================
