-------------------------- MODULE Marketplace_proofs --------------------------
(* Theorems about Marketplace, for every number of assets and every choice *)
(* of sends that fail.                                                     *)
EXTENDS Marketplace, TLAPS

-----------------------------------------------------------------------------
(* A list that loop "loop" fills, as it is in iteration i of loop s: its   *)
(* entries are the ids that loop gave, in the order it gave them.          *)
Filled(list, loop, op, by, s, i) ==
    /\ list \in Seq(Ids)
    /\ \A k \in 1..Len(list) : list[k].op = op /\ list[k].by = by
    /\ \A j, k \in 1..Len(list) : j < k => list[j].n < list[k].n
    /\ s < loop => Len(list) = 0
    /\ s = loop => Len(list) < i /\ \A k \in 1..Len(list) : list[k].n < i

(* The next iteration: of the same loop, or the first of the next one.     *)
Follows(s, i, s2, i2) == (s2 = s /\ i2 = i + 1) \/ (s2 = s + 1 /\ i2 = 1)

(* Every entry of such a list is an id, with the number of an iteration.   *)
LEMMA FilledEntries ==
    ASSUME NEW list, NEW loop, NEW op, NEW by, NEW s, NEW i,
           Filled(list, loop, op, by, s, i)
    PROVE  /\ list \in Seq(Ids) /\ Len(list) \in Nat
           /\ \A k \in 1..Len(list) : list[k] \in Ids /\ list[k].n \in 1..ValidAssetCount
  <1>1. list \in Seq(Ids) /\ Len(list) \in Nat
    BY DEF Filled
  <1>2. ASSUME NEW k \in 1..Len(list) PROVE list[k] \in Ids
    BY <1>1
  <1>3. ASSUME NEW id \in Ids PROVE id.n \in 1..ValidAssetCount
    BY DEF Ids
  <1> QED
    BY <1>1, <1>2, <1>3

LEMMA FilledAdvances ==
    ASSUME NEW list, NEW loop \in Nat, NEW op, NEW by,
           NEW s \in Nat, NEW i \in Nat, NEW s2 \in Nat, NEW i2 \in Nat,
           Filled(list, loop, op, by, s, i), Follows(s, i, s2, i2)
    PROVE  Filled(list, loop, op, by, s2, i2)
  <1>3. /\ Len(list) \in Nat
        /\ \A k \in 1..Len(list) : list[k].n \in 1..ValidAssetCount
    BY FilledEntries
  <1>1. CASE s2 = s /\ i2 = i + 1
    <2>1. \A k \in 1..Len(list) : list[k].n < i => list[k].n < i2
      BY <1>1, <1>3, CountAssumption
    <2> QED
      BY <1>1, <1>3, <2>1 DEF Filled
  <1>2. CASE s2 = s + 1 /\ i2 = 1
    BY <1>2, <1>3 DEF Filled
  <1> QED
    BY <1>1, <1>2 DEF Follows

LEMMA FilledAppends ==
    ASSUME NEW list, NEW op \in Operations, NEW by \in Parties,
           NEW s \in Nat, NEW i \in 1..ValidAssetCount, NEW s2 \in Nat, NEW i2 \in Nat,
           Filled(list, s, op, by, s, i), Follows(s, i, s2, i2)
    PROVE  Filled(Append(list, [op |-> op, by |-> by, n |-> i]), s, op, by, s2, i2)
  <1> DEFINE x == [op |-> op, by |-> by, n |-> i]
             longer == Append(list, x)
  <1>1. x \in Ids /\ x.op = op /\ x.by = by /\ x.n = i
    BY DEF Ids
  <1>2. longer \in Seq(Ids) /\ Len(longer) = Len(list) + 1
    BY <1>1 DEF Filled
  <1>3. \A k \in 1..Len(longer) : longer[k] = IF k <= Len(list) THEN list[k] ELSE x
    BY <1>2 DEF Filled
  <1>4. Len(list) < i /\ Len(list) \in Nat
    BY DEF Filled
  <1>5. \A k \in 1..Len(longer) : longer[k].op = op /\ longer[k].by = by /\ longer[k].n < i + 1
    <2>1. \A k \in 1..Len(list) : list[k].n \in 1..ValidAssetCount /\ list[k].n < i
      BY FilledEntries DEF Filled
    <2> HIDE DEF x, longer
    <2>2. ASSUME NEW k \in 1..Len(longer), k <= Len(list)
          PROVE  longer[k].op = op /\ longer[k].by = by /\ longer[k].n < i + 1
      <3>1. longer[k] = list[k] /\ k \in 1..Len(list)
        BY <1>2, <1>3, <1>4, <2>2
      <3> QED
        BY <2>1, <3>1, CountAssumption DEF Filled
    <2>3. ASSUME NEW k \in 1..Len(longer), ~(k <= Len(list))
          PROVE  longer[k].op = op /\ longer[k].by = by /\ longer[k].n < i + 1
      BY <1>1, <1>3, <2>3
    <2> QED
      BY <2>2, <2>3
  <1>6. \A j, k \in 1..Len(longer) : j < k => longer[j].n < longer[k].n
    BY <1>1, <1>2, <1>3, <1>4 DEF Filled
  <1>7. s2 = s => i2 = i + 1
    BY DEF Follows
  <1>8. ~(s2 < s)
    BY DEF Follows
  <1> HIDE DEF x, longer
  <1> QED
    BY <1>2, <1>4, <1>5, <1>6, <1>7, <1>8 DEF Filled, x, longer

-----------------------------------------------------------------------------
Lists ==
    /\ Filled(sellerCreateIds, 1, "CREATE", "seller", step, index)
    /\ Filled(buyerCreateIds, 2, "CREATE", "buyer", step, index)
    /\ Filled(advIds, 3, "ADV", "seller", step, index)
    /\ Filled(buyOfferIds, 4, "BUYOFFER", "buyer", step, index)
    /\ Filled(sellIds, 5, "SELL", "seller", step, index)

Control ==
    /\ step \in 1..7
    /\ index \in 1..ValidAssetCount
    /\ stage \in {"start", "return", "returned"}
    /\ missed \in BOOLEAN

(* Advancing moves to the following iteration and stays in range.          *)
LEMMA AdvanceFollows ==
    ASSUME Control, Advance, step <= 6
    PROVE  /\ Follows(step, index, step', index')
           /\ step' \in 1..7 /\ index' \in 1..ValidAssetCount /\ stage' = "start"
  <1>1. Count(step) \in Nat /\ Count(step) <= ValidAssetCount
    BY CountAssumption DEF Count, ReturnCount
  <1> QED
    BY <1>1, CountAssumption DEF Control, Advance, Follows

(* The lists and the control state keep their shape.                       *)
LEMMA StepLists ==
    ASSUME Control, Lists, [Next]_vars
    PROVE  Control' /\ Lists'
  <1> USE DEF ids, Send, Miss
  <1>1. ASSUME UNCHANGED <<step, index, ids>>, stage' \in {"start", "return", "returned"},
               missed' \in BOOLEAN
        PROVE  Control' /\ Lists'
    BY <1>1 DEF Control, Lists
  <1>2. ASSUME Advance, step <= 6, UNCHANGED ids, missed' \in BOOLEAN
        PROVE  Control' /\ Lists'
    <2>1. /\ Follows(step, index, step', index')
          /\ step \in Nat /\ index \in Nat /\ step' \in Nat /\ index' \in Nat
      BY <1>2, AdvanceFollows DEF Control
    <2>2. Lists'
      BY <1>2, <2>1, FilledAdvances DEF Lists
    <2> QED
      BY <1>2, <2>2, AdvanceFollows DEF Control
  <1>3. ASSUME Advance, step \in 1..5, UNCHANGED missed,
               /\ sellerCreateIds' = IF step = 1 THEN Append(sellerCreateIds, Id("CREATE", "seller"))
                                                 ELSE sellerCreateIds
               /\ buyerCreateIds' = IF step = 2 THEN Append(buyerCreateIds, Id("CREATE", "buyer"))
                                                ELSE buyerCreateIds
               /\ advIds' = IF step = 3 THEN Append(advIds, Id("ADV", "seller")) ELSE advIds
               /\ buyOfferIds' = IF step = 4 THEN Append(buyOfferIds, Id("BUYOFFER", "buyer"))
                                             ELSE buyOfferIds
               /\ sellIds' = IF step = 5 THEN Append(sellIds, Id("SELL", "seller")) ELSE sellIds
        PROVE  Control' /\ Lists'
    <2>1. /\ Follows(step, index, step', index')
          /\ step \in Nat /\ index \in 1..ValidAssetCount /\ index \in Nat
          /\ step' \in Nat /\ index' \in Nat
      BY <1>3, AdvanceFollows, CountAssumption DEF Control
    <2>2. Filled(sellerCreateIds, 1, "CREATE", "seller", step, index)'
      BY <1>3, <2>1, FilledAdvances, FilledAppends DEF Lists, Id, Operations, Parties
    <2>3. Filled(buyerCreateIds, 2, "CREATE", "buyer", step, index)'
      BY <1>3, <2>1, FilledAdvances, FilledAppends DEF Lists, Id, Operations, Parties
    <2>4. Filled(advIds, 3, "ADV", "seller", step, index)'
      BY <1>3, <2>1, FilledAdvances, FilledAppends DEF Lists, Id, Operations, Parties
    <2>5. Filled(buyOfferIds, 4, "BUYOFFER", "buyer", step, index)'
      BY <1>3, <2>1, FilledAdvances, FilledAppends DEF Lists, Id, Operations, Parties
    <2>6. Filled(sellIds, 5, "SELL", "seller", step, index)'
      BY <1>3, <2>1, FilledAdvances, FilledAppends DEF Lists, Id, Operations, Parties
    <2>7. Control'
      BY <1>3, AdvanceFollows DEF Control
    <2> QED
      BY <2>2, <2>3, <2>4, <2>5, <2>6, <2>7 DEF Lists
  <1>4. CASE UNCHANGED vars
    BY <1>1, <1>4 DEF vars, Control
  <1>5. CASE Skip \/ TimeOut \/ NoSaleTransfer \/ NoReturnTransfer \/ AcceptReturn
    <2>1. Advance /\ UNCHANGED ids
      BY <1>5 DEF Skip, TimeOut, NoSaleTransfer, NoReturnTransfer, AcceptReturn
    <2>2. step <= 6
      BY <1>5 DEF Skip, TimeOut, NoSaleTransfer, NoReturnTransfer, AcceptReturn
    <2>3. missed' = missed \/ missed' = TRUE
      BY <1>5 DEF Skip, TimeOut, NoSaleTransfer, NoReturnTransfer, AcceptReturn
    <2> QED
      BY <1>2, <2>1, <2>2, <2>3 DEF Control
  <1>6. CASE SaleTransfer \/ ReturnSell
    BY <1>1, <1>6 DEF SaleTransfer, ReturnSell, Control
  <1>7. CASE CreateSellerAsset \/ CreateBuyerAsset \/ CreateAdv \/ CreateBuyOffer \/ CreateSell
    BY <1>3, <1>7 DEF CreateSellerAsset, CreateBuyerAsset, CreateAdv, CreateBuyOffer, CreateSell
  <1> QED
    BY <1>4, <1>5, <1>6, <1>7 DEF Next

LEMMA InitLists == Init => Control /\ Lists
  <1> SUFFICES ASSUME Init PROVE Control /\ Lists
    OBVIOUS
  <1>1. ASSUME NEW loop \in 1..5, NEW op, NEW by PROVE Filled(<<>>, loop, op, by, 1, 1)
    BY DEF Filled
  <1>2. Filled(sellerCreateIds, 1, "CREATE", "seller", step, index)
    BY <1>1 DEF Init
  <1>3. Filled(buyerCreateIds, 2, "CREATE", "buyer", step, index)
    BY <1>1 DEF Init
  <1>4. Filled(advIds, 3, "ADV", "seller", step, index)
    BY <1>1 DEF Init
  <1>5. Filled(buyOfferIds, 4, "BUYOFFER", "buyer", step, index)
    BY <1>1 DEF Init
  <1>6. Filled(sellIds, 5, "SELL", "seller", step, index)
    BY <1>1 DEF Init
  <1>7. Control
    <2>1. step \in 1..7 /\ index \in 1..ValidAssetCount
      BY CountAssumption DEF Init
    <2>2. stage \in {"start", "return", "returned"} /\ missed \in BOOLEAN
      BY Zenon DEF Init
    <2> QED
      BY <2>1, <2>2 DEF Control
  <1> QED
    BY <1>2, <1>3, <1>4, <1>5, <1>6, <1>7 DEF Lists

-----------------------------------------------------------------------------
(* A step leaves a list alone or appends an id to it.                      *)
Grows(list, list2) == list2 = list \/ \E id \in Ids : list2 = Append(list, id)

(* Whatever a position of such a list holds stays there.                   *)
LEMMA GrowsKeeps ==
    ASSUME NEW list \in Seq(Ids), NEW list2, Grows(list, list2), NEW k \in 1..Len(list)
    PROVE  k \in 1..Len(list2) /\ list2[k] = list[k]
  BY DEF Grows

LEMMA ListsAreSequences ==
    ASSUME Lists
    PROVE  /\ sellerCreateIds \in Seq(Ids) /\ buyerCreateIds \in Seq(Ids)
           /\ advIds \in Seq(Ids) /\ buyOfferIds \in Seq(Ids) /\ sellIds \in Seq(Ids)
  BY DEF Lists, Filled

LEMMA NewIds ==
    ASSUME Control, NEW op \in Operations, NEW by \in Parties
    PROVE  Id(op, by) \in Ids
  BY DEF Control, Id, Ids

LEMMA StepGrows ==
    ASSUME Control, [Next]_vars
    PROVE  /\ Grows(sellerCreateIds, sellerCreateIds')
           /\ Grows(buyerCreateIds, buyerCreateIds')
           /\ Grows(advIds, advIds')
           /\ Grows(buyOfferIds, buyOfferIds')
           /\ Grows(sellIds, sellIds')
  <1>1. /\ Id("CREATE", "seller") \in Ids /\ Id("CREATE", "buyer") \in Ids /\ Id("ADV", "seller") \in Ids
        /\ Id("BUYOFFER", "buyer") \in Ids /\ Id("SELL", "seller") \in Ids
    BY NewIds DEF Operations, Parties
  <1>2. sellerCreateIds' = sellerCreateIds \/ sellerCreateIds' = Append(sellerCreateIds, Id("CREATE", "seller"))
    BY DEF Next, vars, ids, Skip, TimeOut, CreateSellerAsset, CreateBuyerAsset, CreateAdv, CreateBuyOffer,
           CreateSell, NoSaleTransfer, SaleTransfer, ReturnSell, NoReturnTransfer, AcceptReturn
  <1>3. buyerCreateIds' = buyerCreateIds \/ buyerCreateIds' = Append(buyerCreateIds, Id("CREATE", "buyer"))
    BY DEF Next, vars, ids, Skip, TimeOut, CreateSellerAsset, CreateBuyerAsset, CreateAdv, CreateBuyOffer,
           CreateSell, NoSaleTransfer, SaleTransfer, ReturnSell, NoReturnTransfer, AcceptReturn
  <1>4. buyOfferIds' = buyOfferIds \/ buyOfferIds' = Append(buyOfferIds, Id("BUYOFFER", "buyer"))
    BY DEF Next, vars, ids, Skip, TimeOut, CreateSellerAsset, CreateBuyerAsset, CreateAdv, CreateBuyOffer,
           CreateSell, NoSaleTransfer, SaleTransfer, ReturnSell, NoReturnTransfer, AcceptReturn
  <1>5. sellIds' = sellIds \/ sellIds' = Append(sellIds, Id("SELL", "seller"))
    BY DEF Next, vars, ids, Skip, TimeOut, CreateSellerAsset, CreateBuyerAsset, CreateAdv, CreateBuyOffer,
           CreateSell, NoSaleTransfer, SaleTransfer, ReturnSell, NoReturnTransfer, AcceptReturn
  <1>6. advIds' = advIds \/ advIds' = Append(advIds, Id("ADV", "seller"))
    BY DEF Next, vars, ids, Skip, TimeOut, CreateSellerAsset, CreateBuyerAsset, CreateAdv, CreateBuyOffer,
           CreateSell, NoSaleTransfer, SaleTransfer, ReturnSell, NoReturnTransfer, AcceptReturn
  <1> QED
    BY <1>1, <1>2, <1>3, <1>4, <1>5, <1>6 DEF Grows

-----------------------------------------------------------------------------
(* What a step sends, if anything: one transaction, whose numbers point at *)
(* the current iteration's position in the lists.                          *)
Held(list, n) == n \in 1..Len(list)

Sourced(t) ==
    /\ t \in AnyTransaction
    /\ t.id.op \in {"CREATE", "ADV"} => t.spends = Nothing
    /\ t.id.op = "BUYOFFER" =>
           t.id.by = "buyer" /\ Held(buyerCreateIds, t.id.n) /\ t.spends = Own(buyerCreateIds[t.id.n])
    /\ t.id.op = "SELL" =>
           t.id.by = "seller" /\ Held(sellerCreateIds, t.id.n) /\ t.spends = Own(sellerCreateIds[t.id.n])
    /\ t.id.op = "PRE_REQUEST" =>
           t.id.by = "buyer" /\ Held(sellIds, t.id.n) /\ t.spends = Transfer(sellIds[t.id.n])
    /\ t.id.op = "INTEREST" =>
           t.id.by = "seller" /\ Held(buyOfferIds, t.id.n) /\ t.spends = Transfer(buyOfferIds[t.id.n])

Sources == \A t \in sent : Sourced(t)

(* A transaction that has its source keeps it.                             *)
LEMMA SourcedStays ==
    ASSUME Control, Lists, [Next]_vars, NEW t, Sourced(t)
    PROVE  Sourced(t)'
  <1>1. Held(buyerCreateIds, t.id.n) =>
           Held(buyerCreateIds', t.id.n) /\ buyerCreateIds'[t.id.n] = buyerCreateIds[t.id.n]
    BY ListsAreSequences, StepGrows, GrowsKeeps DEF Held
  <1>2. Held(sellerCreateIds, t.id.n) =>
           Held(sellerCreateIds', t.id.n) /\ sellerCreateIds'[t.id.n] = sellerCreateIds[t.id.n]
    BY ListsAreSequences, StepGrows, GrowsKeeps DEF Held
  <1>3. Held(sellIds, t.id.n) => Held(sellIds', t.id.n) /\ sellIds'[t.id.n] = sellIds[t.id.n]
    BY ListsAreSequences, StepGrows, GrowsKeeps DEF Held
  <1>4. Held(buyOfferIds, t.id.n) =>
           Held(buyOfferIds', t.id.n) /\ buyOfferIds'[t.id.n] = buyOfferIds[t.id.n]
    BY ListsAreSequences, StepGrows, GrowsKeeps DEF Held
  <1> QED
    BY <1>1, <1>2, <1>3, <1>4 DEF Sourced

(* What an access that the size check guards gives.                        *)
LEMMA GetGives ==
    ASSUME Control, NEW list \in Seq(Ids)
    PROVE  /\ Get(list) \in Ids \cup {NoId}
           /\ Has(list) => Held(list, index) /\ Get(list) = list[index] /\ Get(list) \in Ids
  <1>1. index \in Nat /\ index >= 1 /\ Len(list) \in Nat
    BY DEF Control
  <1>2. CASE Has(list)
    <2>1. index \in 1..Len(list)
      BY <1>1, <1>2 DEF Has
    <2>2. list[index] \in Ids
      BY <2>1
    <2> QED
      BY <1>2, <2>1, <2>2 DEF Get, Held
  <1>3. CASE ~Has(list)
    BY <1>3 DEF Get
  <1> QED
    BY <1>2, <1>3

(* The sixth loop is in the middle of an iteration only for a sale it has. *)
Returning == stage # "start" => step = 6 /\ Has(sellIds)

LEMMA StepReturning ==
    ASSUME Returning, [Next]_vars
    PROVE  Returning'
  <1>1. CASE UNCHANGED vars
    BY <1>1 DEF Returning, Has, vars, ids
  <1>2. ASSUME Advance PROVE Returning'
    BY <1>2 DEF Advance, Returning
  <1>3. CASE SaleTransfer
    BY <1>3 DEF SaleTransfer, Returning, Has, CanReturn, ids
  <1>4. CASE ReturnSell
    BY <1>4 DEF ReturnSell, Returning, Has, ids
  <1> QED
    BY <1>1, <1>2, <1>3, <1>4
    DEF Next, Skip, TimeOut, CreateSellerAsset, CreateBuyerAsset, CreateAdv, CreateBuyOffer,
        CreateSell, NoSaleTransfer, NoReturnTransfer, AcceptReturn

(* The outputs the operations name.                                        *)
LEMMA OutputsTyped ==
    /\ Nothing \in Outputs
    /\ \A id \in Ids \cup {NoId} : Own(id) \in Outputs /\ Transfer(id) \in Outputs
  BY DEF Nothing, Own, Transfer, Outputs

(* Every transaction a step sends has its source.                          *)
LEMMA NewIsSourced ==
    ASSUME Control, Lists, Returning, [Next]_vars, NEW t \in sent', t \notin sent
    PROVE  Sourced(t)
  <1>1. ASSUME NEW op \in Operations, NEW by \in Parties
        PROVE  /\ Id(op, by) \in Ids /\ Id(op, by).op = op
               /\ Id(op, by).by = by /\ Id(op, by).n = index
    BY NewIds DEF Id
  <1>2. /\ Get(sellerCreateIds) \in Ids \cup {NoId} /\ Get(buyerCreateIds) \in Ids \cup {NoId}
        /\ Get(advIds) \in Ids \cup {NoId} /\ Get(buyOfferIds) \in Ids \cup {NoId}
        /\ Get(sellIds) \in Ids \cup {NoId} /\ NoId \in Ids \cup {NoId}
    BY ListsAreSequences, GetGives
  <1>3. CASE CreateSellerAsset \/ CreateBuyerAsset
    <2>1. PICK by \in Parties : t = Transaction(Id("CREATE", by), Nothing, NoId, NoId, NoId)
      BY <1>3 DEF CreateSellerAsset, CreateBuyerAsset, Send, Parties
    <2>2. Id("CREATE", by) \in Ids /\ Id("CREATE", by).op = "CREATE"
      BY <1>1 DEF Operations
    <2>3. t \in AnyTransaction /\ t.id = Id("CREATE", by) /\ t.spends = Nothing
      BY <1>2, <2>1, <2>2, OutputsTyped DEF Transaction, AnyTransaction
    <2> QED
      BY <2>2, <2>3 DEF Sourced
  <1>4. CASE CreateAdv
    <2>1. t = Transaction(Id("ADV", "seller"), Nothing, Get(sellerCreateIds), NoId, NoId)
      BY <1>4 DEF CreateAdv, Send
    <2>2. Id("ADV", "seller") \in Ids /\ Id("ADV", "seller").op = "ADV"
      BY <1>1 DEF Operations, Parties
    <2>3. t \in AnyTransaction /\ t.id = Id("ADV", "seller") /\ t.spends = Nothing
      BY <1>2, <2>1, <2>2, OutputsTyped DEF Transaction, AnyTransaction
    <2> QED
      BY <2>2, <2>3 DEF Sourced
  <1>5. CASE CreateBuyOffer
    <2>1. t = Transaction(Id("BUYOFFER", "buyer"), Own(Get(buyerCreateIds)),
                          Get(buyerCreateIds), Get(advIds), NoId)
      BY <1>5 DEF CreateBuyOffer, Send, OfferedAsset
    <2>2. Held(buyerCreateIds, index) /\ Get(buyerCreateIds) = buyerCreateIds[index]
      BY <1>5, ListsAreSequences, GetGives DEF CreateBuyOffer, CanOffer
    <2>3. /\ Id("BUYOFFER", "buyer") \in Ids /\ Id("BUYOFFER", "buyer").op = "BUYOFFER"
          /\ Id("BUYOFFER", "buyer").by = "buyer" /\ Id("BUYOFFER", "buyer").n = index
      BY <1>1 DEF Operations, Parties
    <2>4. t \in AnyTransaction /\ t.id = Id("BUYOFFER", "buyer") /\ t.spends = Own(Get(buyerCreateIds))
      BY <1>2, <2>1, <2>3, OutputsTyped DEF Transaction, AnyTransaction
    <2> QED
      BY <2>2, <2>3, <2>4 DEF Sourced
  <1>6. CASE CreateSell
    <2>1. t = Transaction(Id("SELL", "seller"), Own(Get(sellerCreateIds)),
                          Get(sellerCreateIds), Get(advIds), Get(buyOfferIds))
      BY <1>6 DEF CreateSell, Send, AcceptedOffer
    <2>2. Held(sellerCreateIds, index) /\ Get(sellerCreateIds) = sellerCreateIds[index]
      BY <1>6, ListsAreSequences, GetGives DEF CreateSell, CanSell
    <2>3. /\ Id("SELL", "seller") \in Ids /\ Id("SELL", "seller").op = "SELL"
          /\ Id("SELL", "seller").by = "seller" /\ Id("SELL", "seller").n = index
      BY <1>1 DEF Operations, Parties
    <2>4. t \in AnyTransaction /\ t.id = Id("SELL", "seller") /\ t.spends = Own(Get(sellerCreateIds))
      BY <1>2, <2>1, <2>3, OutputsTyped DEF Transaction, AnyTransaction
    <2> QED
      BY <2>2, <2>3, <2>4 DEF Sourced
  <1>7. CASE ReturnSell
    <2>1. t = Transaction(Id("PRE_REQUEST", "buyer"), Transfer(Get(sellIds)),
                          Get(sellIds), NoId, NoId)
      BY <1>7 DEF ReturnSell, Send
    <2>2. Held(sellIds, index) /\ Get(sellIds) = sellIds[index]
      BY <1>7, ListsAreSequences, GetGives DEF ReturnSell, Returning
    <2>3. /\ Id("PRE_REQUEST", "buyer") \in Ids /\ Id("PRE_REQUEST", "buyer").op = "PRE_REQUEST"
          /\ Id("PRE_REQUEST", "buyer").by = "buyer" /\ Id("PRE_REQUEST", "buyer").n = index
      BY <1>1 DEF Operations, Parties
    <2>4. t \in AnyTransaction /\ t.id = Id("PRE_REQUEST", "buyer") /\ t.spends = Transfer(Get(sellIds))
      BY <1>2, <2>1, <2>3, OutputsTyped DEF Transaction, AnyTransaction
    <2> QED
      BY <2>2, <2>3, <2>4 DEF Sourced
  <1>8. CASE AcceptReturn
    <2>1. t = Transaction(Id("INTEREST", "seller"), Transfer(Get(buyOfferIds)),
                          Get(buyOfferIds), NoId, Id("PRE_REQUEST", "buyer"))
      BY <1>8 DEF AcceptReturn, Send, Miss
    <2>2. Held(buyOfferIds, index) /\ Get(buyOfferIds) = buyOfferIds[index]
      BY <1>8, ListsAreSequences, GetGives DEF AcceptReturn
    <2>3. /\ Id("INTEREST", "seller") \in Ids /\ Id("INTEREST", "seller").op = "INTEREST"
          /\ Id("INTEREST", "seller").by = "seller" /\ Id("INTEREST", "seller").n = index
          /\ Id("PRE_REQUEST", "buyer") \in Ids
      BY <1>1 DEF Operations, Parties
    <2>4. t \in AnyTransaction /\ t.id = Id("INTEREST", "seller") /\ t.spends = Transfer(Get(buyOfferIds))
      BY <1>2, <2>1, <2>3, OutputsTyped DEF Transaction, AnyTransaction
    <2> QED
      BY <2>2, <2>3, <2>4 DEF Sourced
  <1>9. sent' = sent \/ CreateSellerAsset \/ CreateBuyerAsset \/ CreateAdv \/ CreateBuyOffer
          \/ CreateSell \/ ReturnSell \/ AcceptReturn
    BY DEF Next, vars, Skip, TimeOut, NoSaleTransfer, SaleTransfer, NoReturnTransfer, Miss
  <1> QED
    BY <1>3, <1>4, <1>5, <1>6, <1>7, <1>8, <1>9

-----------------------------------------------------------------------------
(* The inductive invariant: where the workload is, what its lists hold,    *)
(* and from which position of which list every transaction took what it    *)
(* spends.                                                                 *)
Inv == Control /\ Lists /\ Returning /\ Sources /\ OfferForEverySale

LEMMA InitInv == Init => Inv
  <1>1. Init => Returning /\ Sources /\ OfferForEverySale
    BY DEF Init, Returning, Sources, OfferForEverySale
  <1> QED
    BY <1>1, InitLists DEF Inv

(* A sale is appended only where there is an offer, and the loop that      *)
(* appends sales has appended fewer than its counter says.                 *)
LEMMA StepOffers ==
    ASSUME Control, Lists, OfferForEverySale, [Next]_vars
    PROVE  OfferForEverySale'
  <1>1. /\ Len(sellIds) \in Nat /\ Len(buyOfferIds) \in Nat
        /\ sellIds \in Seq(Ids) /\ buyOfferIds \in Seq(Ids)
    BY ListsAreSequences
  <1>2. CASE CreateSell
    <2>1. Len(sellIds) < index
      BY <1>2 DEF CreateSell, Lists, Filled
    <2>2. index <= Len(buyOfferIds) /\ buyOfferIds' = buyOfferIds
      BY <1>2 DEF CreateSell, CanSell, Has
    <2>3. Len(sellIds') = Len(sellIds) + 1
      BY <1>1, <1>2, NewIds DEF CreateSell
    <2> QED
      BY <1>1, <2>1, <2>2, <2>3 DEF OfferForEverySale, Control
  <1>3. CASE ~CreateSell
    <2>1. sellIds' = sellIds
      BY <1>3 DEF Next, vars, ids, Skip, TimeOut, CreateSellerAsset, CreateBuyerAsset, CreateAdv,
                  CreateBuyOffer, NoSaleTransfer, SaleTransfer, ReturnSell, NoReturnTransfer, AcceptReturn
    <2>2. Len(buyOfferIds') >= Len(buyOfferIds)
      BY <1>1, StepGrows DEF Grows
    <2>3. Len(buyOfferIds') \in Nat
      BY <1>1, StepGrows DEF Grows
    <2> QED
      BY <1>1, <2>1, <2>2, <2>3 DEF OfferForEverySale
  <1> QED
    BY <1>2, <1>3

LEMMA StepInv == Inv /\ [Next]_vars => Inv'
  <1> SUFFICES ASSUME Inv, [Next]_vars PROVE Inv'
    OBVIOUS
  <1>1. Control' /\ Lists'
    BY StepLists DEF Inv
  <1>2. Returning'
    BY StepReturning DEF Inv
  <1>3. ASSUME NEW t \in sent' PROVE Sourced(t)'
    <2>1. Sourced(t)
      BY <1>3, NewIsSourced DEF Inv, Sources
    <2> QED
      BY <2>1, SourcedStays DEF Inv
  <1>4. OfferForEverySale'
    BY StepOffers DEF Inv
  <1> QED
    BY <1>1, <1>2, <1>3, <1>4 DEF Inv, Sources

LEMMA Invariance == Spec => []Inv
  <1>1. Inv /\ UNCHANGED vars => Inv'
    BY StepInv
  <1> QED
    BY InitInv, StepInv, <1>1, PTL DEF Spec

-----------------------------------------------------------------------------
(* Type correctness of the workload, whatever sends fail.                  *)
THEOREM TypeCorrect == Spec => []TypeOK
  <1>1. Inv => TypeOK
    BY ListsAreSequences DEF Inv, Control, Sources, Sourced, TypeOK
  <1> QED
    BY Invariance, <1>1, PTL

(* The sixth loop reads buyOfferIds.get(index) where only sellIds was      *)
(* checked, and never beyond the end of the list.                          *)
THEOREM OffersForSales == Spec => []OfferForEverySale
  <1>1. Inv => OfferForEverySale
    BY DEF Inv
  <1> QED
    BY Invariance, <1>1, PTL

(* Ids with equal parts are equal, and a list that increases does not      *)
(* repeat an id.                                                           *)
LEMMA IdsEqual ==
    ASSUME NEW a \in Ids, NEW b \in Ids, a.op = b.op, a.by = b.by, a.n = b.n
    PROVE  a = b
  BY DEF Ids

LEMMA FilledInjective ==
    ASSUME NEW list, NEW loop, NEW op, NEW by, NEW s, NEW i,
           Filled(list, loop, op, by, s, i),
           NEW j \in 1..Len(list), NEW k \in 1..Len(list), list[j] = list[k]
    PROVE  j = k
  <1>1. list[j].n \in Nat /\ j \in Nat /\ k \in Nat
    BY FilledEntries, CountAssumption
  <1>2. ~(j < k) /\ ~(k < j)
    BY <1>1 DEF Filled
  <1> QED
    BY <1>1, <1>2

(* The party and the list from which each operation takes what it spends.  *)
LEMMA ListEntries ==
    ASSUME Lists
    PROVE  /\ \A k \in 1..Len(sellerCreateIds) :
                  sellerCreateIds[k].op = "CREATE" /\ sellerCreateIds[k].by = "seller"
           /\ \A k \in 1..Len(buyerCreateIds) :
                  buyerCreateIds[k].op = "CREATE" /\ buyerCreateIds[k].by = "buyer"
           /\ \A k \in 1..Len(buyOfferIds) : buyOfferIds[k].op = "BUYOFFER"
           /\ \A k \in 1..Len(sellIds) : sellIds[k].op = "SELL"
  BY DEF Lists, Filled

LEMMA OutputsDiffer ==
    /\ \A a, b : Own(a) # Transfer(b) /\ Own(a) # Nothing /\ Transfer(a) # Nothing
    /\ \A a, b : Own(a) = Own(b) => a = b
    /\ \A a, b : Transfer(a) = Transfer(b) => a = b
  BY DEF Own, Transfer, Nothing

(* An output belongs to one operation's list, so two transactions that     *)
(* spend the same output are of the same operation.                        *)
LEMMA SameOperation ==
    ASSUME Lists, NEW t, NEW u, Sourced(t), Sourced(u),
           t.spends = u.spends, t.spends # Nothing
    PROVE  /\ t.id.op = u.id.op
           /\ t.id.op \in {"BUYOFFER", "SELL", "PRE_REQUEST", "INTEREST"}
  <1>1. t.id.op \in Operations /\ u.id.op \in Operations
    BY DEF Sourced, AnyTransaction, Ids
  <1>2. /\ t.id.op \in {"BUYOFFER", "SELL", "PRE_REQUEST", "INTEREST"}
        /\ u.id.op \in {"BUYOFFER", "SELL", "PRE_REQUEST", "INTEREST"}
    BY <1>1 DEF Sourced, Operations
  <1>3. CASE t.id.op = "BUYOFFER"
    BY <1>2, <1>3, ListEntries, OutputsDiffer DEF Sourced, Held
  <1>4. CASE t.id.op = "SELL"
    BY <1>2, <1>4, ListEntries, OutputsDiffer DEF Sourced, Held
  <1>5. CASE t.id.op = "PRE_REQUEST"
    BY <1>2, <1>5, ListEntries, OutputsDiffer DEF Sourced, Held
  <1>6. CASE t.id.op = "INTEREST"
    BY <1>2, <1>6, ListEntries, OutputsDiffer DEF Sourced, Held
  <1> QED
    BY <1>2, <1>3, <1>4, <1>5, <1>6

(* No output is spent twice, for any number of assets and any failures:    *)
(* the lists may shift against each other, never against themselves.       *)
THEOREM NothingSpentTwice == Spec => []NoDoubleSpend
  <1>1. Inv => NoDoubleSpend
    <2> SUFFICES ASSUME Inv, NEW t \in sent, NEW u \in sent,
                        t.spends = u.spends, t.spends # Nothing
                 PROVE  t.id = u.id
      BY DEF NoDoubleSpend
    <2>1. Sourced(t) /\ Sourced(u) /\ Lists
      BY DEF Inv, Sources
    <2>2. /\ t.id.op = u.id.op
          /\ t.id.op \in {"BUYOFFER", "SELL", "PRE_REQUEST", "INTEREST"}
      BY <2>1, SameOperation
    <2>3. t.id \in Ids /\ u.id \in Ids
      BY <2>1 DEF Sourced, AnyTransaction
    <2>4. t.id.by = u.id.by
      BY <2>1, <2>2 DEF Sourced
    <2>5. CASE t.id.op = "BUYOFFER"
      <3>1. /\ t.id.n \in 1..Len(buyerCreateIds) /\ u.id.n \in 1..Len(buyerCreateIds)
            /\ buyerCreateIds[t.id.n] = buyerCreateIds[u.id.n]
        BY <2>1, <2>2, <2>5, OutputsDiffer DEF Sourced, Held
      <3> QED
        BY <2>1, <2>2, <2>3, <2>4, <3>1, FilledInjective, IdsEqual DEF Lists
    <2>6. CASE t.id.op = "SELL"
      <3>1. /\ t.id.n \in 1..Len(sellerCreateIds) /\ u.id.n \in 1..Len(sellerCreateIds)
            /\ sellerCreateIds[t.id.n] = sellerCreateIds[u.id.n]
        BY <2>1, <2>2, <2>6, OutputsDiffer DEF Sourced, Held
      <3> QED
        BY <2>1, <2>2, <2>3, <2>4, <3>1, FilledInjective, IdsEqual DEF Lists
    <2>7. CASE t.id.op = "PRE_REQUEST"
      <3>1. /\ t.id.n \in 1..Len(sellIds) /\ u.id.n \in 1..Len(sellIds)
            /\ sellIds[t.id.n] = sellIds[u.id.n]
        BY <2>1, <2>2, <2>7, OutputsDiffer DEF Sourced, Held
      <3> QED
        BY <2>1, <2>2, <2>3, <2>4, <3>1, FilledInjective, IdsEqual DEF Lists
    <2>8. CASE t.id.op = "INTEREST"
      <3>1. /\ t.id.n \in 1..Len(buyOfferIds) /\ u.id.n \in 1..Len(buyOfferIds)
            /\ buyOfferIds[t.id.n] = buyOfferIds[u.id.n]
        BY <2>1, <2>2, <2>8, OutputsDiffer DEF Sourced, Held
      <3> QED
        BY <2>1, <2>2, <2>3, <2>4, <3>1, FilledInjective, IdsEqual DEF Lists
    <2> QED
      BY <2>2, <2>5, <2>6, <2>7, <2>8
  <1> QED
    BY Invariance, <1>1, PTL

(* An asset is spent only by the party that created it, and what is        *)
(* returned is the settlement of a sale.                                   *)
THEOREM SpentByOwners == Spec => []SpentByOwner
  <1>1. Inv => SpentByOwner
    <2> SUFFICES ASSUME Inv, NEW t \in sent
                 PROVE  /\ t.spends[1] = "own" =>
                               t.spends[2].op = "CREATE" /\ t.spends[2].by = t.id.by
                        /\ t.id.op = "PRE_REQUEST" => t.spends[2].op = "SELL"
      BY DEF SpentByOwner
    <2>1. Sourced(t) /\ Lists
      BY DEF Inv, Sources
    <2>2. t.id.op \in Operations
      BY <2>1 DEF Sourced, AnyTransaction, Ids
    <2>3. \A id : /\ Own(id)[1] = "own" /\ Own(id)[2] = id
                  /\ Transfer(id)[1] = "transfer" /\ Transfer(id)[2] = id
      BY DEF Own, Transfer
    <2>4. Nothing[1] = "nothing"
      BY DEF Nothing
    <2> QED
      BY <2>1, <2>2, <2>3, <2>4, ListEntries DEF Sourced, Held, Operations
  <1> QED
    BY Invariance, <1>1, PTL

-----------------------------------------------------------------------------
(* Alignment.  How many iterations of a loop have ended: as long as no     *)
(* send has failed, so many ids its list holds, ...                        *)
Made(loop) == CASE step > loop -> ValidAssetCount [] step = loop -> index - 1 [] OTHER -> 0

Complete ==
    /\ Len(sellerCreateIds) = Made(1)
    /\ Len(buyerCreateIds) = Made(2)
    /\ Len(advIds) = Made(3)
    /\ Len(buyOfferIds) = Made(4)
    /\ Len(sellIds) = Made(5)

(* ... and what stands at one position of the lists belongs together.      *)
Advertised(k) == \E adv \in sent : adv.id = advIds[k] /\ adv.asset = sellerCreateIds[k]
Offered(k) == \E offer \in sent : offer.id = buyOfferIds[k] /\ offer.ref1 = advIds[k]
Sold(k) == \E sale \in sent : sale.id = sellIds[k] /\ sale.ref2 = buyOfferIds[k]
Returned == \E return \in sent : return.id = Id("PRE_REQUEST", "buyer") /\ return.asset = sellIds[index]

Paired ==
    /\ \A k \in 1..Len(advIds) : Advertised(k)
    /\ \A k \in 1..Len(buyOfferIds) : Offered(k)
    /\ \A k \in 1..Len(sellIds) : Sold(k)
    /\ stage = "returned" => Returned

Consistent(t) ==
    /\ t.id.op = "SELL" => Matches(t)
    /\ t.id.op = "INTEREST" => Reverses(t)

AlignedInv == ~missed => Complete /\ Paired /\ \A t \in sent : Consistent(t)

(* Where the lists are complete, every iteration can run.                  *)
LEMMA CompleteRuns ==
    ASSUME Control, Complete
    PROVE  /\ step \in 3..5 => CanRun
           /\ step > 1 => Has(sellerCreateIds)
           /\ step > 2 => Has(buyerCreateIds)
           /\ step > 3 => Has(advIds)
           /\ step > 4 => Has(buyOfferIds)
           /\ step > 5 => Has(sellIds)
  <1>1. step \in 1..7 /\ index <= ValidAssetCount
    BY CountAssumption DEF Control
  <1>2. /\ step > 1 => Has(sellerCreateIds)
        /\ step > 2 => Has(buyerCreateIds)
        /\ step > 3 => Has(advIds)
        /\ step > 4 => Has(buyOfferIds)
        /\ step > 5 => Has(sellIds)
    BY <1>1 DEF Complete, Made, Has
  <1> QED
    BY <1>1, <1>2 DEF CanRun, CanAdvertise, CanOffer, CanSell

(* The first five loops run to validAssetCount.                            *)
LEMMA AdvanceCounts ==
    ASSUME Control, Advance, step <= 5
    PROVE  \/ step' = step /\ index' = index + 1
           \/ step' = step + 1 /\ index' = 1 /\ index = ValidAssetCount
  BY CountAssumption DEF Control, Advance, Count

(* A step that fails no send and lets an iteration end.                    *)
LEMMA StepComplete ==
    ASSUME Control, Lists, Complete, [Next]_vars, ~missed'
    PROVE  Complete'
  <1>1. /\ step \in 1..7 /\ index \in 1..ValidAssetCount /\ index \in Nat /\ ValidAssetCount \in Nat
        /\ sellerCreateIds \in Seq(Ids) /\ buyerCreateIds \in Seq(Ids)
        /\ advIds \in Seq(Ids) /\ buyOfferIds \in Seq(Ids) /\ sellIds \in Seq(Ids)
    BY ListsAreSequences, CountAssumption DEF Control
  <1>2. CASE UNCHANGED <<step, index, ids>>
    BY <1>2 DEF Complete, Made, ids
  <1>3. CASE step = 6 /\ Advance /\ UNCHANGED ids
    <2>1. step' \in {6, 7}
      BY <1>3 DEF Advance
    <2>2. \A loop \in 1..5 : Made(loop) = ValidAssetCount /\ Made(loop)' = ValidAssetCount
      BY <1>3, <2>1 DEF Made
    <2> QED
      BY <1>3, <2>2 DEF Complete, ids
  <1>4. ASSUME step \in 1..5, Advance
        PROVE  \A loop \in 1..5 :
                  Made(loop)' = (IF loop = step THEN Made(loop) + 1 ELSE Made(loop))
    <2> SUFFICES ASSUME NEW loop \in 1..5
                 PROVE  Made(loop)' = (IF loop = step THEN Made(loop) + 1 ELSE Made(loop))
      OBVIOUS
    <2>1. \/ step' = step /\ index' = index + 1
          \/ step' = step + 1 /\ index' = 1 /\ index = ValidAssetCount
      BY <1>4, AdvanceCounts
    <2> QED
      BY <1>1, <1>4, <2>1 DEF Made
  <1>5. /\ Id("CREATE", "seller") \in Ids /\ Id("CREATE", "buyer") \in Ids /\ Id("ADV", "seller") \in Ids
        /\ Id("BUYOFFER", "buyer") \in Ids /\ Id("SELL", "seller") \in Ids
    BY NewIds DEF Operations, Parties
  <1>6. CASE CreateSellerAsset
    <2>1. Len(sellerCreateIds') = Len(sellerCreateIds) + 1
      BY <1>1, <1>5, <1>6 DEF CreateSellerAsset
    <2> QED
      BY <1>4, <1>6, <2>1 DEF CreateSellerAsset, Complete
  <1>7. CASE CreateBuyerAsset
    <2>1. Len(buyerCreateIds') = Len(buyerCreateIds) + 1
      BY <1>1, <1>5, <1>7 DEF CreateBuyerAsset
    <2> QED
      BY <1>4, <1>7, <2>1 DEF CreateBuyerAsset, Complete
  <1>8. CASE CreateAdv
    <2>1. Len(advIds') = Len(advIds) + 1
      BY <1>1, <1>5, <1>8 DEF CreateAdv
    <2> QED
      BY <1>4, <1>8, <2>1 DEF CreateAdv, Complete
  <1>9. CASE CreateBuyOffer
    <2>1. Len(buyOfferIds') = Len(buyOfferIds) + 1
      BY <1>1, <1>5, <1>9 DEF CreateBuyOffer
    <2> QED
      BY <1>4, <1>9, <2>1 DEF CreateBuyOffer, Complete
  <1>10. CASE CreateSell
    <2>1. Len(sellIds') = Len(sellIds) + 1
      BY <1>1, <1>5, <1>10 DEF CreateSell
    <2> QED
      BY <1>4, <1>10, <2>1 DEF CreateSell, Complete
  <1>11. CASE Skip
    <2>1. step = 6
      BY <1>11, CompleteRuns DEF Skip
    <2> QED
      BY <1>3, <1>11, <2>1 DEF Skip
  <1>12. ~TimeOut
    BY DEF TimeOut, Miss
  <1>13. NoSaleTransfer \/ NoReturnTransfer \/ AcceptReturn => step = 6 /\ Advance /\ UNCHANGED ids
    BY DEF NoSaleTransfer, NoReturnTransfer, AcceptReturn
  <1>14. SaleTransfer \/ ReturnSell \/ UNCHANGED vars => UNCHANGED <<step, index, ids>>
    BY DEF SaleTransfer, ReturnSell, vars
  <1> QED
    BY <1>2, <1>3, <1>6, <1>7, <1>8, <1>9, <1>10, <1>11, <1>12, <1>13, <1>14 DEF Next

(* Nothing that was sent is taken back.                                    *)
LEMMA SentGrows == [Next]_vars => sent \subseteq sent'
  BY DEF Next, vars, Send, Miss, Skip, TimeOut, CreateSellerAsset, CreateBuyerAsset, CreateAdv,
         CreateBuyOffer, CreateSell, NoSaleTransfer, SaleTransfer, ReturnSell, NoReturnTransfer, AcceptReturn

(* A list is at most as long as those it was made from.                    *)
LEMMA CompleteOrder ==
    ASSUME Control, Complete
    PROVE  /\ Len(advIds) <= Len(sellerCreateIds)
           /\ Len(buyOfferIds) <= Len(advIds)
           /\ Len(sellIds) <= Len(buyOfferIds)
  BY CountAssumption DEF Control, Complete, Made

(* The position at which an iteration appends is its own.                  *)
LEMMA AppendsAt ==
    ASSUME Control, Lists, Complete, NEW op \in Operations, NEW by \in Parties
    PROVE  /\ \A list \in Seq(Ids) :
                  Len(list) = index - 1 =>
                      /\ Len(Append(list, Id(op, by))) = index
                      /\ Append(list, Id(op, by))[index] = Id(op, by)
           /\ step = 3 => Len(advIds) = index - 1
           /\ step = 4 => Len(buyOfferIds) = index - 1
           /\ step = 5 => Len(sellIds) = index - 1
  <1>1. index \in Nat /\ index >= 1 /\ Id(op, by) \in Ids
    BY NewIds DEF Control
  <1>2. /\ step = 3 => Len(advIds) = index - 1
        /\ step = 4 => Len(buyOfferIds) = index - 1
        /\ step = 5 => Len(sellIds) = index - 1
    BY DEF Complete, Made
  <1>3. ASSUME NEW list \in Seq(Ids), Len(list) = index - 1
        PROVE  /\ Len(Append(list, Id(op, by))) = index
               /\ Append(list, Id(op, by))[index] = Id(op, by)
    BY <1>1, <1>3
  <1> QED
    BY <1>2, <1>3

LEMMA StepAdvertised ==
    ASSUME Control, Lists, Complete, Paired, [Next]_vars
    PROVE  \A k \in 1..Len(advIds') : Advertised(k)'
  <1>1. /\ sellerCreateIds \in Seq(Ids) /\ advIds \in Seq(Ids) /\ sent \subseteq sent'
        /\ Grows(sellerCreateIds, sellerCreateIds') /\ Grows(advIds, advIds')
    BY ListsAreSequences, StepGrows, SentGrows
  <1>2. ASSUME NEW k \in 1..Len(advIds) PROVE Advertised(k)'
    <2>1. k \in 1..Len(sellerCreateIds)
      BY <1>1, CompleteOrder
    <2>2. advIds'[k] = advIds[k] /\ sellerCreateIds'[k] = sellerCreateIds[k]
      BY <1>1, <2>1, GrowsKeeps
    <2> QED
      BY <1>1, <2>2 DEF Paired, Advertised
  <1>3. CASE CreateAdv
    <2> DEFINE t == Transaction(Id("ADV", "seller"), Nothing, Get(sellerCreateIds), NoId, NoId)
    <2>1. t \in sent' /\ t.id = Id("ADV", "seller") /\ t.asset = Get(sellerCreateIds)
      BY <1>3 DEF CreateAdv, Send, Transaction
    <2>2. Get(sellerCreateIds) = sellerCreateIds[index] /\ sellerCreateIds' = sellerCreateIds
      BY <1>1, <1>3, GetGives DEF CreateAdv, CanAdvertise
    <2>3. Len(advIds') = index /\ advIds'[index] = Id("ADV", "seller") /\ Len(advIds) = index - 1
      BY <1>1, <1>3, AppendsAt DEF CreateAdv, Operations, Parties
    <2> HIDE DEF t
    <2>4. ASSUME NEW k \in 1..Len(advIds'), k = index PROVE Advertised(k)'
      BY <2>1, <2>2, <2>3, <2>4 DEF Advertised
    <2>5. \A k \in 1..Len(advIds') : k = index \/ k \in 1..Len(advIds)
      BY <2>3 DEF Control
    <2> QED
      BY <1>2, <2>4, <2>5
  <1>4. CASE ~CreateAdv
    <2>1. advIds' = advIds
      BY <1>4 DEF Next, vars, ids, Skip, TimeOut, CreateSellerAsset, CreateBuyerAsset, CreateBuyOffer,
                  CreateSell, NoSaleTransfer, SaleTransfer, ReturnSell, NoReturnTransfer, AcceptReturn
    <2> QED
      BY <1>2, <2>1
  <1> QED
    BY <1>3, <1>4

LEMMA StepOffered ==
    ASSUME Control, Lists, Complete, Paired, [Next]_vars
    PROVE  \A k \in 1..Len(buyOfferIds') : Offered(k)'
  <1>1. /\ advIds \in Seq(Ids) /\ buyOfferIds \in Seq(Ids) /\ sent \subseteq sent'
        /\ Grows(advIds, advIds') /\ Grows(buyOfferIds, buyOfferIds')
    BY ListsAreSequences, StepGrows, SentGrows
  <1>2. ASSUME NEW k \in 1..Len(buyOfferIds) PROVE Offered(k)'
    <2>1. k \in 1..Len(advIds)
      BY <1>1, CompleteOrder
    <2>2. buyOfferIds'[k] = buyOfferIds[k] /\ advIds'[k] = advIds[k]
      BY <1>1, <2>1, GrowsKeeps
    <2> QED
      BY <1>1, <2>2 DEF Paired, Offered
  <1>3. CASE CreateBuyOffer
    <2> DEFINE t == Transaction(Id("BUYOFFER", "buyer"), Own(OfferedAsset),
                                OfferedAsset, Get(advIds), NoId)
    <2>1. t \in sent' /\ t.id = Id("BUYOFFER", "buyer") /\ t.ref1 = Get(advIds)
      BY <1>3 DEF CreateBuyOffer, Send, Transaction
    <2>2. Get(advIds) = advIds[index] /\ advIds' = advIds
      BY <1>1, <1>3, GetGives DEF CreateBuyOffer, CanOffer
    <2>3. /\ Len(buyOfferIds') = index /\ buyOfferIds'[index] = Id("BUYOFFER", "buyer")
          /\ Len(buyOfferIds) = index - 1
      BY <1>1, <1>3, AppendsAt DEF CreateBuyOffer, Operations, Parties
    <2> HIDE DEF t
    <2>4. ASSUME NEW k \in 1..Len(buyOfferIds'), k = index PROVE Offered(k)'
      BY <2>1, <2>2, <2>3, <2>4 DEF Offered
    <2>5. \A k \in 1..Len(buyOfferIds') : k = index \/ k \in 1..Len(buyOfferIds)
      BY <2>3 DEF Control
    <2> QED
      BY <1>2, <2>4, <2>5
  <1>4. CASE ~CreateBuyOffer
    <2>1. buyOfferIds' = buyOfferIds
      BY <1>4 DEF Next, vars, ids, Skip, TimeOut, CreateSellerAsset, CreateBuyerAsset, CreateAdv,
                  CreateSell, NoSaleTransfer, SaleTransfer, ReturnSell, NoReturnTransfer, AcceptReturn
    <2> QED
      BY <1>2, <2>1
  <1> QED
    BY <1>3, <1>4

LEMMA StepSold ==
    ASSUME Control, Lists, Complete, Paired, [Next]_vars
    PROVE  \A k \in 1..Len(sellIds') : Sold(k)'
  <1>1. /\ buyOfferIds \in Seq(Ids) /\ sellIds \in Seq(Ids) /\ sent \subseteq sent'
        /\ Grows(buyOfferIds, buyOfferIds') /\ Grows(sellIds, sellIds')
    BY ListsAreSequences, StepGrows, SentGrows
  <1>2. ASSUME NEW k \in 1..Len(sellIds) PROVE Sold(k)'
    <2>1. k \in 1..Len(buyOfferIds)
      BY <1>1, CompleteOrder
    <2>2. sellIds'[k] = sellIds[k] /\ buyOfferIds'[k] = buyOfferIds[k]
      BY <1>1, <2>1, GrowsKeeps
    <2> QED
      BY <1>1, <2>2 DEF Paired, Sold
  <1>3. CASE CreateSell
    <2> DEFINE t == Transaction(Id("SELL", "seller"), Own(Get(sellerCreateIds)),
                                Get(sellerCreateIds), Get(advIds), AcceptedOffer)
    <2>1. t \in sent' /\ t.id = Id("SELL", "seller") /\ t.ref2 = Get(buyOfferIds)
      BY <1>3 DEF CreateSell, Send, Transaction, AcceptedOffer
    <2>2. Get(buyOfferIds) = buyOfferIds[index] /\ buyOfferIds' = buyOfferIds
      BY <1>1, <1>3, GetGives DEF CreateSell, CanSell
    <2>3. Len(sellIds') = index /\ sellIds'[index] = Id("SELL", "seller") /\ Len(sellIds) = index - 1
      BY <1>1, <1>3, AppendsAt DEF CreateSell, Operations, Parties
    <2> HIDE DEF t
    <2>4. ASSUME NEW k \in 1..Len(sellIds'), k = index PROVE Sold(k)'
      BY <2>1, <2>2, <2>3, <2>4 DEF Sold
    <2>5. \A k \in 1..Len(sellIds') : k = index \/ k \in 1..Len(sellIds)
      BY <2>3 DEF Control
    <2> QED
      BY <1>2, <2>4, <2>5
  <1>4. CASE ~CreateSell
    <2>1. sellIds' = sellIds
      BY <1>4 DEF Next, vars, ids, Skip, TimeOut, CreateSellerAsset, CreateBuyerAsset, CreateAdv,
                  CreateBuyOffer, NoSaleTransfer, SaleTransfer, ReturnSell, NoReturnTransfer, AcceptReturn
    <2> QED
      BY <1>2, <2>1
  <1> QED
    BY <1>3, <1>4

LEMMA StepReturned ==
    ASSUME Control, Lists, Returning, Paired, [Next]_vars, stage' = "returned"
    PROVE  Returned'
  <1>1. CASE UNCHANGED vars
    BY <1>1 DEF vars, ids, Paired, Returned, Id
  <1>2. CASE ReturnSell
    <2> DEFINE t == Transaction(Id("PRE_REQUEST", "buyer"), Transfer(Get(sellIds)),
                                Get(sellIds), NoId, NoId)
    <2>1. t \in sent' /\ t.id = Id("PRE_REQUEST", "buyer") /\ t.asset = Get(sellIds)
      BY <1>2 DEF ReturnSell, Send, Transaction
    <2>2. Get(sellIds) = sellIds[index]
      BY <1>2, ListsAreSequences, GetGives DEF ReturnSell, Returning
    <2>3. index' = index /\ sellIds' = sellIds
      BY <1>2 DEF ReturnSell, ids
    <2> HIDE DEF t
    <2> QED
      BY <2>1, <2>2, <2>3 DEF Returned, Id
  <1>3. Advance \/ SaleTransfer => stage' # "returned"
    BY DEF Advance, SaleTransfer
  <1> QED
    BY <1>1, <1>2, <1>3 DEF Next, Skip, TimeOut, CreateSellerAsset, CreateBuyerAsset, CreateAdv,
        CreateBuyOffer, CreateSell, NoSaleTransfer, NoReturnTransfer, AcceptReturn

(* What a step sends, unless it is a sale or an acceptance, refers to      *)
(* nothing; a sale names what stands at its position; an acceptance ends   *)
(* the return of this iteration.                                           *)
LEMMA StepConsistent ==
    ASSUME Control, Lists, Returning, OfferForEverySale, Complete, Paired, [Next]_vars,
           NEW t \in sent', t \in sent => Consistent(t)
    PROVE  Consistent(t)'
  <1>1. sent \subseteq sent'
    BY SentGrows
  <1>2. ASSUME Consistent(t) PROVE Consistent(t)'
    BY <1>1, <1>2 DEF Consistent, Matches, Reverses
  <1>3. CASE CreateSell /\ t \notin sent
    <2>1. t = Transaction(Id("SELL", "seller"), Own(Get(sellerCreateIds)),
                          Get(sellerCreateIds), Get(advIds), Get(buyOfferIds))
      BY <1>3 DEF CreateSell, Send, AcceptedOffer
    <2>2. /\ Held(sellerCreateIds, index) /\ Get(sellerCreateIds) = sellerCreateIds[index]
          /\ Held(advIds, index) /\ Get(advIds) = advIds[index]
          /\ Held(buyOfferIds, index) /\ Get(buyOfferIds) = buyOfferIds[index]
      BY <1>3, ListsAreSequences, GetGives DEF CreateSell, CanSell
    <2>3. /\ t.id.op = "SELL" /\ t.asset = sellerCreateIds[index]
          /\ t.ref1 = advIds[index] /\ t.ref2 = buyOfferIds[index]
      BY <2>1, <2>2 DEF Transaction, Id
    <2>4. Advertised(index) /\ Offered(index)
      BY <2>2 DEF Paired, Held
    <2>5. Matches(t)
      BY <2>3, <2>4 DEF Matches, Advertised, Offered
    <2> QED
      BY <1>2, <2>3, <2>5 DEF Consistent
  <1>4. CASE AcceptReturn /\ t \notin sent
    <2>1. t = Transaction(Id("INTEREST", "seller"), Transfer(Get(buyOfferIds)),
                          Get(buyOfferIds), NoId, Id("PRE_REQUEST", "buyer"))
      BY <1>4 DEF AcceptReturn, Send, Miss
    <2>2. Held(buyOfferIds, index) /\ Get(buyOfferIds) = buyOfferIds[index]
      BY <1>4, ListsAreSequences, GetGives DEF AcceptReturn
    <2>3. /\ t.id.op = "INTEREST" /\ t.asset = buyOfferIds[index]
          /\ t.ref2 = Id("PRE_REQUEST", "buyer")
      BY <2>1, <2>2 DEF Transaction, Id
    <2>4. index \in 1..Len(sellIds)
      BY <1>4, ListsAreSequences DEF AcceptReturn, Returning, Has, Control
    <2>5. Sold(index) /\ Returned
      BY <1>4, <2>4 DEF AcceptReturn, Paired
    <2>6. Reverses(t)
      BY <2>3, <2>5 DEF Reverses, Sold, Returned
    <2> QED
      BY <1>2, <2>3, <2>6 DEF Consistent
  <1>5. CASE t \notin sent /\ ~CreateSell /\ ~AcceptReturn
    <2>1. \E op \in {"CREATE", "ADV", "BUYOFFER", "PRE_REQUEST"}, by \in Parties : t.id = Id(op, by)
      BY <1>5 DEF Next, vars, Send, Miss, Transaction, Parties, Skip, TimeOut, CreateSellerAsset,
                  CreateBuyerAsset, CreateAdv, CreateBuyOffer, NoSaleTransfer, SaleTransfer, ReturnSell,
                  NoReturnTransfer
    <2>2. t.id.op \notin {"SELL", "INTEREST"}
      BY <2>1 DEF Id
    <2> QED
      BY <2>2 DEF Consistent
  <1> QED
    BY <1>2, <1>3, <1>4, <1>5

LEMMA StepAligned == Inv /\ AlignedInv /\ [Next]_vars => AlignedInv'
  <1> SUFFICES ASSUME Inv, AlignedInv, [Next]_vars, ~missed'
               PROVE  Complete' /\ Paired' /\ \A t \in sent' : Consistent(t)'
    BY DEF AlignedInv
  <1>1. ~missed
    BY DEF Next, vars, Send, Miss, Skip, TimeOut, CreateSellerAsset, CreateBuyerAsset, CreateAdv,
           CreateBuyOffer, CreateSell, NoSaleTransfer, SaleTransfer, ReturnSell, NoReturnTransfer, AcceptReturn
  <1>2. /\ Control /\ Lists /\ Returning /\ OfferForEverySale
        /\ Complete /\ Paired /\ \A t \in sent : Consistent(t)
    BY <1>1 DEF Inv, AlignedInv
  <1>3. Complete'
    BY <1>2, StepComplete
  <1>4. Paired'
    BY <1>2, StepAdvertised, StepOffered, StepSold, StepReturned DEF Paired
  <1>5. \A t \in sent' : Consistent(t)'
    BY <1>2, StepConsistent
  <1> QED
    BY <1>3, <1>4, <1>5

LEMMA InitAligned == Init => AlignedInv
  <1> SUFFICES ASSUME Init PROVE Complete /\ Paired /\ \A t \in sent : Consistent(t)
    BY DEF AlignedInv
  <1>1. Complete
    BY DEF Init, Complete, Made
  <1>2. Paired
    BY DEF Init, Paired
  <1> QED
    BY <1>1, <1>2 DEF Init

(* As long as no send has failed, every sale names an advertisement of its *)
(* asset and an offer made for it, and every return that is accepted gives *)
(* back what was paid for the very sale, for any number of assets.         *)
THEOREM AlignedWhileSent == Spec => []AlignedUnlessMissed
  <1>1. AlignedInv => AlignedUnlessMissed
    BY DEF AlignedInv, AlignedUnlessMissed, Consistent
  <1> QED
    BY Invariance, InitAligned, StepAligned, <1>1, PTL DEF Spec
=============================================================================
