----------------------------- MODULE Marketplace -----------------------------
(***************************************************************************)
(* The marketplace workload: BigchainDBJavaDriver.main, the Simulation     *)
(* wrappers it calls and the Transactions operations behind them.          *)
(*                                                                         *)
(* Six loops run one after the other; each iteration is handed to a thread *)
(* pool and waited for at once, so iterations never overlap.  An iteration *)
(* sends one transaction (a return: two) and appends its id to a list that *)
(* later loops read by position.  Sends are asynchronous: an iteration     *)
(* fails only when no node can be reached in time, and then appends        *)
(* nothing.  What becomes of a transaction that was sent is not awaited.   *)
(***************************************************************************)
EXTENDS Integers, Sequences

CONSTANTS
    ValidAssetCount     \* validAssetCount: how many assets each party creates

ASSUME CountAssumption == ValidAssetCount \in Nat \ {0}

VARIABLES
    step,               \* the loop that runs: 1 to 6, then 7
    index,              \* its iteration, from 1
    stage,              \* how far an iteration of the sixth loop has come
    sellerCreateIds, buyerCreateIds, advIds, buyOfferIds, sellIds,
    sent,               \* the transactions handed to the HTTP client
    missed              \* history: did any iteration fail to send?

ids  == <<sellerCreateIds, buyerCreateIds, advIds, buyOfferIds, sellIds>>
vars == <<step, index, stage, ids, sent, missed>>

(* validAssetCount * 0.2, as the bound of the sixth loop's counter.        *)
ReturnCount == (ValidAssetCount + 4) \div 5
Count(s) == IF s = 6 THEN ReturnCount ELSE ValidAssetCount

-----------------------------------------------------------------------------
(* Transactions.  An id is a hash of contents that include a timestamp: no *)
(* two iterations produce the same one.  Of the contents the model keeps   *)
(* the output the transaction spends and the transactions it names.        *)
Parties == {"seller", "buyer"}
Operations == {"CREATE", "ADV", "BUYOFFER", "SELL", "PRE_REQUEST", "INTEREST"}
Ids == [op : Operations, by : Parties, n : 1..ValidAssetCount]
Id(op, by) == [op |-> op, by |-> by, n |-> index]
NoId == [op |-> "none", by |-> "nobody", n |-> 0]

(* An output: that of a transaction itself, or that of the TRANSFER by     *)
(* which the escrow account settled it.                                    *)
Own(id) == <<"own", id>>
Transfer(id) == <<"transfer", id>>
Nothing == <<"nothing", NoId>>

Transaction(id, spends, asset, ref1, ref2) ==
    [id |-> id, spends |-> spends, asset |-> asset, ref1 |-> ref1, ref2 |-> ref2]

-----------------------------------------------------------------------------
(* list.size() > index, and list.get(index).                               *)
Has(list) == index <= Len(list)

(* Mutant of Get: the position is forgotten.                               *)
First(list) == IF Has(list) THEN list[1] ELSE NoId
Get(list) == IF Has(list) THEN list[index] ELSE NoId

(* sendTransaction returned, or threw TimeoutException: the wrappers of    *)
(* Simulation catch it and return null.                                    *)
Send(tx) == sent' = sent \cup {tx} /\ UNCHANGED missed
Miss == missed' = TRUE /\ UNCHANGED sent

(* The loop counter; mutant of Advance: the loop runs once too often.      *)
AdvancePast ==
    /\ stage' = "start"
    /\ IF index <= Count(step) THEN index' = index + 1 /\ step' = step
                               ELSE index' = 1 /\ step' = step + 1
Advance ==
    /\ stage' = "start"
    /\ IF index < Count(step) THEN index' = index + 1 /\ step' = step
                              ELSE index' = 1 /\ step' = step + 1

(* The size checks at the top of an iteration.                             *)
CanAdvertise == Has(sellerCreateIds)
CanOffer == Has(advIds) /\ Has(buyerCreateIds)

(* Mutant of CanSell: the buy offer is not looked for.                     *)
CanSellUnasked == Has(sellerCreateIds) /\ Has(advIds)
CanSell == Has(sellerCreateIds) /\ Has(advIds) /\ Has(buyOfferIds)
CanReturn == Has(sellIds)

CanRun == CASE step \in {1, 2} -> TRUE
            [] step = 3 -> CanAdvertise
            [] step = 4 -> CanOffer
            [] step = 5 -> CanSell
            [] step = 6 -> CanReturn
            [] OTHER -> FALSE

(* The iteration reports that what it needs is not there.                  *)
Skip ==
    /\ step \in 3..6
    /\ stage = "start"
    /\ ~CanRun
    /\ Advance
    /\ UNCHANGED <<ids, sent, missed>>

(* The iteration's send times out: nothing is appended.                    *)
TimeOut ==
    /\ step \in 1..6
    /\ CanRun
    /\ stage = (IF step = 6 THEN "return" ELSE "start")
    /\ Miss
    /\ Advance
    /\ UNCHANGED ids

-----------------------------------------------------------------------------
(* Loops 1 and 2: Simulation.createCreate, Transactions.doCreate.          *)
CreateSellerAsset ==
    /\ step = 1
    /\ Send(Transaction(Id("CREATE", "seller"), Nothing, NoId, NoId, NoId))
    /\ sellerCreateIds' = Append(sellerCreateIds, Id("CREATE", "seller"))
    /\ Advance
    /\ UNCHANGED <<buyerCreateIds, advIds, buyOfferIds, sellIds>>

CreateBuyerAsset ==
    /\ step = 2
    /\ Send(Transaction(Id("CREATE", "buyer"), Nothing, NoId, NoId, NoId))
    /\ buyerCreateIds' = Append(buyerCreateIds, Id("CREATE", "buyer"))
    /\ Advance
    /\ UNCHANGED <<sellerCreateIds, advIds, buyOfferIds, sellIds>>

(* Loop 3: Simulation.createAdv, Transactions.doAdv.                       *)
CreateAdv ==
    /\ step = 3
    /\ CanAdvertise
    /\ Send(Transaction(Id("ADV", "seller"), Nothing, Get(sellerCreateIds), NoId, NoId))
    /\ advIds' = Append(advIds, Id("ADV", "seller"))
    /\ Advance
    /\ UNCHANGED <<sellerCreateIds, buyerCreateIds, buyOfferIds, sellIds>>

(* Mutant of OfferedAsset: the lists swapped.                              *)
SellersAsset == Get(sellerCreateIds)

(* Loop 4: Simulation.createBuyOffer, Transactions.doBuyOffer.             *)
OfferedAsset == Get(buyerCreateIds)

CreateBuyOffer ==
    /\ step = 4
    /\ CanOffer
    /\ Send(Transaction(Id("BUYOFFER", "buyer"), Own(OfferedAsset),
                        OfferedAsset, Get(advIds), NoId))
    /\ buyOfferIds' = Append(buyOfferIds, Id("BUYOFFER", "buyer"))
    /\ Advance
    /\ UNCHANGED <<sellerCreateIds, buyerCreateIds, advIds, sellIds>>

(* Mutant of AcceptedOffer: the newest offer is taken.                     *)
NewestOffer == IF CanSell THEN buyOfferIds[Len(buyOfferIds)] ELSE NoId

(* Loop 5: Simulation.createSell, Transactions.doSell.                     *)
AcceptedOffer == Get(buyOfferIds)

CreateSell ==
    /\ step = 5
    /\ CanSell
    /\ Send(Transaction(Id("SELL", "seller"), Own(Get(sellerCreateIds)),
                        Get(sellerCreateIds), Get(advIds), AcceptedOffer))
    /\ sellIds' = Append(sellIds, Id("SELL", "seller"))
    /\ Advance
    /\ UNCHANGED <<sellerCreateIds, buyerCreateIds, advIds, buyOfferIds>>

-----------------------------------------------------------------------------
(* Loop 6: TransactionsApi.getTransferTransactionIdsByAssetId(sellId) is   *)
(* empty or fails, or gives the TRANSFER to return.                        *)
NoSaleTransfer ==
    /\ step = 6
    /\ stage = "start"
    /\ CanReturn
    /\ Advance
    /\ UNCHANGED <<ids, sent, missed>>

SaleTransfer ==
    /\ step = 6
    /\ stage = "start"
    /\ CanReturn
    /\ stage' = "return"
    /\ UNCHANGED <<step, index, ids, sent, missed>>

(* Simulation.createReturnSell, Transactions.doReturnSell.                 *)
ReturnSell ==
    /\ step = 6
    /\ stage = "return"
    /\ Send(Transaction(Id("PRE_REQUEST", "buyer"), Transfer(Get(sellIds)),
                        Get(sellIds), NoId, NoId))
    /\ stage' = "returned"
    /\ UNCHANGED <<step, index, ids>>

(* getTransferTransactionIdsByAssetId(buyOfferIds.get(index)).             *)
NoReturnTransfer ==
    /\ step = 6
    /\ stage = "returned"
    /\ Advance
    /\ UNCHANGED <<ids, sent, missed>>

(* Simulation.createAcceptReturn, Transactions.doAcceptReturn, or its      *)
(* time-out.                                                               *)
AcceptReturn ==
    /\ step = 6
    /\ stage = "returned"
    /\ Has(buyOfferIds)
    /\ \/ Send(Transaction(Id("INTEREST", "seller"), Transfer(Get(buyOfferIds)),
                           Get(buyOfferIds), NoId, Id("PRE_REQUEST", "buyer")))
       \/ Miss
    /\ Advance
    /\ UNCHANGED ids

-----------------------------------------------------------------------------
Init ==
    /\ step = 1
    /\ index = 1
    /\ stage = "start"
    /\ sellerCreateIds = <<>>
    /\ buyerCreateIds = <<>>
    /\ advIds = <<>>
    /\ buyOfferIds = <<>>
    /\ sellIds = <<>>
    /\ sent = {}
    /\ missed = FALSE

Next ==
    \/ Skip \/ TimeOut
    \/ CreateSellerAsset \/ CreateBuyerAsset \/ CreateAdv \/ CreateBuyOffer \/ CreateSell
    \/ NoSaleTransfer \/ SaleTransfer \/ ReturnSell \/ NoReturnTransfer \/ AcceptReturn

Spec == Init /\ [][Next]_vars

-----------------------------------------------------------------------------
Outputs == {"own", "transfer", "nothing"} \X (Ids \cup {NoId})
AnyTransaction ==
    [id : Ids, spends : Outputs, asset : Ids \cup {NoId},
     ref1 : Ids \cup {NoId}, ref2 : Ids \cup {NoId}]

TypeOK ==
    /\ step \in 1..7
    /\ index \in 1..ValidAssetCount
    /\ stage \in {"start", "return", "returned"}
    /\ sellerCreateIds \in Seq(Ids)
    /\ buyerCreateIds \in Seq(Ids)
    /\ advIds \in Seq(Ids)
    /\ buyOfferIds \in Seq(Ids)
    /\ sellIds \in Seq(Ids)
    /\ sent \subseteq AnyTransaction
    /\ missed \in BOOLEAN

(* buyOfferIds.get(index) in the sixth loop is the one access that no size *)
(* check guards: there is an offer at every position where there is a sale.*)
OfferForEverySale == Len(sellIds) <= Len(buyOfferIds)

(* No two transactions the driver sends spend the same output, whichever   *)
(* sends before them failed and shifted the lists.                         *)
NoDoubleSpend == \A t, u \in sent :
    t.spends = u.spends /\ t.spends # Nothing => t.id = u.id

(* An asset is offered or sold only by the party that created it, and the  *)
(* TRANSFERs that are returned are those of sales.                         *)
SpentByOwner == \A t \in sent :
    /\ t.spends[1] = "own" => t.spends[2].op = "CREATE" /\ t.spends[2].by = t.id.by
    /\ t.id.op = "PRE_REQUEST" => t.spends[2].op = "SELL"

(* A sale names an advertisement of the asset it sells and an offer made   *)
(* for that advertisement.                                                 *)
Matches(sale) ==
    /\ \E adv \in sent : adv.id = sale.ref1 /\ adv.asset = sale.asset
    /\ \E offer \in sent : offer.id = sale.ref2 /\ offer.ref1 = sale.ref1

(* A return that is accepted gives back what was paid for the very sale.   *)
Reverses(acceptance) ==
    \E return, sale \in sent : /\ return.id = acceptance.ref2
                               /\ sale.id = return.asset
                               /\ sale.ref2 = acceptance.asset

(* As long as no send has failed, the lists are aligned: every sale        *)
(* matches its offer and every accepted return its sale.                   *)
AlignedUnlessMissed == ~missed => \A t \in sent :
    /\ t.id.op = "SELL" => Matches(t)
    /\ t.id.op = "INTEREST" => Reverses(t)

(* "Create sell transactions for each valid advertisement and              *)
(* corresponding buy offer".                                               *)
SalesMatch == \A t \in sent : t.id.op = "SELL" => Matches(t)
=============================================================================
