-------------------------- MODULE TransactionBuilder --------------------------
(***************************************************************************)
(* BigchainDbTransactionBuilder.Builder: one builder that a caller fills,  *)
(* builds, signs and sends, and may fill and build again.                  *)
(*                                                                         *)
(* The builder's lists of inputs and outputs only grow.  A transaction     *)
(* copies the lists when it is built, but not the Input objects in them:   *)
(* a signature written into an input is seen by every transaction that was *)
(* built from it.  So an input is kept once, in the builder's list, and a  *)
(* transaction says how many of them it holds.                             *)
(*                                                                         *)
(* A digest stands for what was hashed and a fulfilment for the number of  *)
(* the transaction that was signed.  Amounts, conditions, encodings and    *)
(* fulfilments given by the caller (the driver gives none) are left out.   *)
(***************************************************************************)
EXTENDS Integers, Sequences

CONSTANTS
    Keys,           \* key pairs; a group's keys are one of them
    Spendable,      \* outputs of earlier transactions
    NoOutput,       \* an input whose fulfills is null
    Payloads,       \* assets and metadata, as addAssets and addMetaData take them
    NoPayload,      \* neither has been called
    Chosen,         \* the operations callers choose among
    MaxInputs,      \* bound: calls of addInput
    MaxOutputs,     \* bound: calls of addOutput
    MaxBuilt        \* bound: transactions built with one builder

Operations ==
    {"CREATE", "TRANSFER", "REQUEST_FOR_QUOTE", "INTEREST", "PRE_REQUEST", "BID", "ACCEPT",
     "ADV", "UPDATE_ADV", "BUYOFFER", "INVERSE_TXN", "SELL", "ACCEPT_RETURN"}
NoOperation == "null"

ASSUME BuilderAssumption ==
    /\ NoOutput \notin Spendable /\ NoPayload \notin Payloads
    /\ Chosen \subseteq Operations
    /\ MaxInputs \in Nat /\ MaxOutputs \in Nat /\ MaxBuilt \in Nat

VARIABLES
    operation, payload,     \* what the next build will use
    inputs, outputs,        \* the lists the builder collects
    built,                  \* the transactions built, the last one is Builder.transaction
    sent                    \* history: the bodies posted

lists == <<inputs, outputs>>
vars  == <<operation, payload, lists, built, sent>>

-----------------------------------------------------------------------------
(* Input and Output.  The fulfilment of an input is 0 while it is null.    *)
Inputs  == [owner : Keys, spends : Spendable \cup {NoOutput}, fulfilment : Nat]
Input(key, output) == [owner |-> key, spends |-> output, fulfilment |-> 0]

(* What Transaction.toHashInput and toString put down, the id aside.       *)
Contents ==
    [operation : Operations \cup {NoOperation}, payload : Payloads \cup {NoPayload},
     inputs : Seq(Inputs), outputs : Seq(Keys)]

(* Mutant of Content: setInputs(this.inputs) for the copying loop.         *)
SharedContent(tx, ins) ==
    [operation |-> tx.operation, payload |-> tx.payload,
     inputs |-> ins, outputs |-> tx.outputs]

Content(tx, ins) ==
    [operation |-> tx.operation, payload |-> tx.payload,
     inputs |-> SubSeq(ins, 1, tx.inputs), outputs |-> tx.outputs]

(* The operations whose signature covers the outputs they spend; mutant:   *)
(* the newest operation was not added to the list.                         *)
OldPreimageOperations == {"TRANSFER", "BID", "BUYOFFER", "SELL", "PRE_REQUEST"}
PreimageOperations == {"TRANSFER", "BID", "BUYOFFER", "SELL", "PRE_REQUEST", "INTEREST"}

Spent(ins) == {ins[i].spends : i \in DOMAIN ins} \ {NoOutput}

(* The digest that is signed.                                              *)
Message(content) ==
    [content |-> content,
     spent |-> IF content.operation \in PreimageOperations THEN Spent(content.inputs) ELSE {}]

(* An id that is null, a signature that covers no digest of a transaction. *)
Null == {}

-----------------------------------------------------------------------------
(* The lists a build works on: an empty one gets a default entry, and      *)
(* keeps it.                                                               *)
WithDefault(list, entry) == IF list = <<>> THEN <<entry>> ELSE list
InputsFor(key) == WithDefault(inputs, Input(key, NoOutput))
OutputsFor(key) == WithDefault(outputs, key)

Unsigned(key) ==
    [operation |-> operation, payload |-> payload,
     inputs |-> Len(InputsFor(key)), outputs |-> OutputsFor(key),
     signer |-> key, signed |-> FALSE, message |-> Null, id |-> Null]

(* The first input of a transaction gets the signature.                    *)
Fulfilled(ins, number) == [ins EXCEPT ![1].fulfilment = number]

(* sign and Gsign after build: the signature first, then the id, which is  *)
(* the digest of the contents with the signature in them.                  *)
(* Mutant of Signed: the id is taken before the signature is written.      *)
HastySigned(tx, ins, number, message) ==
    [tx EXCEPT !.signed = TRUE, !.message = message, !.id = {Content(tx, ins)}]
Signed(tx, ins, number, message) ==
    [tx EXCEPT !.signed = TRUE, !.message = message,
               !.id = {Content(tx, Fulfilled(ins, number))}]

(* What build and sign have in common: Builder.transaction is replaced.    *)
Keep(tx, ins) ==
    /\ built' = Append(built, tx)
    /\ inputs' = ins
    /\ outputs' = tx.outputs
    /\ UNCHANGED <<operation, payload, sent>>

-----------------------------------------------------------------------------
SetOperation(op) ==
    /\ operation' = op
    /\ UNCHANGED <<payload, lists, built, sent>>

(* addAssets, addMetaData.                                                 *)
SetPayload(p) ==
    /\ payload' = p
    /\ UNCHANGED <<operation, lists, built, sent>>

AddInput(key, output) ==
    /\ Len(inputs) < MaxInputs
    /\ inputs' = Append(inputs, Input(key, output))
    /\ UNCHANGED <<operation, payload, outputs, built, sent>>

AddOutput(key) ==
    /\ Len(outputs) < MaxOutputs
    /\ outputs' = Append(outputs, key)
    /\ UNCHANGED <<operation, payload, inputs, built, sent>>

(* buildHelper refuses: by then the new, empty transaction has replaced    *)
(* the previous one.                                                       *)
BuildRefused(key) ==
    /\ Len(built) < MaxBuilt
    /\ operation = NoOperation
    /\ built' = Append(built, [operation |-> NoOperation, payload |-> NoPayload,
                               inputs |-> 0, outputs |-> <<>>,
                               signer |-> key, signed |-> FALSE, message |-> Null, id |-> Null])
    /\ UNCHANGED <<operation, payload, lists, sent>>

(* build, buildOnly; and buildAndSign and buildAndSignG when signing fails *)
(* (the one swallows the exceptions of signing, the other has no result).  *)
(* Mutant of Build: the builder's inputs are cleared for the next use.     *)
ClearingBuild(key) ==
    /\ Len(built) < MaxBuilt
    /\ operation # NoOperation
    /\ Keep(Unsigned(key), <<>>)
Build(key) ==
    /\ Len(built) < MaxBuilt
    /\ operation # NoOperation
    /\ Keep(Unsigned(key), InputsFor(key))

(* buildAndSign, buildAndSignOnly.                                         *)
BuildAndSign(key) ==
    LET tx == Unsigned(key)
        ins == InputsFor(key)
        number == Len(built) + 1
    IN  /\ Len(built) < MaxBuilt
        /\ operation # NoOperation
        /\ Keep(Signed(tx, ins, number, {Message(Content(tx, ins))}), Fulfilled(ins, number))

(* buildAndSignG: another program signs a payload that the caller gives.   *)
BuildAndSignG(key) ==
    LET ins == InputsFor(key)
        number == Len(built) + 1
    IN  /\ Len(built) < MaxBuilt
        /\ operation # NoOperation
        /\ Keep(Signed(Unsigned(key), ins, number, Null), Fulfilled(ins, number))

(* sendTransaction: the body is written down when it is called.            *)
Current == built[Len(built)]
Send ==
    /\ built # <<>>
    /\ sent' = sent \cup {[number |-> Len(built), tx |-> Current,
                           content |-> Content(Current, inputs)]}
    /\ UNCHANGED <<operation, payload, lists, built>>

-----------------------------------------------------------------------------
Init ==
    /\ operation = NoOperation
    /\ payload = NoPayload
    /\ inputs = <<>>
    /\ outputs = <<>>
    /\ built = <<>>
    /\ sent = {}

Fill ==
    \/ \E op \in Chosen : SetOperation(op)
    \/ \E p \in Payloads : SetPayload(p)
    \/ \E key \in Keys, output \in Spendable \cup {NoOutput} : AddInput(key, output)
    \/ \E key \in Keys : AddOutput(key)

Next ==
    \/ Fill \/ Send
    \/ \E key \in Keys : \/ BuildRefused(key) \/ Build(key)
                          \/ BuildAndSign(key) \/ BuildAndSignG(key)

Spec == Init /\ [][Next]_vars

-----------------------------------------------------------------------------
Transactions ==
    [operation : Operations \cup {NoOperation}, payload : Payloads \cup {NoPayload},
     inputs : Nat, outputs : Seq(Keys), signer : Keys, signed : BOOLEAN,
     message : SUBSET [content : Contents, spent : SUBSET Spendable],
     id : SUBSET Contents]

TypeOK ==
    /\ operation \in Operations \cup {NoOperation}
    /\ payload \in Payloads \cup {NoPayload}
    /\ inputs \in Seq(Inputs)
    /\ outputs \in Seq(Keys)
    /\ built \in Seq(Transactions)
    /\ \A n \in DOMAIN built : built[n].inputs <= Len(inputs)
    /\ sent \subseteq [number : Nat \ {0}, tx : Transactions, content : Contents]

(* The id of a signed transaction is the digest of exactly what is posted, *)
(* the signature in the shared input included, and nothing else gets an id.*)
IdMatchesBody == \A s \in sent :
    s.tx.id = IF s.tx.signed THEN {s.content} ELSE Null

(* The operations of Transactions that spend an output.                    *)
SpendingOperations == {"TRANSFER", "BID", "BUYOFFER", "PRE_REQUEST", "SELL", "INTEREST"}

(* What a node checks: the signature covers the contents without any       *)
(* signature, and the outputs that the inputs spend.                       *)
Bare(content) ==
    [content EXCEPT !.inputs = [i \in DOMAIN content.inputs |->
                                   [content.inputs[i] EXCEPT !.fulfilment = 0]]]
Verifies(s) ==
    /\ s.tx.message = {[content |-> Bare(s.content), spent |-> Spent(s.content.inputs)]}
    /\ \A i \in DOMAIN s.content.inputs :
          /\ s.content.inputs[i].fulfilment = s.number
          /\ s.content.inputs[i].owner = s.tx.signer

(* How Transactions uses a builder: once, with one input at most, which    *)
(* belongs to the signer, and which spends an output in some operations.   *)
AsTransactionsDoes(s) ==
    /\ s.number = 1
    /\ s.tx.message # Null
    /\ Len(s.content.inputs) = 1
    /\ s.content.inputs[1].owner = s.tx.signer
    /\ s.content.inputs[1].spends # NoOutput => s.content.operation \in SpendingOperations

(* Whatever Transactions sends passes the node's check, in whichever order *)
(* the builder was filled and whatever was done with it afterwards.        *)
FirstUseVerifies == \A s \in sent : AsTransactionsDoes(s) => Verifies(s)

(* A signed transaction that the caller keeps is altered by nothing that   *)
(* is done with the builder later, except by signing another one.          *)
OnlySigningRewrites == [][
    \A n \in DOMAIN built :
        built[n].signed /\ Content(built'[n], inputs') # Content(built[n], inputs)
            => Len(built') > Len(built) /\ built'[Len(built')].signed]_vars
=============================================================================
