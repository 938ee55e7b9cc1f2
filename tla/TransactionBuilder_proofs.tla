----------------------- MODULE TransactionBuilder_proofs -----------------------
(* Theorems about TransactionBuilder, for every set of keys, outputs,      *)
(* payloads and operations and every bound on the calls.                   *)
EXTENDS TransactionBuilder, TLAPS

-----------------------------------------------------------------------------
(* What is appended to a list leaves its prefixes as they are.             *)
LEMMA PrefixKept ==
    ASSUME NEW S, NEW list \in Seq(S), NEW x \in S, NEW m \in 0..Len(list)
    PROVE  /\ Append(list, x) \in Seq(S)
           /\ Len(Append(list, x)) = Len(list) + 1
           /\ SubSeq(Append(list, x), 1, m) = SubSeq(list, 1, m)
  OBVIOUS

LEMMA PrefixType ==
    ASSUME NEW S, NEW list \in Seq(S), NEW m \in 0..Len(list)
    PROVE  /\ SubSeq(list, 1, m) \in Seq(S)
           /\ Len(SubSeq(list, 1, m)) = m
           /\ \A i \in 1..m : SubSeq(list, 1, m)[i] = list[i]
  OBVIOUS

LEMMA ContentType ==
    ASSUME NEW tx \in Transactions, NEW ins \in Seq(Inputs), tx.inputs <= Len(ins)
    PROVE  /\ Content(tx, ins) \in Contents
           /\ Content(tx, ins).inputs = SubSeq(ins, 1, tx.inputs)
           /\ Content(tx, ins).operation = tx.operation
  <1>1. tx.inputs \in 0..Len(ins)
    BY DEF Transactions
  <1>2. SubSeq(ins, 1, tx.inputs) \in Seq(Inputs)
    BY <1>1, PrefixType
  <1> QED
    BY <1>2 DEF Content, Contents, Transactions

(* The entry that a build adds when a list is empty.                       *)
LEMMA InputsForType ==
    ASSUME TypeOK, NEW key \in Keys
    PROVE  /\ InputsFor(key) \in Seq(Inputs)
           /\ Len(InputsFor(key)) \in Nat \ {0}
           /\ OutputsFor(key) \in Seq(Keys)
           /\ inputs # <<>> => InputsFor(key) = inputs
           /\ inputs = <<>> => InputsFor(key) = <<Input(key, NoOutput)>>
           /\ Len(inputs) <= Len(InputsFor(key))
           /\ \A m \in 0..Len(inputs) : SubSeq(InputsFor(key), 1, m) = SubSeq(inputs, 1, m)
  <1>1. Input(key, NoOutput) \in Inputs
    BY DEF Input, Inputs
  <1>2. inputs \in Seq(Inputs) /\ outputs \in Seq(Keys)
    BY DEF TypeOK
  <1>3. CASE inputs = <<>>
    <2>1. InputsFor(key) = <<Input(key, NoOutput)>>
      BY <1>3 DEF InputsFor, WithDefault
    <2>2. \A m \in 0..Len(inputs) : SubSeq(InputsFor(key), 1, m) = SubSeq(inputs, 1, m)
      BY <1>3, <2>1, <1>1
    <2> QED
      BY <1>1, <1>2, <1>3, <2>1, <2>2 DEF OutputsFor, WithDefault
  <1>4. CASE inputs # <<>>
    BY <1>2, <1>4 DEF InputsFor, OutputsFor, WithDefault
  <1> QED
    BY <1>3, <1>4

LEMMA UnsignedType ==
    ASSUME TypeOK, NEW key \in Keys
    PROVE  /\ Unsigned(key) \in Transactions
           /\ Unsigned(key).inputs = Len(InputsFor(key))
           /\ Unsigned(key).outputs = OutputsFor(key)
           /\ Unsigned(key).operation = operation
           /\ ~Unsigned(key).signed /\ Unsigned(key).id = Null /\ Unsigned(key).message = Null
  <1>1. /\ Len(InputsFor(key)) \in Nat /\ OutputsFor(key) \in Seq(Keys)
        /\ operation \in Operations \cup {NoOperation}
        /\ payload \in Payloads \cup {NoPayload}
    BY InputsForType DEF TypeOK
  <1> QED
    BY <1>1 DEF Unsigned, Transactions, Null

LEMMA FulfilledType ==
    ASSUME NEW ins \in Seq(Inputs), Len(ins) # 0, NEW number \in Nat
    PROVE  /\ Fulfilled(ins, number) \in Seq(Inputs)
           /\ Len(Fulfilled(ins, number)) = Len(ins)
           /\ Fulfilled(ins, number)[1] = [ins[1] EXCEPT !.fulfilment = number]
           /\ \A i \in 2..Len(ins) : Fulfilled(ins, number)[i] = ins[i]
  <1>1. ins[1] \in Inputs /\ 1 \in 1..Len(ins)
    OBVIOUS
  <1>2. [ins[1] EXCEPT !.fulfilment = number] \in Inputs
    BY <1>1 DEF Inputs
  <1> QED
    BY <1>1, <1>2 DEF Fulfilled

LEMMA SignedType ==
    ASSUME NEW tx \in Transactions, NEW ins \in Seq(Inputs), Len(ins) # 0,
           tx.inputs = Len(ins), NEW number \in Nat,
           NEW message \in SUBSET [content : Contents, spent : SUBSET Spendable]
    PROVE  /\ Signed(tx, ins, number, message) \in Transactions
           /\ Signed(tx, ins, number, message).inputs = tx.inputs
           /\ Signed(tx, ins, number, message).outputs = tx.outputs
           /\ Signed(tx, ins, number, message).signer = tx.signer
           /\ Signed(tx, ins, number, message).signed
           /\ Signed(tx, ins, number, message).message = message
           /\ Signed(tx, ins, number, message).id
                 = {Content(Signed(tx, ins, number, message), Fulfilled(ins, number))}
  <1> DEFINE after == Content(tx, Fulfilled(ins, number))
  <1>1. after \in Contents
    <2>1. /\ Fulfilled(ins, number) \in Seq(Inputs)
          /\ Len(Fulfilled(ins, number)) = Len(ins)
      BY FulfilledType
    <2>2. tx.inputs <= Len(Fulfilled(ins, number))
      BY <2>1
    <2> QED
      BY <2>1, <2>2, ContentType
  <1> HIDE DEF after
  <1>2. Signed(tx, ins, number, message)
          = [tx EXCEPT !.signed = TRUE, !.message = message, !.id = {after}]
    BY DEF Signed, after
  <1> DEFINE new == [tx EXCEPT !.signed = TRUE, !.message = message, !.id = {after}]
  <1>3. /\ new.operation = tx.operation /\ new.payload = tx.payload
        /\ new.inputs = tx.inputs /\ new.outputs = tx.outputs /\ new.signer = tx.signer
        /\ new.message = message /\ new.id = {after}
    BY DEF Transactions
  <1>4. new.signed = TRUE
    BY DEF Transactions
  <1>5. new \in Transactions
    <2>1. {after} \in SUBSET Contents
      BY <1>1
    <2> QED
      BY <2>1 DEF Transactions
  <1>6. Content(Signed(tx, ins, number, message), Fulfilled(ins, number)) = after
    BY <1>2, <1>3 DEF Content, after
  <1> QED
    BY <1>2, <1>3, <1>4, <1>5, <1>6

LEMMA MessageType ==
    ASSUME NEW content \in Contents
    PROVE  Message(content) \in [content : Contents, spent : SUBSET Spendable]
  <1>1. content.inputs \in Seq(Inputs)
    BY DEF Contents
  <1>2. \A i \in DOMAIN content.inputs : content.inputs[i] \in Inputs
    BY <1>1
  <1>3. \A input \in Inputs : input.spends \in Spendable \cup {NoOutput}
    BY DEF Inputs
  <1>4. Spent(content.inputs) \subseteq Spendable
    BY <1>2, <1>3 DEF Spent
  <1> QED
    BY <1>4 DEF Message

-----------------------------------------------------------------------------
(* What a build that got as far as the builder's lists does, signed or not:*)
(* it puts a transaction that holds all inputs at the end of the list.     *)
Puts(tx, ins) ==
    /\ Keep(tx, ins)
    /\ tx \in Transactions
    /\ ins \in Seq(Inputs)
    /\ tx.inputs = Len(ins)
    /\ Len(inputs) <= Len(ins)
    /\ tx.id = IF tx.signed THEN {Content(tx, ins)} ELSE Null

(* The digest that BuildAndSign signs.                                     *)
OwnMessage(key) == {Message(Content(Unsigned(key), InputsFor(key)))}

LEMMA OwnMessageType ==
    ASSUME TypeOK, NEW key \in Keys
    PROVE  OwnMessage(key) \in SUBSET [content : Contents, spent : SUBSET Spendable]
  <1>1. Content(Unsigned(key), InputsFor(key)) \in Contents
    BY InputsForType, UnsignedType, ContentType
  <1> QED
    BY <1>1, MessageType DEF OwnMessage

LEMMA BuildPuts ==
    ASSUME TypeOK, NEW key \in Keys, Build(key)
    PROVE  Puts(Unsigned(key), InputsFor(key))
  BY InputsForType, UnsignedType DEF Build, Puts

LEMMA SigningPuts ==
    ASSUME TypeOK, NEW key \in Keys,
           NEW message \in SUBSET [content : Contents, spent : SUBSET Spendable],
           Keep(Signed(Unsigned(key), InputsFor(key), Len(built) + 1, message),
                Fulfilled(InputsFor(key), Len(built) + 1))
    PROVE  Puts(Signed(Unsigned(key), InputsFor(key), Len(built) + 1, message),
                Fulfilled(InputsFor(key), Len(built) + 1))
  <1>1. Len(built) + 1 \in Nat
    BY DEF TypeOK
  <1>2. /\ InputsFor(key) \in Seq(Inputs) /\ Len(InputsFor(key)) # 0
        /\ Len(inputs) <= Len(InputsFor(key))
        /\ Unsigned(key) \in Transactions /\ Unsigned(key).inputs = Len(InputsFor(key))
    BY InputsForType, UnsignedType
  <1>3. /\ Fulfilled(InputsFor(key), Len(built) + 1) \in Seq(Inputs)
        /\ Len(Fulfilled(InputsFor(key), Len(built) + 1)) = Len(InputsFor(key))
    BY <1>1, <1>2, FulfilledType
  <1> DEFINE ins == InputsFor(key)
             tx == Unsigned(key)
             number == Len(built) + 1
             new == Signed(tx, ins, number, message)
  <1>4. /\ new \in Transactions /\ new.inputs = Len(ins) /\ new.signed
        /\ new.id = {Content(new, Fulfilled(ins, number))}
    <2> HIDE DEF ins, tx, number
    <2>1. /\ ins \in Seq(Inputs) /\ Len(ins) # 0 /\ tx \in Transactions
          /\ tx.inputs = Len(ins) /\ number \in Nat
      BY <1>1, <1>2 DEF ins, tx, number
    <2> QED
      BY <2>1, SignedType
  <1> QED
    BY <1>2, <1>3, <1>4 DEF Puts

(* The ways in which a step treats the builder's lists and transactions.   *)
LEMMA Steps ==
    ASSUME TypeOK, [Next]_vars
    PROVE  \/ UNCHANGED <<lists, built, sent>> /\ operation' \in Operations \cup {NoOperation}
                                              /\ payload' \in Payloads \cup {NoPayload}
           \/ \E key \in Keys, output \in Spendable \cup {NoOutput} : AddInput(key, output)
           \/ \E key \in Keys : AddOutput(key)
           \/ Send
           \/ \E key \in Keys : BuildRefused(key)
           \/ \E key \in Keys : Puts(Unsigned(key), InputsFor(key))
           \/ \E key \in Keys : \E message \in {Null, OwnMessage(key)} :
                 Puts(Signed(Unsigned(key), InputsFor(key), Len(built) + 1, message),
                      Fulfilled(InputsFor(key), Len(built) + 1))
  <1>1. CASE \E op \in Chosen : SetOperation(op)
    BY <1>1, BuilderAssumption DEF SetOperation, TypeOK
  <1>2. CASE \E p \in Payloads : SetPayload(p)
    BY <1>2 DEF SetPayload, TypeOK
  <1>3. ASSUME NEW key \in Keys, Build(key) PROVE Puts(Unsigned(key), InputsFor(key))
    BY <1>3, BuildPuts
  <1>4. ASSUME NEW key \in Keys, BuildAndSign(key)
        PROVE  Puts(Signed(Unsigned(key), InputsFor(key), Len(built) + 1, OwnMessage(key)),
                    Fulfilled(InputsFor(key), Len(built) + 1))
    BY <1>4, OwnMessageType, SigningPuts DEF BuildAndSign, OwnMessage
  <1>5. ASSUME NEW key \in Keys, BuildAndSignG(key)
        PROVE  Puts(Signed(Unsigned(key), InputsFor(key), Len(built) + 1, Null),
                    Fulfilled(InputsFor(key), Len(built) + 1))
    <2>1. Null \in SUBSET [content : Contents, spent : SUBSET Spendable]
      BY DEF Null
    <2> QED
      BY <1>5, <2>1, SigningPuts DEF BuildAndSignG
  <1>6. CASE UNCHANGED vars
    BY <1>6 DEF vars, TypeOK
  <1> QED
    BY <1>1, <1>2, <1>3, <1>4, <1>5, <1>6 DEF Next, Fill

-----------------------------------------------------------------------------
(* The transaction of the builder, if signed, has the digest of what it    *)
(* holds now for its id.                                                   *)
Latest == built # <<>> =>
    Current.id = IF Current.signed THEN {Content(Current, inputs)} ELSE Null

Inv == TypeOK /\ Latest /\ IdMatchesBody

(* A longer list of inputs leaves what was built as it was.                *)
LEMMA ContentKept ==
    ASSUME TypeOK, NEW n \in DOMAIN built, NEW ins,
           \A m \in 0..Len(inputs) : SubSeq(ins, 1, m) = SubSeq(inputs, 1, m)
    PROVE  Content(built[n], ins) = Content(built[n], inputs)
  <1>1. built[n] \in Transactions /\ built[n].inputs <= Len(inputs) /\ Len(inputs) \in Nat
    BY DEF TypeOK
  <1>2. built[n].inputs \in 0..Len(inputs)
    BY <1>1 DEF Transactions
  <1> QED
    BY <1>2 DEF Content

(* AddInput lengthens the list and touches no transaction.                 *)
LEMMA AddInputKeeps ==
    ASSUME TypeOK, NEW key \in Keys, NEW output \in Spendable \cup {NoOutput},
           AddInput(key, output)
    PROVE  /\ inputs' \in Seq(Inputs) /\ Len(inputs') = Len(inputs) + 1
           /\ \A m \in 0..Len(inputs) : SubSeq(inputs', 1, m) = SubSeq(inputs, 1, m)
  <1>1. Input(key, output) \in Inputs
    BY DEF Input, Inputs
  <1>2. inputs \in Seq(Inputs) /\ inputs' = Append(inputs, Input(key, output))
    BY DEF TypeOK, AddInput
  <1> QED
    BY <1>1, <1>2, PrefixKept

(* A transaction put at the end of the list.                               *)
LEMMA AppendBuilt ==
    ASSUME TypeOK, NEW tx \in Transactions, built' = Append(built, tx)
    PROVE  /\ built' \in Seq(Transactions) /\ Len(built) \in Nat
           /\ Len(built') = Len(built) + 1 /\ built' # <<>>
           /\ built'[Len(built')] = tx
           /\ \A n \in DOMAIN built' : (n \in DOMAIN built /\ built'[n] = built[n]) \/ built'[n] = tx
           /\ \A n \in DOMAIN built : built'[n] = built[n]
  BY DEF TypeOK

LEMMA TypeStep == TypeOK /\ [Next]_vars => TypeOK'
  <1> SUFFICES ASSUME TypeOK, [Next]_vars PROVE TypeOK'
    OBVIOUS
  <1>1. CASE UNCHANGED <<lists, built, sent>> /\ operation' \in Operations \cup {NoOperation}
                                            /\ payload' \in Payloads \cup {NoPayload}
    BY <1>1 DEF TypeOK, lists
  <1>2. ASSUME NEW key \in Keys, NEW output \in Spendable \cup {NoOutput}, AddInput(key, output)
        PROVE  TypeOK'
    <2>1. inputs' \in Seq(Inputs) /\ Len(inputs') = Len(inputs) + 1
      BY <1>2, AddInputKeeps
    <2>2. \A n \in DOMAIN built : built[n].inputs <= Len(inputs')
      <3>1. \A n \in DOMAIN built : built[n] \in Transactions /\ built[n].inputs <= Len(inputs)
        BY DEF TypeOK
      <3>2. \A n \in DOMAIN built : built[n].inputs \in Nat
        BY <3>1 DEF Transactions
      <3>3. Len(inputs) \in Nat
        BY DEF TypeOK
      <3> QED
        BY <2>1, <3>1, <3>2, <3>3
    <2> QED
      BY <1>2, <2>1, <2>2 DEF TypeOK, AddInput
  <1>3. ASSUME NEW key \in Keys, AddOutput(key) PROVE TypeOK'
    BY <1>3 DEF TypeOK, AddOutput
  <1>4. CASE Send
    <2>1. /\ Current \in Transactions /\ Current.inputs <= Len(inputs)
          /\ Len(built) \in Nat \ {0}
      BY <1>4 DEF Send, TypeOK, Current
    <2>2. Content(Current, inputs) \in Contents
      BY <2>1, ContentType DEF TypeOK
    <2> QED
      BY <1>4, <2>1, <2>2 DEF Send, TypeOK, lists
  <1>5. ASSUME NEW key \in Keys, BuildRefused(key) PROVE TypeOK'
    <2> DEFINE empty == [operation |-> NoOperation, payload |-> NoPayload,
                         inputs |-> 0, outputs |-> <<>>,
                         signer |-> key, signed |-> FALSE, message |-> Null, id |-> Null]
    <2>1. empty \in Transactions /\ empty.inputs = 0
      BY DEF Transactions, Null
    <2>2. built' = Append(built, empty) /\ UNCHANGED <<operation, payload, lists, sent>>
      BY <1>5 DEF BuildRefused
    <2> HIDE DEF empty
    <2>3. built' \in Seq(Transactions)
          /\ \A n \in DOMAIN built' : (n \in DOMAIN built /\ built'[n] = built[n]) \/ built'[n] = empty
      BY <2>1, <2>2, AppendBuilt
    <2> QED
      BY <2>1, <2>2, <2>3 DEF TypeOK, lists
  <1>6. ASSUME NEW tx, NEW ins, Puts(tx, ins) PROVE TypeOK'
    <2>1. /\ tx \in Transactions /\ built' = Append(built, tx) /\ inputs' = ins
          /\ outputs' = tx.outputs /\ UNCHANGED <<operation, payload, sent>>
          /\ ins \in Seq(Inputs) /\ tx.inputs = Len(ins) /\ Len(inputs) <= Len(ins)
      BY <1>6 DEF Puts, Keep
    <2>2. built' \in Seq(Transactions)
          /\ \A n \in DOMAIN built' : (n \in DOMAIN built /\ built'[n] = built[n]) \/ built'[n] = tx
      BY <2>1, AppendBuilt
    <2>3. \A n \in DOMAIN built : built[n].inputs \in Nat /\ built[n].inputs <= Len(inputs)
      <3>1. \A n \in DOMAIN built : built[n] \in Transactions /\ built[n].inputs <= Len(inputs)
        BY DEF TypeOK
      <3> QED
        BY <3>1 DEF Transactions
    <2>4. Len(ins) \in Nat /\ Len(inputs) \in Nat
      BY <2>1 DEF TypeOK
    <2>5. \A n \in DOMAIN built' : built'[n].inputs <= Len(ins)
      BY <2>1, <2>2, <2>3, <2>4
    <2>6. tx.outputs \in Seq(Keys)
      BY <2>1 DEF Transactions
    <2> QED
      BY <2>1, <2>2, <2>5, <2>6 DEF TypeOK
  <1> QED
    BY <1>1, <1>2, <1>3, <1>4, <1>5, <1>6, Steps

LEMMA InvInit == Init => Inv
  BY DEF Init, Inv, TypeOK, Latest, IdMatchesBody

LEMMA LatestStep == Inv /\ [Next]_vars => Latest' /\ IdMatchesBody'
  <1> SUFFICES ASSUME TypeOK, Latest, IdMatchesBody, [Next]_vars
               PROVE  Latest' /\ IdMatchesBody'
    BY DEF Inv
  <1>1. CASE UNCHANGED <<lists, built, sent>>
    BY <1>1 DEF Latest, IdMatchesBody, Current, lists
  <1>2. ASSUME NEW key \in Keys, NEW output \in Spendable \cup {NoOutput}, AddInput(key, output)
        PROVE  Latest' /\ IdMatchesBody'
    <2>1. built' = built /\ sent' = sent
      BY <1>2 DEF AddInput
    <2>2. ASSUME built # <<>> PROVE Content(Current, inputs') = Content(Current, inputs)
      <3>1. Len(built) \in DOMAIN built
        BY <2>2 DEF TypeOK
      <3> QED
        BY <1>2, <3>1, AddInputKeeps, ContentKept DEF Current
    <2> QED
      BY <2>1, <2>2 DEF Latest, IdMatchesBody, Current
  <1>3. ASSUME NEW key \in Keys, AddOutput(key) PROVE Latest' /\ IdMatchesBody'
    BY <1>3 DEF AddOutput, Latest, IdMatchesBody, Current
  <1>4. CASE Send
    <2>1. Current.id = IF Current.signed THEN {Content(Current, inputs)} ELSE Null
      BY <1>4 DEF Send, Latest
    <2>2. Latest'
      BY <1>4, <2>1 DEF Send, Latest, Current, lists
    <2> DEFINE body == [number |-> Len(built), tx |-> Current,
                        content |-> Content(Current, inputs)]
    <2>3. IdMatchesBody'
      <3>1. sent' = sent \cup {body}
        BY <1>4 DEF Send
      <3>2. body.tx = Current /\ body.content = Content(Current, inputs)
        OBVIOUS
      <3> HIDE DEF body
      <3>3. body.tx.id = IF body.tx.signed THEN {body.content} ELSE Null
        BY <2>1, <3>2
      <3>4. \A s \in sent : s.tx.id = IF s.tx.signed THEN {s.content} ELSE Null
        BY DEF IdMatchesBody
      <3> QED
        BY <3>1, <3>3, <3>4, Zenon DEF IdMatchesBody
    <2> QED
      BY <2>2, <2>3
  <1>5. ASSUME NEW key \in Keys, BuildRefused(key) PROVE Latest' /\ IdMatchesBody'
    <2> DEFINE empty == [operation |-> NoOperation, payload |-> NoPayload,
                         inputs |-> 0, outputs |-> <<>>,
                         signer |-> key, signed |-> FALSE, message |-> Null, id |-> Null]
    <2>1. empty \in Transactions /\ empty.id = Null /\ ~empty.signed
      BY DEF Transactions, Null
    <2>2. built' = Append(built, empty) /\ sent' = sent
      BY <1>5 DEF BuildRefused
    <2> HIDE DEF empty
    <2>3. built'[Len(built')] = empty
      BY <2>1, <2>2, AppendBuilt
    <2> QED
      BY <2>1, <2>2, <2>3 DEF Latest, IdMatchesBody, Current
  <1>6. ASSUME NEW tx, NEW ins, Puts(tx, ins) PROVE Latest' /\ IdMatchesBody'
    <2>1. /\ tx \in Transactions /\ built' = Append(built, tx) /\ inputs' = ins /\ sent' = sent
          /\ tx.id = IF tx.signed THEN {Content(tx, ins)} ELSE Null
      BY <1>6 DEF Puts, Keep
    <2>2. built'[Len(built')] = tx
      BY <2>1, AppendBuilt
    <2> QED
      BY <2>1, <2>2 DEF Latest, IdMatchesBody, Current
  <1> QED
    BY <1>1, <1>2, <1>3, <1>4, <1>5, <1>6, Steps

LEMMA Invariant == Spec => []Inv
  <1>1. Inv /\ [Next]_vars => Inv'
    BY TypeStep, LatestStep DEF Inv
  <1> QED
    BY InvInit, <1>1, PTL DEF Spec

(* TypeOK: no transaction counts more inputs than the builder's list has,  *)
(* so that build and sign always find the inputs they copy.                *)
THEOREM TypeCorrect == Spec => []TypeOK
  BY Invariant, PTL DEF Inv

(* The id under which a signed transaction is posted is the digest of what *)
(* is posted, however the builder was used before.                         *)
THEOREM IdsMatch == Spec => []IdMatchesBody
  BY Invariant, PTL DEF Inv

-----------------------------------------------------------------------------
(* A transaction that was signed and kept changes only when the same       *)
(* builder signs another one.                                              *)
THEOREM OnlySigningRewritesHolds == Spec => OnlySigningRewrites
  <1> DEFINE Rewrites == \A n \in DOMAIN built :
        built[n].signed /\ Content(built'[n], inputs') # Content(built[n], inputs)
            => Len(built') > Len(built) /\ built'[Len(built')].signed
  <1>1. ASSUME TypeOK, [Next]_vars PROVE Rewrites
    <2> SUFFICES ASSUME NEW n \in DOMAIN built, built[n].signed,
                        Content(built'[n], inputs') # Content(built[n], inputs)
                 PROVE  Len(built') > Len(built) /\ built'[Len(built')].signed
      OBVIOUS
    <2>1. CASE UNCHANGED <<lists, built, sent>>
      BY <2>1 DEF lists
    <2>2. ASSUME NEW key \in Keys, NEW output \in Spendable \cup {NoOutput}, AddInput(key, output)
          PROVE  FALSE
      <3>1. built' = built
        BY <2>2 DEF AddInput
      <3> QED
        BY <1>1, <2>2, <3>1, AddInputKeeps, ContentKept
    <2>3. ASSUME NEW key \in Keys, AddOutput(key) PROVE FALSE
      BY <2>3 DEF AddOutput
    <2>4. CASE Send
      BY <2>4 DEF Send, lists
    <2>5. ASSUME NEW key \in Keys, BuildRefused(key) PROVE FALSE
      <3> DEFINE empty == [operation |-> NoOperation, payload |-> NoPayload,
                           inputs |-> 0, outputs |-> <<>>,
                           signer |-> key, signed |-> FALSE, message |-> Null, id |-> Null]
      <3>1. empty \in Transactions
        BY DEF Transactions, Null
      <3>2. built' = Append(built, empty) /\ inputs' = inputs
        BY <2>5 DEF BuildRefused, lists
      <3> HIDE DEF empty
      <3> QED
        BY <1>1, <3>1, <3>2, AppendBuilt
    <2>6. ASSUME NEW key \in Keys, Puts(Unsigned(key), InputsFor(key)) PROVE FALSE
      <3>1. /\ Unsigned(key) \in Transactions /\ built' = Append(built, Unsigned(key))
            /\ inputs' = InputsFor(key)
        BY <2>6 DEF Puts, Keep
      <3>2. built'[n] = built[n]
        BY <1>1, <3>1, AppendBuilt
      <3> QED
        BY <1>1, <3>1, <3>2, InputsForType, ContentKept
    <2>7. ASSUME NEW key \in Keys, NEW message \in {Null, OwnMessage(key)},
                 Puts(Signed(Unsigned(key), InputsFor(key), Len(built) + 1, message),
                      Fulfilled(InputsFor(key), Len(built) + 1))
          PROVE  Len(built') > Len(built) /\ built'[Len(built')].signed
      <3> DEFINE tx == Signed(Unsigned(key), InputsFor(key), Len(built) + 1, message)
      <3>1. tx.signed
        <4>1. Unsigned(key) \in Transactions
          BY <1>1, UnsignedType
        <4> QED
          BY <4>1 DEF Signed, Transactions
      <3>2. tx \in Transactions /\ built' = Append(built, tx)
        BY <2>7 DEF Puts, Keep
      <3> HIDE DEF tx
      <3>3. Len(built') = Len(built) + 1 /\ Len(built) \in Nat /\ built'[Len(built')] = tx
        BY <1>1, <3>2, AppendBuilt
      <3> QED
        BY <3>1, <3>3
    <2> QED
      BY <1>1, <2>1, <2>2, <2>3, <2>4, <2>5, <2>6, <2>7, Steps
  <1> QED
    BY <1>1, TypeCorrect, PTL DEF Spec, OnlySigningRewrites

-----------------------------------------------------------------------------
(* The first transaction of a builder: nothing was signed before it, and   *)
(* if it is signed by its own key, then over its bare contents.            *)
FirstSigned ==
    /\ Len(built) = 0 => \A i \in DOMAIN inputs : inputs[i].fulfilment = 0
    /\ Len(built) = 1 /\ Current.message # Null =>
          /\ Current.message = {Message(Bare(Content(Current, inputs)))}
          /\ Content(Current, inputs).inputs[1].fulfilment = 1

(* Taking the signature out again gives what was signed.                   *)
LEMMA BareFulfilled ==
    ASSUME NEW ins \in Seq(Inputs), Len(ins) # 0, NEW number \in Nat,
           \A i \in DOMAIN ins : ins[i].fulfilment = 0,
           NEW tx \in Transactions, tx.inputs = Len(ins)
    PROVE  /\ Bare(Content(tx, Fulfilled(ins, number))) = Content(tx, ins)
           /\ Content(tx, Fulfilled(ins, number)).inputs[1].fulfilment = number
  <1> DEFINE F == Fulfilled(ins, number)
  <1>1. /\ F \in Seq(Inputs) /\ Len(F) = Len(ins) /\ Len(ins) \in Nat \ {0}
        /\ F[1] = [ins[1] EXCEPT !.fulfilment = number]
        /\ \A i \in 2..Len(ins) : F[i] = ins[i]
    BY FulfilledType
  <1>2. \A i \in 1..Len(ins) : ins[i] \in Inputs /\ ins[i].fulfilment = 0
    OBVIOUS
  <1>3. ASSUME NEW i \in 1..Len(ins) PROVE [F[i] EXCEPT !.fulfilment = 0] = ins[i]
    <2>1. ins[i] \in Inputs /\ ins[i].fulfilment = 0
      BY <1>2
    <2>2. CASE i = 1
      BY <1>1, <2>1, <2>2 DEF Inputs
    <2>3. CASE i # 1
      <3>1. F[i] = ins[i]
        BY <1>1, <2>3
      <3> HIDE DEF F
      <3> QED
        BY <2>1, <3>1 DEF Inputs
    <2> QED
      BY <2>2, <2>3
  <1>4. F[1].fulfilment = number
    BY <1>1, <1>2 DEF Inputs
  <1> HIDE DEF F
  <1>5. SubSeq(F, 1, Len(ins)) = F /\ SubSeq(ins, 1, Len(ins)) = ins /\ DOMAIN F = 1..Len(ins)
    BY <1>1
  <1>6. /\ Content(tx, F) = [operation |-> tx.operation, payload |-> tx.payload,
                             inputs |-> F, outputs |-> tx.outputs]
        /\ Content(tx, ins) = [operation |-> tx.operation, payload |-> tx.payload,
                               inputs |-> ins, outputs |-> tx.outputs]
    BY <1>5 DEF Content
  <1>7. [i \in DOMAIN F |-> [F[i] EXCEPT !.fulfilment = 0]] = ins
    BY <1>3, <1>5
  <1>8. Bare(Content(tx, F)) = [operation |-> tx.operation, payload |-> tx.payload,
            inputs |-> [i \in DOMAIN F |-> [F[i] EXCEPT !.fulfilment = 0]],
            outputs |-> tx.outputs]
    BY <1>6 DEF Bare
  <1> QED
    BY <1>4, <1>6, <1>7, <1>8 DEF F

(* Signatures do not change what a list of inputs spends.                  *)
LEMMA BareSpent ==
    ASSUME NEW content \in Contents
    PROVE  /\ Spent(Bare(content).inputs) = Spent(content.inputs)
           /\ Bare(content).operation = content.operation
  <1> DEFINE bare == [i \in DOMAIN content.inputs |->
                        [content.inputs[i] EXCEPT !.fulfilment = 0]]
  <1>1. content.inputs \in Seq(Inputs)
    BY DEF Contents
  <1>2. Bare(content).inputs = bare /\ Bare(content).operation = content.operation
    BY DEF Bare, Contents
  <1>3. DOMAIN bare = DOMAIN content.inputs
    OBVIOUS
  <1>4. ASSUME NEW i \in DOMAIN content.inputs
        PROVE  bare[i].spends = content.inputs[i].spends
    <2>1. content.inputs[i] \in Inputs
      BY <1>1
    <2> QED
      BY <2>1 DEF Inputs
  <1> HIDE DEF bare
  <1>5. Spent(bare) = Spent(content.inputs)
    BY <1>3, <1>4 DEF Spent
  <1> QED
    BY <1>2, <1>5

(* A first transaction signed over its bare contents, used as Transactions *)
(* uses builders, passes the node's check.                                 *)
LEMMA BareVerifies ==
    ASSUME NEW s \in [number : Nat \ {0}, tx : Transactions, content : Contents],
           AsTransactionsDoes(s),
           s.tx.message = {Message(Bare(s.content))},
           s.content.inputs[1].fulfilment = 1
    PROVE  Verifies(s)
  <1>1. s.content \in Contents /\ s.content.inputs \in Seq(Inputs)
    BY DEF Contents
  <1>2. /\ s.number = 1 /\ Len(s.content.inputs) = 1
        /\ s.content.inputs[1].owner = s.tx.signer
        /\ s.content.inputs[1].spends # NoOutput => s.content.operation \in SpendingOperations
    BY DEF AsTransactionsDoes
  <1>3. DOMAIN s.content.inputs = {1}
    BY <1>1, <1>2
  <1>4. Message(Bare(s.content)) = [content |-> Bare(s.content), spent |-> Spent(s.content.inputs)]
    <2>1. CASE s.content.operation \in PreimageOperations
      BY <1>1, <2>1, BareSpent DEF Message
    <2>2. CASE s.content.operation \notin PreimageOperations
      <3>1. s.content.inputs[1].spends = NoOutput
        BY <1>2, <2>2 DEF PreimageOperations, SpendingOperations
      <3>2. Spent(s.content.inputs) = {}
        BY <1>3, <3>1 DEF Spent
      <3> QED
        BY <1>1, <2>2, <3>2, BareSpent DEF Message
    <2> QED
      BY <2>1, <2>2
  <1> QED
    BY <1>2, <1>3, <1>4 DEF Verifies

(* The first transaction put is either not signed by its own key or signed *)
(* over its bare contents.                                                 *)
LEMMA FirstPut ==
    ASSUME TypeOK, FirstSigned, NEW key \in Keys, Len(built) = 0
    PROVE  LET tx == Signed(Unsigned(key), InputsFor(key), Len(built) + 1, OwnMessage(key))
               ins == Fulfilled(InputsFor(key), Len(built) + 1)
           IN  /\ tx.message = {Message(Bare(Content(tx, ins)))}
               /\ Content(tx, ins).inputs[1].fulfilment = 1
  <1> DEFINE bare == InputsFor(key)
             blank == Unsigned(key)
             tx == Signed(blank, bare, 1, OwnMessage(key))
             ins == Fulfilled(bare, 1)
  <1>1. /\ bare \in Seq(Inputs) /\ Len(bare) # 0
        /\ blank \in Transactions /\ blank.inputs = Len(bare)
    BY InputsForType, UnsignedType
  <1>2. \A i \in DOMAIN bare : bare[i].fulfilment = 0
    <2>1. CASE inputs = <<>>
      BY <2>1, InputsForType DEF Input
    <2>2. CASE inputs # <<>>
      <3>1. bare = inputs
        BY <2>2, InputsForType
      <3> QED
        BY <3>1 DEF FirstSigned
    <2> QED
      BY <2>1, <2>2
  <1>3. OwnMessage(key) = {Message(Content(blank, bare))}
    BY DEF OwnMessage
  <1>4. OwnMessage(key) \in SUBSET [content : Contents, spent : SUBSET Spendable]
    BY OwnMessageType
  <1> HIDE DEF bare, blank
  <1>5. /\ tx.message = OwnMessage(key)
        /\ tx.id = {Content(tx, ins)}
        /\ tx \in Transactions /\ tx.inputs = Len(bare)
    BY <1>1, <1>4, SignedType
  <1>6. Content(tx, ins) = Content(blank, ins)
    <2>1. tx.id = {Content(blank, ins)}
      BY <1>1 DEF Signed, Transactions
    <2> QED
      BY <1>5, <2>1
  <1>7. Bare(Content(blank, ins)) = Content(blank, bare)
        /\ Content(blank, ins).inputs[1].fulfilment = 1
    BY <1>1, <1>2, BareFulfilled
  <1>8. Len(built) + 1 = 1
    OBVIOUS
  <1>9. tx.message = {Message(Bare(Content(tx, ins)))} /\ Content(tx, ins).inputs[1].fulfilment = 1
    BY <1>3, <1>5, <1>6, <1>7
  <1> QED
    BY <1>8, <1>9 DEF bare, blank

LEMMA FirstStep ==
    TypeOK /\ FirstSigned /\ FirstUseVerifies /\ [Next]_vars
        => FirstSigned' /\ FirstUseVerifies'
  <1> SUFFICES ASSUME TypeOK, FirstSigned, FirstUseVerifies, [Next]_vars
               PROVE  FirstSigned' /\ FirstUseVerifies'
    OBVIOUS
  <1>1. CASE UNCHANGED <<lists, built, sent>>
    BY <1>1 DEF FirstSigned, FirstUseVerifies, Current, lists
  <1>2. ASSUME NEW key \in Keys, NEW output \in Spendable \cup {NoOutput}, AddInput(key, output)
        PROVE  FirstSigned' /\ FirstUseVerifies'
    <2>1. /\ built' = built /\ sent' = sent /\ inputs \in Seq(Inputs)
          /\ inputs' = Append(inputs, Input(key, output)) /\ Input(key, output).fulfilment = 0
      BY <1>2 DEF AddInput, Input, TypeOK
    <2>2. CASE Len(built) = 0
      <3>1. \A i \in DOMAIN inputs' : inputs'[i].fulfilment = 0
        <4> DEFINE input == Input(key, output)
        <4>1. \A i \in DOMAIN inputs : inputs[i].fulfilment = 0
          BY <2>2 DEF FirstSigned
        <4>2. \A i \in DOMAIN inputs' : (i \in DOMAIN inputs /\ inputs'[i] = inputs[i]) \/ inputs'[i] = input
          <5>1. input \in Inputs
            BY DEF Input, Inputs
          <5> HIDE DEF input
          <5>2. inputs' = Append(inputs, input)
            BY <2>1 DEF input
          <5> QED
            BY <2>1, <5>1, <5>2
        <4> QED
          BY <2>1, <4>1, <4>2
      <3> QED
        BY <2>1, <2>2, <3>1 DEF FirstSigned, FirstUseVerifies, Current
    <2>3. CASE Len(built) # 0
      <3>1. Len(built) \in DOMAIN built
        BY <2>3 DEF TypeOK
      <3>2. Content(Current, inputs') = Content(Current, inputs)
        BY <1>2, <3>1, AddInputKeeps, ContentKept DEF Current
      <3> QED
        BY <2>1, <2>3, <3>2 DEF FirstSigned, FirstUseVerifies, Current
    <2> QED
      BY <2>2, <2>3
  <1>3. ASSUME NEW key \in Keys, AddOutput(key) PROVE FirstSigned' /\ FirstUseVerifies'
    BY <1>3 DEF AddOutput, FirstSigned, FirstUseVerifies, Current
  <1>4. CASE Send
    <2> DEFINE body == [number |-> Len(built), tx |-> Current,
                        content |-> Content(Current, inputs)]
    <2>1. sent' = sent \cup {body} /\ built' = built /\ inputs' = inputs
      BY <1>4 DEF Send, lists
    <2>2. /\ Current \in Transactions /\ Current.inputs <= Len(inputs)
          /\ Len(built) \in Nat \ {0}
      BY <1>4 DEF Send, TypeOK, Current
    <2>3. Content(Current, inputs) \in Contents
      BY <2>2, ContentType DEF TypeOK
    <2>4. /\ body \in [number : Nat \ {0}, tx : Transactions, content : Contents]
          /\ body.number = Len(built) /\ body.tx = Current
          /\ body.content = Content(Current, inputs)
      BY <2>2, <2>3
    <2> HIDE DEF body
    <2>5. ASSUME AsTransactionsDoes(body) PROVE Verifies(body)
      <3>1. Len(built) = 1 /\ Current.message # Null
        BY <2>4, <2>5 DEF AsTransactionsDoes
      <3>2. /\ body.tx.message = {Message(Bare(body.content))}
            /\ body.content.inputs[1].fulfilment = 1
        BY <2>4, <3>1 DEF FirstSigned
      <3> QED
        BY <2>4, <2>5, <3>2, BareVerifies
    <2> QED
      BY <2>1, <2>5 DEF FirstSigned, FirstUseVerifies, Current
  <1>5. ASSUME NEW key \in Keys, BuildRefused(key) PROVE FirstSigned' /\ FirstUseVerifies'
    <2> DEFINE empty == [operation |-> NoOperation, payload |-> NoPayload,
                         inputs |-> 0, outputs |-> <<>>,
                         signer |-> key, signed |-> FALSE, message |-> Null, id |-> Null]
    <2>1. empty \in Transactions /\ empty.message = Null
      BY DEF Transactions, Null
    <2>2. built' = Append(built, empty) /\ sent' = sent
      BY <1>5 DEF BuildRefused
    <2> HIDE DEF empty
    <2>3. built'[Len(built')] = empty /\ Len(built') # 0
      BY <2>1, <2>2, AppendBuilt
    <2> QED
      BY <2>1, <2>2, <2>3 DEF FirstSigned, FirstUseVerifies, Current
  <1>6. ASSUME NEW tx, NEW ins, Puts(tx, ins), tx.message = Null
        PROVE  FirstSigned' /\ FirstUseVerifies'
    <2>1. tx \in Transactions /\ built' = Append(built, tx) /\ sent' = sent
      BY <1>6 DEF Puts, Keep
    <2>2. built'[Len(built')] = tx /\ Len(built') # 0
      BY <2>1, AppendBuilt
    <2> QED
      BY <1>6, <2>1, <2>2 DEF FirstSigned, FirstUseVerifies, Current
  <1>7. ASSUME NEW key \in Keys, NEW message \in {Null, OwnMessage(key)},
               Puts(Signed(Unsigned(key), InputsFor(key), Len(built) + 1, message),
                    Fulfilled(InputsFor(key), Len(built) + 1))
        PROVE  FirstSigned' /\ FirstUseVerifies'
    <2> DEFINE tx == Signed(Unsigned(key), InputsFor(key), Len(built) + 1, message)
               ins == Fulfilled(InputsFor(key), Len(built) + 1)
    <2>1. tx.message = message
      <3>1. Unsigned(key) \in Transactions
        BY UnsignedType
      <3> QED
        BY <3>1 DEF Signed, Transactions
    <2>2. CASE message = Null
      BY <1>6, <1>7, <2>1, <2>2
    <2>3. CASE message # Null
      <3>1. message = OwnMessage(key)
        BY <2>3
      <3>2. Len(built) = 0 => /\ tx.message = {Message(Bare(Content(tx, ins)))}
                            /\ Content(tx, ins).inputs[1].fulfilment = 1
        BY <3>1, FirstPut
      <3>3. /\ tx \in Transactions /\ built' = Append(built, tx) /\ sent' = sent
            /\ inputs' = ins
        BY <1>7 DEF Puts, Keep
      <3> HIDE DEF tx, ins
      <3>4. /\ built'[Len(built')] = tx /\ Len(built') # 0
            /\ Len(built') = Len(built) + 1 /\ Len(built) \in Nat
        BY <3>3, AppendBuilt
      <3>5. Len(built') = Len(built) + 1 /\ Len(built) \in Nat
        BY <3>4
      <3>6. Len(built') = 1 => Len(built) = 0
        <4>1. \A m \in Nat : m + 1 = 1 => m = 0
          OBVIOUS
        <4> QED
          BY <3>5, <4>1, Zenon
      <3> QED
        BY <3>2, <3>3, <3>4, <3>6 DEF FirstSigned, FirstUseVerifies, Current
    <2> QED
      BY <2>2, <2>3
  <1>8. ASSUME NEW key \in Keys, Puts(Unsigned(key), InputsFor(key))
        PROVE  FirstSigned' /\ FirstUseVerifies'
    BY <1>6, <1>8, UnsignedType
  <1> QED
    BY <1>1, <1>2, <1>3, <1>4, <1>5, <1>7, <1>8, Steps

(* A builder that is used as the driver's operations use it sends what a   *)
(* node accepts, whatever else is done with the builder afterwards.        *)
THEOREM FirstUse == Spec => []FirstUseVerifies
  <1>1. Init => FirstSigned /\ FirstUseVerifies
    BY DEF Init, FirstSigned, FirstUseVerifies
  <1> QED
    BY <1>1, FirstStep, TypeCorrect, PTL DEF Spec
=============================================================================
