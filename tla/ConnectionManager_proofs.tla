----------------------- MODULE ConnectionManager_proofs -----------------------
(* Theorems about ConnectionManager, for every list of nodes, every set of *)
(* threads, every timeout, every width of a long and every bound.          *)
EXTENDS ConnectionManager, TLAPS

-----------------------------------------------------------------------------
(* The operators the specification is built from.                          *)

(* What the cast and the product leave is a whole number, if not the one   *)
(* that was multiplied.                                                    *)
LEMMA LongType ==
    ASSUME NEW x \in Nat
    PROVE  Long(x) \in Int
  <1>1. ASSUME NEW a \in Int, NEW b \in Int, b > 0 PROVE a % b \in Int
    BY <1>1
  <1>2. LongMax \in Nat
    BY WidthAssumption
  <1> HIDE DEF LongMax
  <1>3. x + LongMax + 1 \in Int /\ 2 * (LongMax + 1) \in Int /\ 2 * (LongMax + 1) > 0
    BY <1>2
  <1>4. (x + LongMax + 1) % (2 * (LongMax + 1)) \in Int
    BY <1>1, <1>3
  <1> QED
    BY <1>2, <1>4 DEF Long

(* The delay before a node is tried again is at most half the timeout,     *)
(* whatever the node's retry count, overflow or not; it may be negative.   *)
LEMMA BackoffType ==
    ASSUME NEW k \in 0..MaxRetry
    PROVE  Backoff(k) \in Int /\ Backoff(k) <= Cap /\ Cap \in Nat
  <1>1. RawBackoff(k) \in Int
    BY LongType, WidthAssumption DEF RawBackoff
  <1>2. Cap \in Nat
    BY TimeAssumption DEF Cap
  <1> QED
    BY <1>1, <1>2 DEF Backoff

(* As long as the product fits a long, the delay is a natural number, and  *)
(* grows from one charge to the next.                                      *)
LEMMA BackoffGrows ==
    ASSUME NEW k \in 1..MaxRetry, ~Overflows(k)
    PROVE  ~Overflows(k - 1) /\ Backoff(k - 1) <= Backoff(k)
  <1>1. k \in 0..MaxRetry /\ k - 1 \in 0..MaxRetry
    BY TimeAssumption
  <1>2. LongMax \in Nat /\ Cap \in Nat
    BY WidthAssumption, TimeAssumption DEF Cap
  <1> HIDE DEF LongMax, Power
  <1>3. /\ Delay * Power(k) \in Nat /\ Delay * Power(k - 1) \in Nat
        /\ Delay * Power(k - 1) <= Delay * Power(k)
    BY <1>1, WidthAssumption
  <1>4. Delay * Power(k) <= LongMax /\ Delay * Power(k - 1) <= LongMax
    BY <1>2, <1>3 DEF Overflows
  <1>5. RawBackoff(k) = Delay * Power(k) /\ RawBackoff(k - 1) = Delay * Power(k - 1)
    BY <1>4 DEF RawBackoff, Long
  <1> QED
    BY <1>2, <1>3, <1>4, <1>5 DEF Backoff, Overflows

LEMMA BackoffNatural ==
    ASSUME NEW k \in 0..MaxRetry, ~Overflows(k)
    PROVE  Backoff(k) \in Nat
  <1>1. LongMax \in Nat /\ Cap \in Nat
    BY WidthAssumption, TimeAssumption DEF Cap
  <1> HIDE DEF LongMax, Power
  <1>2. Delay * Power(k) \in Nat
    BY WidthAssumption
  <1>3. RawBackoff(k) = Delay * Power(k)
    BY <1>1, <1>2 DEF RawBackoff, Long, Overflows
  <1> QED
    BY <1>1, <1>2, <1>3 DEF Backoff

(* Every request's deadline is an instant.                                 *)
LEMMA DeadlineType ==
    ASSUME now \in Nat, NEW t \in Nat
    PROVE  Deadline(t) \in Nat
  BY TimeAssumption DEF Deadline, Never

(* The list has a first element.                                           *)
LEMMA FirstSlot == 1 \in Slots
  BY ListAssumption

(* Whatever List.sort leaves, every slot holds a node.                     *)
LEMMA SortType ==
    ASSUME connections \in [Slots -> Nodes]
    PROVE  SortedLists \subseteq [Slots -> Nodes] /\ AnyLists \subseteq [Slots -> Nodes]
  <1>1. AnyLists \subseteq [Slots -> Nodes]
    BY DEF AnyLists, Range
  <1>2. SortedLists \subseteq [Slots -> Nodes]
    BY DEF SortedLists, StableOrders, Surjection
  <1> QED
    BY <1>1, <1>2

(* What a thread sees of the list is a list of nodes.                      *)
LEMMA ViewsType ==
    ASSUME connections \in [Slots -> Nodes], NEW s \in Senders
    PROVE  Views(s) \subseteq [Slots -> Nodes]
  BY SortType DEF Views

-----------------------------------------------------------------------------
(* The initial state is well typed.                                        *)
LEMMA InitType == Init => TypeOK
  <1> SUFFICES ASSUME Init PROVE TypeOK
    OBVIOUS
  <1>1. connections \in [Slots -> Nodes]
    BY ListAssumption DEF Init, Nodes
  <1>2. retryCount \in [Nodes -> 0..MaxRetry]
    BY TimeAssumption DEF Init
  <1>3. pc \in [Senders -> Places]
    BY DEF Init, Places, Resting
  <1>4. httpClient \in Clients
    BY DEF Init, NoClient, Clients
  <1>5. ASSUME NEW s \in Senders PROVE EditOK(s)
    <2>1. /\ pc[s] = "idle" /\ purpose[s] = "none"
          /\ slot[s] = 0 /\ conn[s] = NoNode /\ held[s] = 0
      BY DEF Init
    <2> QED
      BY <2>1 DEF EditOK, Booked, Found
  <1>6. /\ DOMAIN purpose = Senders /\ DOMAIN slot = Senders
        /\ DOMAIN conn = Senders /\ DOMAIN held = Senders
    BY DEF Init
  <1>10. now \in Nat /\ timeTillTimeout \in Int
    BY TimeAssumption DEF Init
  <1>11. timeToRetry \in [Nodes -> Int]
    BY DEF Init
  <1>7. /\ isConnected \in BOOLEAN
        /\ currentNode \in Nodes \cup {NoNode} /\ baseUrl \in Nodes \cup {NoNode}
    BY DEF Init
  <1>8. /\ kind \in [Senders -> {"setup", "async", "sync"}]
        /\ nodeToConnect \in [Senders -> Nodes \cup {NoNode}]
        /\ handlers \in [Senders -> SUBSET (Nodes \cup {NoNode})]
        /\ due \in [Senders -> Int]
    BY DEF Init
  <1>9. /\ inflight \in [Nodes -> Nat] /\ calls \in Nat /\ setups \in Nat
        /\ tried \in [Senders -> BOOLEAN]
    BY DEF Init
  <1> QED
    BY <1>1, <1>2, <1>3, <1>4, <1>5, <1>6, <1>7, <1>8, <1>9, <1>10, <1>11 DEF TypeOK

(* A step of one thread leaves the others' work alone; it may disturb a    *)
(* sort of theirs, which they go on with.                                  *)
OthersStay(s) ==
    /\ DOMAIN purpose' = Senders /\ DOMAIN slot' = Senders
    /\ DOMAIN conn' = Senders /\ DOMAIN held' = Senders
    /\ \A t \in Senders \ {s} :
          /\ pc'[t] = pc[t] \/ {pc[t], pc'[t]} \subseteq Sorting
          /\ purpose'[t] = purpose[t] /\ slot'[t] = slot[t]
          /\ conn'[t] = conn[t] /\ held'[t] = held[t]
          /\ nodeToConnect'[t] = nodeToConnect[t]

LEMMA OthersKeep ==
    ASSUME TypeOK, NEW s \in Senders, OthersStay(s), EditOK(s)'
    PROVE  \A t \in Senders : EditOK(t)'
  <1> SUFFICES ASSUME NEW t \in Senders \ {s} PROVE EditOK(t)'
    OBVIOUS
  <1>1. EditOK(t)
    BY DEF TypeOK
  <1>2. CASE pc'[t] = pc[t]
    BY <1>1, <1>2 DEF OthersStay, EditOK, Booked
  <1>3. CASE {pc[t], pc'[t]} \subseteq Sorting
    BY <1>1, <1>3 DEF OthersStay, EditOK, Booked, Sorting, Found
  <1> QED
    BY <1>2, <1>3 DEF OthersStay

(* Every place a thread goes to, past another's sort or not.               *)
LEMMA PlaceType ==
    ASSUME TypeOK, NEW s \in Senders, NEW next \in Places,
           Goto(s, next) \/ Stir(s, next) \/ Sort(s, next)
    PROVE  /\ pc' \in [Senders -> Places] /\ pc'[s] = next
           /\ \A t \in Senders \ {s} : pc'[t] = pc[t] \/ {pc[t], pc'[t]} \subseteq Sorting
  BY DEF TypeOK, Goto, Stir, Sort, Places, Sorting

(* A thread that reads holds what it read, and goes on.                    *)
LEMMA ReadsType ==
    ASSUME TypeOK, NEW s \in Senders, NEW place, NEW number \in Int, NEW next \in Places,
           Reads(s, place, number, next),
           next \notin {"current", "look"}, next = "increase" => number \in 0..MaxRetry,
           purpose[s] = "setup" => next \in {"clock", "renew"},
           next \in Found /\ purpose[s] # "setup" => Booked(s)
    PROVE  TypeOK'
  <1> USE DEF TypeOK, globals, book, retries, target, world, outside, Reads, Hold
  <1>1. /\ pc' \in [Senders -> Places] /\ pc'[s] = next
        /\ \A t \in Senders \ {s} : pc'[t] = pc[t] \/ {pc[t], pc'[t]} \subseteq Sorting
    BY PlaceType
  <1>2. held'[s] = number /\ \A t \in Senders \ {s} : held'[t] = held[t]
    OBVIOUS
  <1>3. OthersStay(s)
    BY <1>1, <1>2 DEF OthersStay
  <1>4. EditOK(s)
    OBVIOUS
  <1>5. EditOK(s)'
    BY <1>1, <1>2, <1>4 DEF EditOK, Booked
  <1>6. \A t \in Senders : EditOK(t)'
    BY <1>3, <1>5, OthersKeep
  <1> QED
    BY <1>1, <1>3, <1>6 DEF OthersStay

(* The places of the bookkeeping.                                          *)
LEMMA FoundPlaces ==
    /\ Found \subseteq Places /\ Sorting \subseteq Places /\ Resting \subseteq Places
    /\ {"again", "check", "choose", "find", "post", "returned", "crashed",
        "current", "look", "publish", "client"} \subseteq Places
    /\ {"fetch", "count", "delay", "defer", "recount", "increase",
        "clear", "reset", "clock", "renew", "putback"} = Found
    /\ \A place \in {"choose", "find", "post", "returned", "crashed", "publish", "client",
                     "check", "again", "sort", "first", "wait", "ask", "build",
                     "request", "get", "exchange", "settle", "charge"} :
          place \notin Found /\ place \notin {"current", "look", "increase"}
  BY DEF Places, Found, Sorting, Resting

(* What a thread does before it has found the node: EditOK asks little.    *)
LEMMA LooseEdit ==
    ASSUME NEW s \in Senders,
           purpose'[s] \in Purposes \cup {"none", "setup"}, slot'[s] \in Slots \cup {0},
           conn'[s] \in Nodes \cup {NoNode}, held'[s] \in Int,
           purpose'[s] = "setup" => pc'[s] \in {"clock", "renew"},
           pc'[s] \notin Found \/ purpose'[s] = "setup",
           pc'[s] \notin {"current", "look"}
    PROVE  EditOK(s)'
  BY DEF EditOK, Booked, Found

(* An exception that leaves a frame, to whatever catches it.               *)
LEMMA UnwindType ==
    ASSUME TypeOK, NEW s \in Senders, NEW place, Unwind(s, place), pc'[s] = place,
           \A t \in Senders \ {s} : pc'[t] = pc[t] \/ {pc[t], pc'[t]} \subseteq Sorting
    PROVE  /\ OthersStay(s) /\ EditOK(s)'
           /\ nodeToConnect' \in [Senders -> Nodes \cup {NoNode}]
  <1> USE DEF TypeOK
  <1>0. EditOK(s)
    OBVIOUS
  <1>1. CASE place = "crashed" /\ LetGo(s) /\ Forget(s)
    <2>1. OthersStay(s) /\ nodeToConnect' \in [Senders -> Nodes \cup {NoNode}]
      BY <1>1 DEF OthersStay, LetGo, Forget, Hold
    <2>2. purpose'[s] = "none" /\ slot'[s] = 0 /\ conn'[s] = NoNode /\ held'[s] = 0
      BY <1>1 DEF LetGo, Hold
    <2> QED
      BY <1>1, <2>1, <2>2, LooseEdit, FoundPlaces
  <1>2. ASSUME place = "find", NEW n \in handlers[s], Begin(s, "failed", n),
               nodeToConnect' = [nodeToConnect EXCEPT ![s] = n]
        PROVE  /\ OthersStay(s) /\ EditOK(s)'
               /\ nodeToConnect' \in [Senders -> Nodes \cup {NoNode}]
    <2>0. n \in Nodes \cup {NoNode}
      OBVIOUS
    <2>1. OthersStay(s) /\ nodeToConnect' \in [Senders -> Nodes \cup {NoNode}]
      BY <1>2, <2>0 DEF OthersStay, Begin
    <2>2. purpose'[s] = "failed" /\ slot'[s] = slot[s] /\ conn'[s] = n /\ held'[s] = held[s]
      BY <1>2 DEF Begin
    <2> QED
      BY <1>0, <1>2, <2>0, <2>1, <2>2, LooseEdit, FoundPlaces DEF EditOK, Purposes
  <1> QED
    BY <1>1, <1>2 DEF Unwind

(* processConnectionFailure and -Success keep the types.                   *)
LEMMA BookkeepingType ==
    ASSUME TypeOK, NEW s \in Senders, Bookkeeping(s)
    PROVE  TypeOK'
  <1> USE DEF TypeOK, globals, book, retries, target, task, edit, world, outside
  <1>0. EditOK(s)
    OBVIOUS
  <1>1. CASE ReadCurrentNode(s)
    <2>1. pc[s] \in Purposes /\ Process(s, pc[s], currentNode)
      BY <1>1 DEF ReadCurrentNode, Purposes
    <2>2. /\ pc' \in [Senders -> Places] /\ pc'[s] = "find"
          /\ \A t \in Senders \ {s} : pc'[t] = pc[t] \/ {pc[t], pc'[t]} \subseteq Sorting
      BY <2>1, FoundPlaces, PlaceType DEF Process
    <2>3. OthersStay(s)
      BY <1>1, <2>1, <2>2 DEF OthersStay, ReadCurrentNode, Process, Begin
    <2>4. EditOK(s)'
      <3>1. purpose'[s] = pc[s] /\ conn'[s] = currentNode /\ slot'[s] = slot[s] /\ held'[s] = held[s]
        BY <2>1 DEF Process, Begin
      <3> QED
        BY <1>0, <2>1, <2>2, <3>1, LooseEdit, FoundPlaces DEF EditOK, Purposes
    <2>5. \A t \in Senders : EditOK(t)'
      BY <2>3, <2>4, OthersKeep
    <2> QED
      BY <1>1, <2>2, <2>3, <2>5 DEF ReadCurrentNode, OthersStay
  <1>2. CASE Find(s)
    <2>1. PICK i \in Slots, list \in Views(s) : list[i] = conn[s] /\ slot' = [slot EXCEPT ![s] = i]
      BY <1>2 DEF Find
    <2>2. conn[s] \in Nodes
      BY <2>1, ViewsType
    <2>3. /\ pc' \in [Senders -> Places] /\ pc'[s] = "fetch"
          /\ \A t \in Senders \ {s} : pc'[t] = pc[t] \/ {pc[t], pc'[t]} \subseteq Sorting
      BY <1>2, FoundPlaces, PlaceType DEF Find
    <2>4. OthersStay(s)
      BY <1>2, <2>1, <2>3 DEF OthersStay, Find
    <2>5. EditOK(s)'
      <3>1. slot'[s] = i /\ UNCHANGED <<purpose, conn, held>> /\ pc[s] = "find"
        BY <1>2, <2>1 DEF Find
      <3>2. purpose[s] # "setup"
        BY <1>0, <3>1 DEF EditOK
      <3> QED
        BY <1>0, <2>1, <2>2, <2>3, <3>1, <3>2 DEF EditOK
    <2>6. \A t \in Senders : EditOK(t)'
      BY <2>4, <2>5, OthersKeep
    <2> QED
      BY <1>2, <2>3, <2>4, <2>6 DEF Find, OthersStay
  <1>3. CASE Missing(s)
    <2>1. CASE Process(s, "failed", nodeToConnect[s]) /\ UNCHANGED nodeToConnect
      <3>1. /\ pc' \in [Senders -> Places] /\ pc'[s] = "find"
            /\ \A t \in Senders \ {s} : pc'[t] = pc[t] \/ {pc[t], pc'[t]} \subseteq Sorting
        BY <2>1, FoundPlaces, PlaceType DEF Process
      <3>2. OthersStay(s)
        BY <2>1, <3>1 DEF OthersStay, Process, Begin
      <3>3. purpose'[s] = "failed" /\ conn'[s] = nodeToConnect[s] /\ slot'[s] = slot[s] /\ held'[s] = held[s]
        BY <2>1 DEF Process, Begin
      <3>4. EditOK(s)'
        BY <1>0, <3>1, <3>3, LooseEdit, FoundPlaces DEF EditOK, Purposes
      <3>5. \A t \in Senders : EditOK(t)'
        BY <3>2, <3>4, OthersKeep
      <3> QED
        BY <1>3, <2>1, <3>1, <3>2, <3>5 DEF Missing, OthersStay
    <2>2. CASE \E place \in {"crashed", "find"} : Goto(s, place) /\ Unwind(s, place)
      <3>1. PICK place \in {"crashed", "find"} : Goto(s, place) /\ Unwind(s, place)
        BY <2>2
      <3>2. /\ pc' \in [Senders -> Places] /\ pc'[s] = place
            /\ \A t \in Senders \ {s} : pc'[t] = pc[t] \/ {pc[t], pc'[t]} \subseteq Sorting
        BY <3>1, FoundPlaces, PlaceType
      <3>3. /\ OthersStay(s) /\ EditOK(s)'
            /\ nodeToConnect' \in [Senders -> Nodes \cup {NoNode}]
        BY <3>1, <3>2, UnwindType
      <3>5. \A t \in Senders : EditOK(t)'
        BY <3>3, OthersKeep
      <3> QED
        BY <1>3, <3>2, <3>3, <3>5 DEF Missing, OthersStay
    <2> QED
      BY <1>3, <2>1, <2>2 DEF Missing
  <1>4. CASE Fetch(s)
    <2>1. PICK list \in Views(s) : conn' = [conn EXCEPT ![s] = list[slot[s]]]
      BY <1>4 DEF Fetch
    <2>2. Booked(s) /\ purpose[s] # "setup"
      BY <1>0, <1>4 DEF Fetch, Booked, Found, EditOK
    <2>3. PICK next \in {"count", "clear"} : Goto(s, next)
      BY <1>4 DEF Fetch
    <2>4. /\ pc' \in [Senders -> Places] /\ pc'[s] = next
          /\ \A t \in Senders \ {s} : pc'[t] = pc[t] \/ {pc[t], pc'[t]} \subseteq Sorting
      BY <2>3, FoundPlaces, PlaceType
    <2>5. OthersStay(s)
      BY <1>4, <2>1, <2>4 DEF OthersStay, Fetch
    <2>6. EditOK(s)'
      <3>1. list[slot[s]] \in Nodes
        BY <1>0, <2>2, ViewsType DEF EditOK, Booked
      <3>2. conn'[s] = list[slot[s]] /\ UNCHANGED <<purpose, slot, held>>
        BY <1>4, <2>1 DEF Fetch
      <3> QED
        BY <1>0, <2>2, <2>4, <3>1, <3>2 DEF EditOK, Booked, Found
    <2>7. \A t \in Senders : EditOK(t)'
      BY <2>5, <2>6, OthersKeep
    <2> QED
      BY <1>4, <2>4, <2>5, <2>7 DEF Fetch, OthersStay
  <1>5. CASE ReadCount(s) \/ AddDelay(s) \/ RereadCount(s) \/ AddTimeout(s)
    <2>1. pc[s] \in {"count", "delay", "recount", "clock"}
      BY <1>5 DEF ReadCount, AddDelay, RereadCount, AddTimeout, Reads
    <2>2. Booked(s) \/ (purpose[s] = "setup" /\ pc[s] = "clock")
      <3>1. purpose[s] = "setup" => pc[s] \in {"clock", "renew"}
        BY <1>0 DEF EditOK
      <3>2. pc[s] \in Found
        BY <2>1 DEF Found
      <3>3. CASE purpose[s] = "setup"
        BY <2>1, <3>1, <3>3
      <3>4. CASE purpose[s] # "setup"
        BY <3>2, <3>4 DEF Booked
      <3> QED
        BY <3>3, <3>4
    <2>3. CASE ReadCount(s)
      <3>1. pc[s] = "count"
        BY <2>3 DEF ReadCount, Reads
      <3>2. Booked(s) /\ purpose[s] # "setup" /\ conn[s] \in Nodes
        BY <1>0, <2>2, <3>1 DEF EditOK, Booked
      <3>3. Backoff(retryCount[conn[s]]) \in Int
        BY <3>2, BackoffType
      <3>4. "delay" \in Places /\ "delay" \notin {"current", "look", "increase"}
        BY FoundPlaces
      <3> QED
        BY <2>3, <3>2, <3>3, <3>4, ReadsType DEF ReadCount
    <2>4. CASE AddDelay(s)
      <3>1. pc[s] = "delay"
        BY <2>4 DEF AddDelay, Reads
      <3>2. Booked(s) /\ purpose[s] # "setup"
        BY <1>0, <2>2, <3>1 DEF EditOK, Booked
      <3>3. now + held[s] \in Int
        BY <1>0 DEF EditOK
      <3>4. "defer" \in Places /\ "defer" \notin {"current", "look", "increase"}
        BY FoundPlaces
      <3> QED
        BY <2>4, <3>2, <3>3, <3>4, ReadsType DEF AddDelay
    <2>5. CASE RereadCount(s)
      <3>1. pc[s] = "recount"
        BY <2>5 DEF RereadCount, Reads
      <3>2. Booked(s) /\ purpose[s] # "setup" /\ conn[s] \in Nodes
        BY <1>0, <2>2, <3>1 DEF EditOK, Booked
      <3>3. retryCount[conn[s]] \in 0..MaxRetry /\ retryCount[conn[s]] \in Int
        BY <3>2, TimeAssumption
      <3>4. "increase" \in Places /\ "increase" \notin {"current", "look"}
        BY FoundPlaces
      <3> QED
        BY <2>5, <3>2, <3>3, <3>4, ReadsType DEF RereadCount
    <2>6. CASE AddTimeout(s)
      <3>1. now + Timeout \in Int
        BY TimeAssumption
      <3>2. "renew" \in Places /\ "renew" \notin {"current", "look", "increase"}
        BY FoundPlaces
      <3> QED
        BY <2>2, <2>6, <3>1, <3>2, ReadsType DEF AddTimeout
    <2> QED
      BY <1>5, <2>3, <2>4, <2>5, <2>6
  <1>6. CASE SetTimeToRetry(s) \/ SetRetryCount(s) \/ ClearTimeToRetry(s) \/ ClearRetryCount(s)
    <2>1. pc[s] \in {"defer", "increase", "clear", "reset"}
      BY <1>6 DEF SetTimeToRetry, SetRetryCount, ClearTimeToRetry, ClearRetryCount, Writes
    <2>2. /\ purpose[s] # "setup" /\ slot[s] \in Slots /\ conn[s] \in Nodes
          /\ pc[s] = "increase" => held[s] \in 0..MaxRetry
      BY <1>0, <2>1 DEF Booked, Found, EditOK
    <2>3. PICK next \in {"recount", "putback", "reset", "clock"} : Goto(s, next) \/ Stir(s, next)
      BY <1>6 DEF SetTimeToRetry, SetRetryCount, ClearTimeToRetry, ClearRetryCount
    <2>4. /\ pc' \in [Senders -> Places] /\ pc'[s] = next
          /\ \A t \in Senders \ {s} : pc'[t] = pc[t] \/ {pc[t], pc'[t]} \subseteq Sorting
      BY <2>3, FoundPlaces, PlaceType
    <2>5. /\ UNCHANGED <<purpose, slot, conn, nodeToConnect, handlers, connections, timeTillTimeout>>
          /\ held' \in {held, [held EXCEPT ![s] = 0]}
      BY <1>6 DEF SetTimeToRetry, SetRetryCount, ClearTimeToRetry, ClearRetryCount, Hold
    <2>6. OthersStay(s)
      BY <2>4, <2>5 DEF OthersStay
    <2>7. EditOK(s)'
      BY <1>0, <2>2, <2>3, <2>4, <2>5 DEF EditOK, Booked
    <2>8. \A t \in Senders : EditOK(t)'
      BY <2>6, <2>7, OthersKeep
    <2>9. timeToRetry' \in [Nodes -> Int]
      <3>1. held[s] \in Int
        BY <1>0 DEF EditOK
      <3> QED
        BY <1>6, <3>1 DEF SetTimeToRetry, SetRetryCount, ClearTimeToRetry, ClearRetryCount
    <2>10. retryCount' \in [Nodes -> 0..MaxRetry]
      <3>1. CASE SetRetryCount(s)
        <4>1. held[s] \in 0..MaxRetry /\ held[s] < MaxRetry
          BY <2>2, <3>1 DEF SetRetryCount, Writes
        <4>2. held[s] + 1 \in 0..MaxRetry
          BY <4>1, TimeAssumption
        <4> QED
          BY <3>1, <4>2 DEF SetRetryCount
      <3>2. CASE ClearRetryCount(s)
        <4>1. 0 \in 0..MaxRetry
          BY TimeAssumption
        <4> QED
          BY <3>2, <4>1 DEF ClearRetryCount
      <3> QED
        BY <1>6, <3>1, <3>2 DEF SetTimeToRetry, ClearTimeToRetry
    <2>11. UNCHANGED <<isConnected, target, kind, due, outside>>
      BY <1>6 DEF SetTimeToRetry, SetRetryCount, ClearTimeToRetry, ClearRetryCount, Writes
    <2> QED
      BY <2>4, <2>5, <2>6, <2>8, <2>9, <2>10, <2>11 DEF OthersStay
  <1>7. CASE SetTimeTillTimeout(s)
    <2>1. pc[s] = "renew" /\ timeTillTimeout' = held[s] /\ held[s] \in Int
      BY <1>0, <1>7 DEF SetTimeTillTimeout, Writes, EditOK
    <2>2. PICK next \in {"choose", "putback"} : Goto(s, next)
      BY <1>7 DEF SetTimeTillTimeout
    <2>3. /\ pc' \in [Senders -> Places] /\ pc'[s] = next
          /\ \A t \in Senders \ {s} : pc'[t] = pc[t] \/ {pc[t], pc'[t]} \subseteq Sorting
      BY <2>2, FoundPlaces, PlaceType
    <2>4. OthersStay(s)
      BY <1>7, <2>3 DEF OthersStay, SetTimeTillTimeout, LetGo, Hold
    <2>5. EditOK(s)'
      <3>1. CASE purpose[s] = "setup"
        <4>1. Goto(s, "choose") /\ LetGo(s)
          BY <1>7, <3>1 DEF SetTimeTillTimeout
        <4>2. /\ pc'[s] = "choose" /\ purpose'[s] = "none" /\ slot'[s] = 0
              /\ conn'[s] = NoNode /\ held'[s] = 0
          BY <4>1 DEF Goto, LetGo, Hold
        <4> QED
          BY <4>2, LooseEdit, FoundPlaces
      <3>2. CASE purpose[s] # "setup"
        <4>1. Goto(s, "putback") /\ Hold(s, 0) /\ UNCHANGED <<purpose, slot, conn>>
          BY <1>7, <3>2 DEF SetTimeTillTimeout
        <4>2. Booked(s) /\ pc'[s] = "putback" /\ held'[s] = 0
          BY <2>1, <3>2, <4>1 DEF Booked, Found, Goto, Hold
        <4> QED
          BY <1>0, <3>2, <4>1, <4>2 DEF EditOK, Booked
      <3> QED
        BY <3>1, <3>2
    <2>6. \A t \in Senders : EditOK(t)'
      BY <2>4, <2>5, OthersKeep
    <2> QED
      BY <1>7, <2>1, <2>3, <2>4, <2>6 DEF SetTimeTillTimeout, Writes, OthersStay
  <1>8. CASE PutBack(s)
    <2>1. pc[s] = "putback" /\ slot[s] \in Slots /\ conn[s] \in Nodes
      BY <1>0, <1>8 DEF PutBack, Writes, EditOK, Booked, Found
    <2>2. After(s) \in {"choose", "post", "returned"} /\ Stir(s, After(s))
      BY <1>8 DEF PutBack, After
    <2>3. /\ pc' \in [Senders -> Places] /\ pc'[s] = After(s)
          /\ \A t \in Senders \ {s} : pc'[t] = pc[t] \/ {pc[t], pc'[t]} \subseteq Sorting
      BY <2>2, FoundPlaces, PlaceType
    <2>4. OthersStay(s)
      BY <1>8, <2>3 DEF OthersStay, PutBack, LetGo, Hold, Forget
    <2>5. EditOK(s)'
      <3>1. purpose'[s] = "none" /\ slot'[s] = 0 /\ conn'[s] = NoNode /\ held'[s] = 0
        BY <1>8 DEF PutBack, LetGo, Hold
      <3> QED
        BY <2>2, <2>3, <3>1, LooseEdit, FoundPlaces
    <2>6. \A t \in Senders : EditOK(t)'
      BY <2>4, <2>5, OthersKeep
    <2>7. connections' \in [Slots -> Nodes]
      BY <1>8, <2>1 DEF PutBack
    <2>8. /\ nodeToConnect' \in [Senders -> Nodes \cup {NoNode}]
          /\ handlers' \in [Senders -> SUBSET (Nodes \cup {NoNode})]
      BY <1>8 DEF PutBack, Forget, NoHandlers
    <2> QED
      BY <1>8, <2>3, <2>4, <2>6, <2>7, <2>8 DEF PutBack, Writes, OthersStay
  <1> QED
    BY <1>1, <1>2, <1>3, <1>4, <1>5, <1>6, <1>7, <1>8 DEF Bookkeeping

(* The calls keep the types: setup(), the sends and their retry.           *)
LEMMA StartType ==
    ASSUME TypeOK, NEW s \in Senders,
           StartSetup(s) \/ (\E k \in Kinds : StartSend(s, k)) \/ Check(s) \/ Again(s)
    PROVE  TypeOK'
  <1> USE DEF TypeOK, globals, book, retries, target, task, edit, world, outside
  <1>0. EditOK(s)
    OBVIOUS
  <1>1. PICK next \in {"clock", "check", "post", "charge"} : Goto(s, next)
    BY DEF StartSetup, StartSend, Check, Again
  <1>2. next \in Places
    BY FoundPlaces DEF Places
  <1>3. /\ pc' \in [Senders -> Places] /\ pc'[s] = next
        /\ \A t \in Senders \ {s} : pc'[t] = pc[t] \/ {pc[t], pc'[t]} \subseteq Sorting
    BY <1>1, <1>2, PlaceType
  <1>4. CASE StartSetup(s)
    <2>1. connections' \in [Slots -> Nodes]
      BY <1>4, ListAssumption DEF StartSetup, Nodes
    <2>2. retryCount' \in [Nodes -> 0..MaxRetry] /\ timeToRetry' \in [Nodes -> Int]
      <3>1. 0 \in 0..MaxRetry
        BY TimeAssumption
      <3> QED
        BY <1>4, <3>1 DEF StartSetup
    <2>3. httpClient' \in Clients
      BY <1>4 DEF StartSetup, DropBuilder, Clients
    <2>4. OthersStay(s)
      BY <1>3, <1>4 DEF OthersStay, StartSetup
    <2>5. EditOK(s)'
      <3>1. purpose'[s] = "setup" /\ pc'[s] = "clock" /\ UNCHANGED <<slot, conn, held>>
        BY <1>4 DEF StartSetup, Goto
      <3> QED
        BY <1>0, <3>1, LooseEdit DEF EditOK
    <2>6. \A t \in Senders : EditOK(t)'
      BY <2>4, <2>5, OthersKeep
    <2>7. /\ kind' \in [Senders -> {"setup", "async", "sync"}]
          /\ tried' \in [Senders -> BOOLEAN] /\ setups' \in Nat
      BY <1>4 DEF StartSetup
    <2> QED
      BY <1>3, <1>4, <2>1, <2>2, <2>3, <2>4, <2>6, <2>7 DEF StartSetup, OthersStay
  <1>5. ASSUME UNCHANGED <<edit, nodeToConnect>>, next # "clock", pc[s] \notin {"clock", "renew"}
        PROVE  OthersStay(s) /\ \A t \in Senders : EditOK(t)'
    <2>1. OthersStay(s)
      BY <1>3, <1>5 DEF OthersStay
    <2>2. purpose[s] # "setup"
      BY <1>0, <1>5 DEF EditOK
    <2>3. EditOK(s)'
      BY <1>0, <1>1, <1>3, <1>5, <2>2, LooseEdit, FoundPlaces DEF EditOK
    <2> QED
      BY <2>1, <2>3, OthersKeep
  <1>6. ASSUME NEW k \in Kinds, StartSend(s, k) PROVE TypeOK'
    <2>1. httpClient' \in Clients
      BY <1>6 DEF StartSend, DropBuilder, Clients
    <2>2. kind' \in [Senders -> {"setup", "async", "sync"}]
      BY <1>6, KindAssumption DEF StartSend
    <2>3. calls' \in Nat /\ tried' \in [Senders -> BOOLEAN]
      BY <1>6 DEF StartSend
    <2>4. next = "check" /\ pc[s] \notin {"clock", "renew"}
      BY <1>3, <1>6 DEF StartSend, Goto, Resting
    <2>5. OthersStay(s) /\ \A t \in Senders : EditOK(t)'
      BY <1>5, <1>6, <2>4 DEF StartSend
    <2> QED
      BY <1>3, <1>6, <2>1, <2>2, <2>3, <2>5 DEF StartSend, OthersStay
  <1>7. CASE Check(s) \/ Again(s)
    <2>1. next # "clock" /\ pc[s] \notin {"clock", "renew"}
      BY <1>3, <1>7 DEF Check, Again, Goto
    <2>2. OthersStay(s) /\ \A t \in Senders : EditOK(t)'
      BY <1>5, <1>7, <2>1 DEF Check, Again
    <2> QED
      BY <1>3, <1>7, <2>2 DEF Check, Again, OthersStay
  <1> QED
    BY <1>4, <1>6, <1>7

(* Choosing a node and waiting for it keeps the types.                     *)
LEMMA ChooseType ==
    ASSUME TypeOK, NEW s \in Senders,
           \/ BudgetSpent(s) \/ BeginSort(s) \/ EndSort(s) \/ SortThrows(s)
           \/ TakeFirst(s) \/ SetCurrentNode(s) \/ PrepareHeader(s)
           \/ WaitOver(s) \/ WaitExpires(s)
    PROVE  TypeOK'
  <1> USE DEF TypeOK, globals, book, retries, target, task, world, outside
  <1>0. EditOK(s) /\ purpose[s] \in Purposes \cup {"none", "setup"} /\ slot[s] \in Slots \cup {0}
        /\ conn[s] \in Nodes \cup {NoNode} /\ held[s] \in Int
    BY DEF EditOK
  <1>1. pc[s] \notin {"clock", "renew"}
    BY DEF BudgetSpent, BeginSort, EndSort, SortThrows, TakeFirst, SetCurrentNode, PrepareHeader,
           WaitOver, WaitExpires
  <1>2. purpose[s] # "setup"
    BY <1>0, <1>1 DEF EditOK
  <1>3. ASSUME UNCHANGED edit, NEW next \in Places, Goto(s, next) \/ Sort(s, next),
               \A t \in Senders \ {s} : nodeToConnect'[t] = nodeToConnect[t],
               next \notin Found, next \in {"current", "look"} => nodeToConnect'[s] \in Nodes
        PROVE  /\ pc' \in [Senders -> Places]
               /\ OthersStay(s) /\ \A t \in Senders : EditOK(t)'
    <2>1. /\ pc' \in [Senders -> Places] /\ pc'[s] = next
          /\ \A t \in Senders \ {s} : pc'[t] = pc[t] \/ {pc[t], pc'[t]} \subseteq Sorting
      BY <1>3, PlaceType
    <2>2. OthersStay(s)
      BY <1>3, <2>1 DEF OthersStay, edit
    <2>3. UNCHANGED <<purpose, slot, conn, held>>
      BY <1>3 DEF edit
    <2>4. EditOK(s)'
      BY <1>0, <1>2, <1>3, <2>1, <2>3 DEF EditOK, Booked, Found
    <2> QED
      BY <2>1, <2>2, <2>4, OthersKeep
  <1>4. CASE BudgetSpent(s) \/ BeginSort(s) \/ WaitOver(s) \/ WaitExpires(s)
    <2>1. \E next \in {"returned", "timedOut", "sort", "ask"} : Goto(s, next)
      BY <1>4 DEF BudgetSpent, BeginSort, WaitOver, WaitExpires, Leave, Expired
    <2>2. PICK next \in {"returned", "timedOut", "sort", "ask"} : Goto(s, next)
      BY <2>1
    <2>3. next \in Places /\ next \notin Found /\ next \notin {"current", "look"}
      BY DEF Places, Resting, Sorting, Found
    <2>4. /\ nodeToConnect' \in [Senders -> Nodes \cup {NoNode}]
          /\ \A t \in Senders \ {s} : nodeToConnect'[t] = nodeToConnect[t]
          /\ handlers' \in [Senders -> SUBSET (Nodes \cup {NoNode})]
          /\ due' \in [Senders -> Int] /\ UNCHANGED edit
          /\ baseUrl' \in Nodes \cup {NoNode}
      BY <1>4 DEF BudgetSpent, BeginSort, WaitOver, WaitExpires, Leave, Forget, NoHandlers
    <2>5. pc' \in [Senders -> Places] /\ OthersStay(s) /\ \A t \in Senders : EditOK(t)'
      BY <1>3, <2>2, <2>3, <2>4
    <2> QED
      BY <1>4, <2>4, <2>5 DEF OthersStay, BudgetSpent, BeginSort, WaitOver, WaitExpires, Leave
  <1>5. CASE EndSort(s)
    <2>1. "first" \in Places /\ "first" \notin Found
      BY DEF Places, Found
    <2>2. pc' \in [Senders -> Places] /\ OthersStay(s) /\ \A t \in Senders : EditOK(t)'
      BY <1>3, <1>5, <2>1 DEF EndSort
    <2>3. connections' \in [Slots -> Nodes]
      BY <1>5, SortType DEF EndSort, Sort
    <2> QED
      BY <1>5, <2>2, <2>3 DEF EndSort, OthersStay
  <1>6. CASE SortThrows(s)
    <2>1. PICK place \in {"crashed", "find"} : Sort(s, place) /\ Unwind(s, place)
      BY <1>6 DEF SortThrows
    <2>2. /\ pc' \in [Senders -> Places] /\ pc'[s] = place
          /\ \A t \in Senders \ {s} : pc'[t] = pc[t] \/ {pc[t], pc'[t]} \subseteq Sorting
      BY <2>1, FoundPlaces, PlaceType
    <2>3. /\ OthersStay(s) /\ EditOK(s)'
          /\ nodeToConnect' \in [Senders -> Nodes \cup {NoNode}]
      BY <2>1, <2>2, UnwindType
    <2>4. \A t \in Senders : EditOK(t)'
      BY <2>3, OthersKeep
    <2>5. connections' \in [Slots -> Nodes]
      BY <2>1, SortType DEF Sort
    <2> QED
      BY <1>6, <2>2, <2>3, <2>4, <2>5 DEF SortThrows, OthersStay
  <1>7. CASE TakeFirst(s)
    <2>1. PICK list \in Views(s) : nodeToConnect' = [nodeToConnect EXCEPT ![s] = list[1]]
      BY <1>7 DEF TakeFirst
    <2>2. list[1] \in Nodes
      BY <2>1, FirstSlot, ViewsType
    <2>3. /\ nodeToConnect' \in [Senders -> Nodes \cup {NoNode}] /\ nodeToConnect'[s] \in Nodes
          /\ \A t \in Senders \ {s} : nodeToConnect'[t] = nodeToConnect[t]
      BY <2>1, <2>2
    <2>4. "current" \in Places /\ "current" \notin Found
      BY DEF Places, Found
    <2>5. pc' \in [Senders -> Places] /\ OthersStay(s) /\ \A t \in Senders : EditOK(t)'
      BY <1>3, <1>7, <2>3, <2>4 DEF TakeFirst
    <2> QED
      BY <1>7, <2>3, <2>5 DEF TakeFirst, OthersStay
  <1>8. CASE SetCurrentNode(s) \/ PrepareHeader(s)
    <2>1. nodeToConnect[s] \in Nodes
      BY <1>0, <1>8 DEF SetCurrentNode, PrepareHeader, EditOK
    <2>2. PICK next \in {"look", "wait"} : Goto(s, next)
      BY <1>8 DEF SetCurrentNode, PrepareHeader
    <2>3. next \in Places /\ next \notin Found
      BY DEF Places, Found
    <2>4. UNCHANGED <<nodeToConnect, edit>>
      BY <1>8 DEF SetCurrentNode, PrepareHeader
    <2>5. pc' \in [Senders -> Places] /\ OthersStay(s) /\ \A t \in Senders : EditOK(t)'
      BY <1>3, <2>1, <2>2, <2>3, <2>4
    <2>6. httpClient' \in Clients /\ currentNode' \in Nodes \cup {NoNode}
      BY <1>8, <2>1 DEF SetCurrentNode, PrepareHeader, Clients
    <2>7. due' \in [Senders -> Int]
      BY <1>8, <2>1 DEF SetCurrentNode, PrepareHeader
    <2> QED
      BY <1>8, <2>4, <2>5, <2>6, <2>7 DEF SetCurrentNode, PrepareHeader, OthersStay
  <1> QED
    BY <1>4, <1>5, <1>6, <1>7, <1>8

(* Connecting, probing and sending keep the types; above all, no client is *)
(* built with a negative timeout.                                          *)
LEMMA TalkType ==
    ASSUME TypeOK, NEW s \in Senders,
           \/ Connect(s) \/ Request(s) \/ GetOk(s) \/ GetBad(s) \/ GetFails(s)
           \/ PostAsync(s) \/ PostSync(s) \/ PostAnswered(s) \/ PostFails(s)
    PROVE  TypeOK'
  <1> USE DEF TypeOK, globals, book, retries, target, task, edit, world, outside
  <1>0. EditOK(s) /\ purpose[s] \in Purposes \cup {"none", "setup"} /\ slot[s] \in Slots \cup {0}
        /\ conn[s] \in Nodes \cup {NoNode} /\ held[s] \in Int
    BY DEF EditOK
  <1>1. pc[s] \notin {"clock", "renew"}
    BY DEF Connect, AskConnected, ReadBudget, LessNow, Reads, SetHttpClient, Request, GetOk, GetBad,
           GetFails, PostAsync, PostSync, PostAnswered, PostFails
  <1>2. purpose[s] # "setup"
    BY <1>0, <1>1 DEF EditOK
  <1>3. ASSUME UNCHANGED <<purpose, slot, conn, held>>, NEW next \in Places, Goto(s, next),
               \A t \in Senders \ {s} : nodeToConnect'[t] = nodeToConnect[t],
               next \notin Found, next \notin {"current", "look"}
        PROVE  /\ pc' \in [Senders -> Places]
               /\ OthersStay(s) /\ \A t \in Senders : EditOK(t)'
    <2>1. /\ pc' \in [Senders -> Places] /\ pc'[s] = next
          /\ \A t \in Senders \ {s} : pc'[t] = pc[t] \/ {pc[t], pc'[t]} \subseteq Sorting
      BY <1>3, PlaceType
    <2>2. OthersStay(s)
      BY <1>3, <2>1 DEF OthersStay
    <2>3. EditOK(s)'
      BY <1>0, <1>2, <1>3, <2>1, LooseEdit
    <2> QED
      BY <2>1, <2>2, <2>3, OthersKeep
  <1>4. ASSUME NEW why \in Purposes, NEW n \in Nodes \cup {NoNode}, Process(s, why, n),
               UNCHANGED nodeToConnect
        PROVE  /\ pc' \in [Senders -> Places]
               /\ OthersStay(s) /\ \A t \in Senders : EditOK(t)'
    <2>1. /\ pc' \in [Senders -> Places] /\ pc'[s] = "find"
          /\ \A t \in Senders \ {s} : pc'[t] = pc[t] \/ {pc[t], pc'[t]} \subseteq Sorting
      BY <1>4, FoundPlaces, PlaceType DEF Process
    <2>2. OthersStay(s)
      BY <1>4, <2>1 DEF OthersStay, Process, Begin
    <2>3. purpose'[s] = why /\ conn'[s] = n /\ slot'[s] = slot[s] /\ held'[s] = held[s]
      BY <1>4 DEF Process, Begin
    <2>4. EditOK(s)'
      BY <1>0, <1>4, <2>1, <2>3, LooseEdit, FoundPlaces DEF Purposes
    <2> QED
      BY <2>1, <2>2, <2>4, OthersKeep
  <1>5. {"failed", "succeeded"} \subseteq Purposes
    BY DEF Purposes
  <1>6. CASE AskConnected(s)
    <2>1. PICK next \in {"build", "request"} : Goto(s, next)
      BY <1>6 DEF AskConnected
    <2>2. next \in Places /\ next \notin Found /\ next \notin {"current", "look"}
      BY FoundPlaces DEF Places
    <2>3. pc' \in [Senders -> Places] /\ OthersStay(s) /\ \A t \in Senders : EditOK(t)'
      BY <1>3, <1>6, <2>1, <2>2 DEF AskConnected
    <2> QED
      BY <1>6, <2>3 DEF AskConnected, OthersStay
  <1>7. CASE ReadBudget(s) \/ LessNow(s)
    <2>1. held[s] - now \in Int
      BY <1>0
    <2>2. {"client", "publish"} \subseteq Places
      BY FoundPlaces
    <2>3. \A next \in {"client", "publish"} : next \notin Found /\ next \notin {"current", "look", "increase"}
      BY FoundPlaces
    <2> QED
      BY <1>2, <1>7, <2>1, <2>2, <2>3, ReadsType DEF ReadBudget, LessNow
  <1>8. CASE SetHttpClient(s)
    <2>1. CASE Affordable(s)
      <3>1. httpClient' = [timeout |-> held[s], owner |-> s, headers |-> nodeToConnect[s]]
            /\ Goto(s, "request") /\ LetGo(s)
        BY <1>8, <2>1 DEF SetHttpClient
      <3>2. httpClient' \in Clients
        BY <1>0, <2>1, <3>1 DEF Affordable, Clients
      <3>3. "request" \in Places
        BY DEF Places
      <3>4. /\ pc' \in [Senders -> Places] /\ pc'[s] = "request"
            /\ \A t \in Senders \ {s} : pc'[t] = pc[t] \/ {pc[t], pc'[t]} \subseteq Sorting
        BY <3>1, <3>3, PlaceType
      <3>5. OthersStay(s)
        BY <1>8, <3>1, <3>4 DEF OthersStay, SetHttpClient, LetGo, Hold
      <3>6. purpose'[s] = "none" /\ conn'[s] = NoNode /\ slot'[s] = 0 /\ held'[s] = 0
        BY <3>1 DEF LetGo, Hold
      <3>7. EditOK(s)'
        BY <3>4, <3>6, LooseEdit, FoundPlaces
      <3>8. \A t \in Senders : EditOK(t)'
        BY <3>5, <3>7, OthersKeep
      <3> QED
        BY <1>8, <3>2, <3>4, <3>5, <3>8 DEF SetHttpClient, OthersStay
    <2>2. CASE ~Affordable(s)
      <3>1. Process(s, "failed", nodeToConnect[s]) /\ UNCHANGED <<httpClient, nodeToConnect>>
        BY <1>8, <2>2 DEF SetHttpClient
      <3>2. pc' \in [Senders -> Places] /\ OthersStay(s) /\ \A t \in Senders : EditOK(t)'
        BY <1>4, <1>5, <3>1
      <3> QED
        BY <1>8, <3>1, <3>2 DEF SetHttpClient, OthersStay
    <2> QED
      BY <2>1, <2>2
  <1>9. CASE Request(s) \/ PostSync(s) \/ PostAsync(s)
    <2>1. PICK next \in {"get", "exchange", "settle"} : Goto(s, next)
      BY <1>9 DEF Request, PostSync, PostAsync
    <2>2. next \in Places /\ next \notin Found /\ next \notin {"current", "look"}
      BY FoundPlaces DEF Places
    <2>3. Deadline(httpClient.timeout) \in Nat
      BY DeadlineType DEF Clients
    <2>8. due' \in {due, [due EXCEPT ![s] = Deadline(httpClient.timeout)]}
      BY <1>9 DEF Request, PostSync, PostAsync
    <2>9. due' \in [Senders -> Int]
      BY <2>3, <2>8
    <2>4. due' \in [Senders -> Int] /\ tried' \in [Senders -> BOOLEAN]
      BY <1>9, <2>9 DEF Request, PostSync, PostAsync
    <2>5. /\ nodeToConnect' \in [Senders -> Nodes \cup {NoNode}]
          /\ \A t \in Senders \ {s} : nodeToConnect'[t] = nodeToConnect[t]
          /\ UNCHANGED <<purpose, slot, conn, held, globals, kind, handlers, world>>
      BY <1>9 DEF Request, PostSync, PostAsync
    <2>6. pc' \in [Senders -> Places] /\ OthersStay(s) /\ \A t \in Senders : EditOK(t)'
      BY <1>3, <2>1, <2>2, <2>5
    <2>7. inflight' \in [Nodes -> Nat]
      <3>1. CASE PostAsync(s)
        <4>1. inflight' = [inflight EXCEPT ![baseUrl] = @ + 1]
          BY <3>1 DEF PostAsync
        <4>2. CASE baseUrl \in Nodes
          <5>1. inflight[baseUrl] + 1 \in Nat
            BY <4>2
          <5> QED
            BY <4>1, <5>1
        <4>3. CASE baseUrl \notin Nodes
          BY <4>1, <4>3
        <4> QED
          BY <4>2, <4>3
      <3>2. CASE Request(s) \/ PostSync(s)
        BY <3>2 DEF Request, PostSync
      <3> QED
        BY <1>9, <3>1, <3>2
    <2> QED
      BY <2>4, <2>5, <2>6, <2>7 DEF OthersStay
  <1>10. CASE GetOk(s) \/ GetBad(s) \/ GetFails(s)
    <2>1. PICK why \in {"failed", "succeeded"} : Process(s, why, nodeToConnect[s])
      BY <1>10 DEF GetOk, GetBad, GetFails, Probed
    <2>2. isConnected' \in BOOLEAN
      BY <1>10 DEF GetOk, GetBad, GetFails, Outcome
    <2>3. UNCHANGED <<book, target, kind, nodeToConnect, world, tried, inflight>>
      BY <1>10 DEF GetOk, GetBad, GetFails, Outcome
    <2>4. pc' \in [Senders -> Places] /\ OthersStay(s) /\ \A t \in Senders : EditOK(t)'
      BY <1>4, <1>5, <2>1, <2>3
    <2>7. due' = [due EXCEPT ![s] = 0]
      BY <1>10 DEF GetOk, GetBad, GetFails, Probed
    <2>5. due' \in [Senders -> Int]
      BY <2>7
    <2>6. handlers' \in [Senders -> SUBSET (Nodes \cup {NoNode})]
      <3>1. handlers' \in {handlers, [handlers EXCEPT ![s] = @ \cup {nodeToConnect[s]}]}
        BY <1>10 DEF GetOk, GetBad, GetFails
      <3>2. handlers[s] \cup {nodeToConnect[s]} \in SUBSET (Nodes \cup {NoNode})
        OBVIOUS
      <3> QED
        BY <3>1, <3>2
    <2> QED
      BY <2>2, <2>3, <2>4, <2>5, <2>6 DEF OthersStay
  <1>11. CASE PostAnswered(s) \/ PostFails(s)
    <2>1. PICK next \in {"settle", "again"} : Goto(s, next)
      BY <1>11 DEF PostAnswered, PostFails, Leave
    <2>2. next \in Places /\ next \notin Found /\ next \notin {"current", "look"}
      BY FoundPlaces DEF Places
    <2>6. isConnected' \in BOOLEAN /\ due' = [due EXCEPT ![s] = 0]
      BY <1>11 DEF PostAnswered, PostFails, Outcome, Leave
    <2>3. isConnected' \in BOOLEAN /\ due' \in [Senders -> Int]
      BY <2>6
    <2>4. UNCHANGED <<book, target, kind, nodeToConnect, world, tried, inflight, handlers,
                      purpose, slot, conn, held>>
      BY <1>11 DEF PostAnswered, PostFails, Outcome
    <2>5. pc' \in [Senders -> Places] /\ OthersStay(s) /\ \A t \in Senders : EditOK(t)'
      BY <1>3, <2>1, <2>2, <2>4
    <2> QED
      BY <2>3, <2>4, <2>5 DEF OthersStay
  <1> QED
    BY <1>6, <1>7, <1>8, <1>9, <1>10, <1>11 DEF Connect

(* Every step keeps every variable in its type.                            *)
LEMMA StepType == TypeOK /\ [Next]_vars => TypeOK'
  <1> SUFFICES ASSUME TypeOK, [Next]_vars PROVE TypeOK'
    OBVIOUS
  <1> USE DEF globals, book, retries, target, task, edit, world, outside
  <1>1. ASSUME NEW s \in Senders, StartSetup(s) \/ Step(s) PROVE TypeOK'
    BY <1>1, StartType, BookkeepingType, ChooseType, TalkType DEF Step
  <1>2. ASSUME NEW s \in Senders, NEW k \in Kinds, StartSend(s, k) PROVE TypeOK'
    BY <1>2, StartType
  <1>3. ASSUME UNCHANGED <<pc, edit, nodeToConnect>> PROVE \A t \in Senders : EditOK(t)'
    BY <1>3 DEF TypeOK, EditOK, Booked
  <1>4. ASSUME NEW n \in Nodes, AsyncAnswered(n) \/ AsyncFails(n) PROVE TypeOK'
    <2>1. inflight' \in [Nodes -> Nat]
      <3>1. inflight[n] - 1 \in Nat
        <4>1. inflight[n] \in Nat /\ inflight[n] > 0
          BY <1>4 DEF TypeOK, AsyncAnswered, AsyncFails
        <4> QED
          BY <4>1
      <3>2. inflight' = [inflight EXCEPT ![n] = inflight[n] - 1]
        BY <1>4 DEF AsyncAnswered, AsyncFails
      <3> QED
        BY <3>1, <3>2 DEF TypeOK
    <2>2. isConnected' \in BOOLEAN
      BY <1>4 DEF AsyncAnswered, AsyncFails, Outcome
    <2>3. UNCHANGED <<book, target, kind, nodeToConnect, handlers, world, tried, pc, due, edit>>
      BY <1>4 DEF AsyncAnswered, AsyncFails, Outcome
    <2>4. \A t \in Senders : EditOK(t)'
      BY <1>3, <2>3
    <2> QED
      BY <2>1, <2>2, <2>3, <2>4 DEF TypeOK
  <1>5. CASE Tick
    <2>1. \A t \in Senders : EditOK(t)'
      BY <1>3, <1>5 DEF Tick
    <2>2. now' \in Nat
      BY <1>5 DEF Tick, TypeOK
    <2> QED
      BY <1>5, <2>1, <2>2 DEF Tick, TypeOK
  <1>6. CASE UNCHANGED vars
    <2>1. \A t \in Senders : EditOK(t)'
      BY <1>3, <1>6 DEF vars
    <2> QED
      BY <1>6, <2>1 DEF vars, TypeOK
  <1> QED
    BY <1>1, <1>2, <1>4, <1>5, <1>6 DEF Next, Calls

(* Every reachable state is well typed: no thread is ever at an unknown    *)
(* place, no client has a negative timeout, no slot of the list is empty,  *)
(* and no method puts a connection back into a slot that is not there.     *)
THEOREM TypeCorrect == Spec => []TypeOK
  BY InitType, StepType, PTL DEF Spec

-----------------------------------------------------------------------------
(* What a step of one thread does to what it shares with the others.       *)
Acts(s) == StartSetup(s) \/ (\E k \in Kinds : StartSend(s, k)) \/ Step(s)

(* The clock stands still; what other threads hold and wait for is theirs. *)
LEMMA OthersWait ==
    ASSUME TypeOK, NEW s \in Senders, Acts(s)
    PROVE  /\ now' = now
           /\ \A t \in Senders \ {s} :
                 /\ pc'[t] = pc[t] \/ {pc[t], pc'[t]} \subseteq Sorting
                 /\ held'[t] = held[t] /\ due'[t] = due[t]
  <1> USE DEF globals, book, retries, target, task, edit, world, outside
  <1>1. CASE StartSetup(s) \/ (\E k \in Kinds : StartSend(s, k)) \/ Check(s) \/ Again(s)
    BY <1>1 DEF TypeOK, StartSetup, StartSend, Check, Again, Goto
  <1>2. CASE ReadCurrentNode(s) \/ Find(s) \/ Fetch(s) \/ ReadCount(s) \/ AddDelay(s)
             \/ RereadCount(s) \/ SetRetryCount(s) \/ ClearRetryCount(s) \/ AddTimeout(s)
             \/ SetTimeTillTimeout(s)
    BY <1>2 DEF TypeOK, ReadCurrentNode, Find, Fetch, ReadCount, AddDelay, RereadCount, SetRetryCount,
           ClearRetryCount, AddTimeout, SetTimeTillTimeout, Reads, Writes, Process, Begin,
           Hold, LetGo, Goto
  <1>3. CASE SetTimeToRetry(s) \/ ClearTimeToRetry(s) \/ PutBack(s)
    BY <1>3 DEF TypeOK, SetTimeToRetry, ClearTimeToRetry, PutBack, Writes, Hold, LetGo, Stir, Sorting
  <1>4. CASE Missing(s)
    BY <1>4 DEF TypeOK, Missing, Process, Begin, Unwind, Hold, LetGo, Goto
  <1>5. CASE EndSort(s) \/ SortThrows(s)
    BY <1>5 DEF TypeOK, EndSort, SortThrows, Sort, Sorting, Unwind, Begin, Hold, LetGo
  <1>6. CASE BudgetSpent(s) \/ BeginSort(s) \/ TakeFirst(s) \/ SetCurrentNode(s)
             \/ PrepareHeader(s) \/ WaitOver(s) \/ WaitExpires(s)
    BY <1>6 DEF TypeOK, BudgetSpent, BeginSort, TakeFirst, SetCurrentNode, PrepareHeader, WaitOver,
           WaitExpires, Leave, Goto
  <1>7. CASE Connect(s) \/ Request(s)
    BY <1>7 DEF TypeOK, Connect, AskConnected, ReadBudget, LessNow, SetHttpClient, Reads, Request,
           Process, Begin, Hold, LetGo, Goto
  <1>8. CASE GetOk(s) \/ GetBad(s) \/ GetFails(s)
    BY <1>8 DEF TypeOK, GetOk, GetBad, GetFails, Outcome, Probed, Process, Begin, Goto
  <1>9. CASE PostAsync(s) \/ PostSync(s) \/ PostAnswered(s) \/ PostFails(s)
    BY <1>9 DEF TypeOK, PostAsync, PostSync, PostAnswered, PostFails, Outcome, Leave, Goto
  <1> QED
    BY <1>1, <1>2, <1>3, <1>4, <1>5, <1>6, <1>7, <1>8, <1>9 DEF Acts, Step, Bookkeeping

(* Where each action takes the thread.                                     *)
Hop(s, from, to) == pc[s] \in from /\ pc'[s] \in to

LEMMA StartHops ==
    ASSUME TypeOK, NEW s \in Senders
    PROVE  /\ StartSetup(s) => Hop(s, Resting, {"clock"})
           /\ \A k \in Kinds : StartSend(s, k) => Hop(s, Resting, {"check"})
           /\ Check(s) => Hop(s, {"check"}, {"post", "charge"})
           /\ Again(s) => Hop(s, {"again"}, {"check"})
           /\ BudgetSpent(s) => Hop(s, {"choose"}, {"returned", "timedOut"})
           /\ BeginSort(s) => Hop(s, {"choose"}, {"sort"})
           /\ EndSort(s) => Hop(s, {"sort", "stirred"}, {"first"})
           /\ SortThrows(s) => Hop(s, {"raced", "torn"}, {"crashed", "find"})
           /\ TakeFirst(s) => Hop(s, {"first"}, {"current"})
           /\ SetCurrentNode(s) => Hop(s, {"current"}, {"look"})
           /\ PrepareHeader(s) => Hop(s, {"look"}, {"wait"})
           /\ WaitOver(s) => Hop(s, {"wait"}, {"ask"})
           /\ WaitExpires(s) => Hop(s, {"wait"}, {"returned", "timedOut"})
  <1> USE DEF TypeOK, Hop, Goto
  <1>1. /\ StartSetup(s) => Hop(s, Resting, {"clock"})
        /\ \A k \in Kinds : StartSend(s, k) => Hop(s, Resting, {"check"})
    BY DEF StartSetup, StartSend
  <1>2. /\ Check(s) => Hop(s, {"check"}, {"post", "charge"})
        /\ Again(s) => Hop(s, {"again"}, {"check"})
    BY DEF Check, Again
  <1>3. /\ BudgetSpent(s) => Hop(s, {"choose"}, {"returned", "timedOut"})
        /\ BeginSort(s) => Hop(s, {"choose"}, {"sort"})
    BY DEF BudgetSpent, BeginSort, Expired
  <1>4. /\ EndSort(s) => Hop(s, {"sort", "stirred"}, {"first"})
        /\ SortThrows(s) => Hop(s, {"raced", "torn"}, {"crashed", "find"})
    BY DEF EndSort, SortThrows, Sort
  <1>5. /\ TakeFirst(s) => Hop(s, {"first"}, {"current"})
        /\ SetCurrentNode(s) => Hop(s, {"current"}, {"look"})
        /\ PrepareHeader(s) => Hop(s, {"look"}, {"wait"})
    BY DEF TakeFirst, SetCurrentNode, PrepareHeader
  <1>6. /\ WaitOver(s) => Hop(s, {"wait"}, {"ask"})
        /\ WaitExpires(s) => Hop(s, {"wait"}, {"returned", "timedOut"})
    BY DEF WaitOver, WaitExpires, Leave, Expired
  <1> QED
    BY <1>1, <1>2, <1>3, <1>4, <1>5, <1>6

LEMMA TalkHops ==
    ASSUME TypeOK, NEW s \in Senders
    PROVE  /\ AskConnected(s) => Hop(s, {"ask"}, {"build", "request"})
           /\ ReadBudget(s) => Hop(s, {"build"}, {"client"})
           /\ LessNow(s) => Hop(s, {"client"}, {"publish"})
           /\ SetHttpClient(s) => Hop(s, {"publish"}, {"request", "find"})
           /\ Request(s) => Hop(s, {"request"}, {"get"})
           /\ GetOk(s) \/ GetBad(s) \/ GetFails(s) => Hop(s, {"get"}, {"find"})
           /\ PostAsync(s) => Hop(s, {"post"}, {"settle"})
           /\ PostSync(s) => Hop(s, {"post"}, {"exchange"})
           /\ PostAnswered(s) => Hop(s, {"exchange"}, {"settle"})
           /\ PostFails(s) => Hop(s, {"exchange"}, {"again"})
  <1> USE DEF TypeOK, Hop, Goto
  <1>1. /\ AskConnected(s) => Hop(s, {"ask"}, {"build", "request"})
        /\ ReadBudget(s) => Hop(s, {"build"}, {"client"})
        /\ LessNow(s) => Hop(s, {"client"}, {"publish"})
    BY DEF AskConnected, ReadBudget, LessNow, Reads
  <1>2. /\ SetHttpClient(s) => Hop(s, {"publish"}, {"request", "find"})
        /\ Request(s) => Hop(s, {"request"}, {"get"})
    BY DEF SetHttpClient, Request, Process
  <1>3. GetOk(s) \/ GetBad(s) \/ GetFails(s) => Hop(s, {"get"}, {"find"})
    BY DEF GetOk, GetBad, GetFails, Probed, Process
  <1>4. /\ PostAsync(s) => Hop(s, {"post"}, {"settle"})
        /\ PostSync(s) => Hop(s, {"post"}, {"exchange"})
    BY DEF PostAsync, PostSync
  <1>5. /\ PostAnswered(s) => Hop(s, {"exchange"}, {"settle"})
        /\ PostFails(s) => Hop(s, {"exchange"}, {"again"})
    BY DEF PostAnswered, PostFails, Leave
  <1> QED
    BY <1>1, <1>2, <1>3, <1>4, <1>5

LEMMA BookHops ==
    ASSUME TypeOK, NEW s \in Senders
    PROVE  /\ ReadCurrentNode(s) => Hop(s, {"charge", "settle"}, {"find"})
           /\ Find(s) => Hop(s, {"find"}, {"fetch"})
           /\ Missing(s) => Hop(s, {"find"}, {"find", "crashed"})
           /\ Fetch(s) => Hop(s, {"fetch"}, {"count", "clear"})
           /\ ReadCount(s) => Hop(s, {"count"}, {"delay"})
           /\ AddDelay(s) => Hop(s, {"delay"}, {"defer"})
           /\ SetTimeToRetry(s) => Hop(s, {"defer"}, {"recount"})
           /\ RereadCount(s) => Hop(s, {"recount"}, {"increase"})
           /\ SetRetryCount(s) => Hop(s, {"increase"}, {"putback"})
           /\ ClearTimeToRetry(s) => Hop(s, {"clear"}, {"reset"})
           /\ ClearRetryCount(s) => Hop(s, {"reset"}, {"clock"})
           /\ AddTimeout(s) => Hop(s, {"clock"}, {"renew"})
           /\ SetTimeTillTimeout(s) => Hop(s, {"renew"}, {"choose", "putback"})
           /\ PutBack(s) => Hop(s, {"putback"}, {"choose", "post", "returned"})
  <1> USE DEF TypeOK, Hop, Goto
  <1>1. /\ ReadCurrentNode(s) => Hop(s, {"charge", "settle"}, {"find"})
        /\ Find(s) => Hop(s, {"find"}, {"fetch"})
        /\ Fetch(s) => Hop(s, {"fetch"}, {"count", "clear"})
    BY DEF ReadCurrentNode, Find, Fetch, Process
  <1>2. Missing(s) => Hop(s, {"find"}, {"find", "crashed"})
    BY DEF Missing, Process
  <1>3. /\ ReadCount(s) => Hop(s, {"count"}, {"delay"})
        /\ AddDelay(s) => Hop(s, {"delay"}, {"defer"})
        /\ RereadCount(s) => Hop(s, {"recount"}, {"increase"})
        /\ AddTimeout(s) => Hop(s, {"clock"}, {"renew"})
    BY DEF ReadCount, AddDelay, RereadCount, AddTimeout, Reads
  <1>4. /\ SetTimeToRetry(s) => Hop(s, {"defer"}, {"recount"})
        /\ ClearTimeToRetry(s) => Hop(s, {"clear"}, {"reset"})
        /\ PutBack(s) => Hop(s, {"putback"}, {"choose", "post", "returned"})
    BY DEF SetTimeToRetry, ClearTimeToRetry, PutBack, Writes, Stir, After
  <1>5. /\ SetRetryCount(s) => Hop(s, {"increase"}, {"putback"})
        /\ ClearRetryCount(s) => Hop(s, {"reset"}, {"clock"})
        /\ SetTimeTillTimeout(s) => Hop(s, {"renew"}, {"choose", "putback"})
    BY DEF SetRetryCount, ClearRetryCount, SetTimeTillTimeout, Writes
  <1> QED
    BY <1>1, <1>2, <1>3, <1>4, <1>5

(* The places where a number that was read is still held, or an instant is *)
(* waited for, and the actions that lead there.                            *)
Watched == {"delay", "defer", "increase", "reset", "renew", "client", "publish",
            "wait", "get", "exchange"}
Watches(s) ==
    \/ ReadCount(s) \/ AddDelay(s) \/ RereadCount(s) \/ ClearTimeToRetry(s) \/ AddTimeout(s)
    \/ ReadBudget(s) \/ LessNow(s) \/ PrepareHeader(s) \/ Request(s) \/ PostSync(s)

LEMMA Elsewhere ==
    ASSUME TypeOK, NEW s \in Senders, Acts(s), ~Watches(s)
    PROVE  pc'[s] \notin Watched
  <1>1. CASE Bookkeeping(s)
    BY <1>1, BookHops DEF Bookkeeping, Watches, Hop, Watched
  <1>2. CASE ~Bookkeeping(s)
    BY <1>2, StartHops, TalkHops DEF Acts, Step, Connect, Watches, Hop, Watched
  <1> QED
    BY <1>1, <1>2

(* The actions that write the books.                                       *)
LEMMA OthersLeaveBooks ==
    ASSUME TypeOK, NEW s \in Senders, Acts(s),
           ~(\/ StartSetup(s) \/ SetTimeToRetry(s) \/ SetRetryCount(s) \/ ClearTimeToRetry(s)
             \/ ClearRetryCount(s) \/ SetTimeTillTimeout(s))
    PROVE  UNCHANGED <<retries, timeTillTimeout>>
  <1> USE DEF globals, book, retries, target, task, edit, world, outside
  <1>1. CASE (\E k \in Kinds : StartSend(s, k)) \/ Check(s) \/ Again(s)
    BY <1>1 DEF StartSend, Check, Again
  <1>2. CASE Bookkeeping(s)
    BY <1>2 DEF Bookkeeping, ReadCurrentNode, Find, Missing, Fetch, ReadCount, AddDelay, RereadCount,
                AddTimeout, PutBack, Reads, Writes
  <1>3. CASE \/ BudgetSpent(s) \/ BeginSort(s) \/ EndSort(s) \/ SortThrows(s)
             \/ TakeFirst(s) \/ SetCurrentNode(s) \/ PrepareHeader(s)
             \/ WaitOver(s) \/ WaitExpires(s)
    BY <1>3 DEF BudgetSpent, BeginSort, EndSort, SortThrows, TakeFirst, SetCurrentNode, PrepareHeader,
                WaitOver, WaitExpires
  <1>4. CASE \/ Connect(s) \/ Request(s) \/ GetOk(s) \/ GetBad(s) \/ GetFails(s)
             \/ PostAsync(s) \/ PostSync(s) \/ PostAnswered(s) \/ PostFails(s)
    BY <1>4 DEF Connect, AskConnected, ReadBudget, LessNow, SetHttpClient, Reads, Request, GetOk,
                GetBad, GetFails, PostAsync, PostSync, PostAnswered, PostFails, Outcome
  <1> QED
    BY <1>1, <1>2, <1>3, <1>4 DEF Acts, Step

(* The actions that change the timeout of the client.                      *)
LEMMA OthersLeaveClient ==
    ASSUME TypeOK, NEW s \in Senders, Acts(s), ~SetHttpClient(s)
    PROVE  httpClient'.timeout = httpClient.timeout
  <1> USE DEF globals, book, retries, target, task, edit, world, outside
  <1>1. CASE StartSetup(s) \/ (\E k \in Kinds : StartSend(s, k)) \/ PrepareHeader(s)
    BY <1>1 DEF TypeOK, Clients, StartSetup, StartSend, PrepareHeader, DropBuilder
  <1>2. CASE Check(s) \/ Again(s)
    BY <1>2 DEF Check, Again
  <1>3. CASE Bookkeeping(s)
    BY <1>3 DEF Bookkeeping, ReadCurrentNode, Find, Missing, Fetch, ReadCount, AddDelay, RereadCount,
                AddTimeout, PutBack, SetTimeToRetry, SetRetryCount, ClearTimeToRetry,
                ClearRetryCount, SetTimeTillTimeout, Reads, Writes
  <1>4. CASE \/ BudgetSpent(s) \/ BeginSort(s) \/ EndSort(s) \/ SortThrows(s)
             \/ TakeFirst(s) \/ SetCurrentNode(s) \/ WaitOver(s) \/ WaitExpires(s)
    BY <1>4 DEF BudgetSpent, BeginSort, EndSort, SortThrows, TakeFirst, SetCurrentNode,
                WaitOver, WaitExpires
  <1>5. CASE \/ Connect(s) \/ Request(s) \/ GetOk(s) \/ GetBad(s) \/ GetFails(s)
             \/ PostAsync(s) \/ PostSync(s) \/ PostAnswered(s) \/ PostFails(s)
    BY <1>5 DEF Connect, AskConnected, ReadBudget, LessNow, Reads, Request, GetOk,
                GetBad, GetFails, PostAsync, PostSync, PostAnswered, PostFails, Outcome
  <1> QED
    BY <1>1, <1>2, <1>3, <1>4, <1>5 DEF Acts, Step

-----------------------------------------------------------------------------
(* Numbers that are held.  What a thread has read may be old when it is    *)
(* written; but the clock only moves on, so that an old instant is a       *)
(* smaller one.                                                            *)
HeldInv(s) ==
    /\ pc[s] = "delay" => held[s] <= Cap
    /\ pc[s] = "defer" => held[s] <= now + Cap
    /\ pc[s] \in {"renew", "client"} => held[s] <= now + Timeout
    /\ pc[s] = "publish" => held[s] <= Timeout
    /\ pc[s] = "wait" => due[s] <= now + Cap
    /\ pc[s] \in {"get", "exchange"} => due[s] <= now + Timeout \/ due[s] = Never

BoundInv ==
    /\ timeTillTimeout <= now + Timeout
    /\ \A n \in Nodes : timeToRetry[n] <= now + Cap
    /\ httpClient.timeout <= Timeout
    /\ \A s \in Senders : HeldInv(s)

LEMMA CapType == Cap \in Nat /\ Timeout \in Nat
  BY TimeAssumption DEF Cap

(* What the fields hold and what is written to them stays within bounds.   *)
LEMMA StepKeepsFields ==
    ASSUME TypeOK, TypeOK', BoundInv, NEW s \in Senders, Acts(s)
    PROVE  /\ timeTillTimeout' <= now + Timeout
           /\ \A n \in Nodes : timeToRetry'[n] <= now + Cap
           /\ httpClient'.timeout <= Timeout
  <1> USE CapType
  <1> HIDE DEF Cap
  <1>0. EditOK(s) /\ HeldInv(s) /\ held[s] \in Int /\ now \in Nat
    BY DEF TypeOK, EditOK, BoundInv
  <1>1. timeTillTimeout' <= now + Timeout
    <2>1. CASE StartSetup(s) \/ SetTimeToRetry(s) \/ SetRetryCount(s)
               \/ ClearTimeToRetry(s) \/ ClearRetryCount(s)
      BY <2>1 DEF BoundInv, StartSetup, SetTimeToRetry, SetRetryCount, ClearTimeToRetry, ClearRetryCount
    <2>2. CASE SetTimeTillTimeout(s)
      BY <1>0, <2>2 DEF SetTimeTillTimeout, Writes, HeldInv
    <2> QED
      BY <2>1, <2>2, OthersLeaveBooks DEF BoundInv
  <1>2. ASSUME NEW n \in Nodes PROVE timeToRetry'[n] <= now + Cap
    <2>1. timeToRetry[n] <= now + Cap /\ timeToRetry \in [Nodes -> Int] /\ 0 <= now + Cap
      BY <1>0 DEF BoundInv, TypeOK
    <2>2. CASE StartSetup(s)
      BY <2>1, <2>2 DEF StartSetup
    <2>3. CASE SetTimeToRetry(s)
      <3>1. held[s] <= now + Cap
        BY <1>0, <2>3 DEF SetTimeToRetry, Writes, HeldInv
      <3>2. timeToRetry' = [timeToRetry EXCEPT ![conn[s]] = held[s]]
        BY <2>3 DEF SetTimeToRetry
      <3> QED
        BY <2>1, <3>1, <3>2
    <2>4. CASE ClearTimeToRetry(s)
      BY <2>1, <2>4 DEF ClearTimeToRetry
    <2>5. CASE SetRetryCount(s) \/ ClearRetryCount(s) \/ SetTimeTillTimeout(s)
      BY <2>1, <2>5 DEF SetRetryCount, ClearRetryCount, SetTimeTillTimeout, retries
    <2> QED
      BY <2>1, <2>2, <2>3, <2>4, <2>5, OthersLeaveBooks DEF retries
  <1>3. httpClient'.timeout <= Timeout
    <2>1. CASE SetHttpClient(s) /\ Affordable(s)
      <3>1. pc[s] = "publish" /\ httpClient' = [timeout |-> held[s], owner |-> s, headers |-> nodeToConnect[s]]
        BY <2>1 DEF SetHttpClient
      <3> QED
        BY <1>0, <3>1 DEF HeldInv
    <2>2. CASE SetHttpClient(s) /\ ~Affordable(s)
      BY <2>2 DEF SetHttpClient, BoundInv
    <2> QED
      BY <2>1, <2>2, OthersLeaveClient DEF BoundInv
  <1> QED
    BY <1>1, <1>2, <1>3

(* What a thread reads, computes or waits for is within bounds.            *)
LEMMA StepKeepsHeld ==
    ASSUME TypeOK, BoundInv, NEW s \in Senders, Acts(s)
    PROVE  HeldInv(s)'
  <1> USE CapType DEF globals, book, retries, target, task, edit, world, outside
  <1> HIDE DEF Cap
  <1>0. EditOK(s) /\ HeldInv(s) /\ held[s] \in Int /\ now \in Nat
    BY DEF TypeOK, EditOK, BoundInv
  <1>1. ASSUME NEW place, NEW number \in Int, NEW next \in Watched,
               Reads(s, place, number, next)
        PROVE  pc'[s] = next /\ held'[s] = number /\ now' = now /\ pc[s] = place
    BY <1>1 DEF TypeOK, Reads, Goto, Hold
  <1>2. CASE ReadCount(s)
    <2>0. pc[s] = "count"
      BY <1>2 DEF ReadCount, Reads
    <2>1. conn[s] \in Nodes
      BY <1>0, <2>0 DEF EditOK, Booked, Found
    <2>2. Backoff(retryCount[conn[s]]) \in Int /\ Backoff(retryCount[conn[s]]) <= Cap
      BY <2>1, BackoffType DEF TypeOK
    <2>3. pc'[s] = "delay" /\ held'[s] = Backoff(retryCount[conn[s]])
      BY <1>1, <1>2, <2>2 DEF ReadCount, Watched
    <2> QED
      BY <2>2, <2>3 DEF HeldInv
  <1>3. CASE AddDelay(s)
    <2>1. now + held[s] \in Int
      BY <1>0
    <2>2. pc'[s] = "defer" /\ held'[s] = now + held[s] /\ now' = now /\ pc[s] = "delay"
      BY <1>1, <1>3, <2>1 DEF AddDelay, Watched
    <2> QED
      BY <1>0, <2>2 DEF HeldInv
  <1>4. CASE RereadCount(s) \/ ClearTimeToRetry(s)
    <2>1. pc'[s] \in {"increase", "reset"}
      BY <1>4 DEF TypeOK, RereadCount, Reads, ClearTimeToRetry, Goto, Stir
    <2> QED
      BY <2>1 DEF HeldInv
  <1>5. CASE AddTimeout(s)
    <2>1. now + Timeout \in Int
      BY <1>0
    <2>2. pc'[s] = "renew" /\ held'[s] = now + Timeout /\ now' = now
      BY <1>1, <1>5, <2>1 DEF AddTimeout, Watched
    <2> QED
      BY <1>0, <2>2 DEF HeldInv
  <1>6. CASE ReadBudget(s)
    <2>1. timeTillTimeout \in Int /\ timeTillTimeout <= now + Timeout
      BY DEF TypeOK, BoundInv
    <2>2. pc'[s] = "client" /\ held'[s] = timeTillTimeout /\ now' = now
      BY <1>1, <1>6, <2>1 DEF ReadBudget, Watched
    <2> QED
      BY <1>0, <2>1, <2>2 DEF HeldInv
  <1>7. CASE LessNow(s)
    <2>1. held[s] - now \in Int
      BY <1>0
    <2>2. pc'[s] = "publish" /\ held'[s] = held[s] - now /\ pc[s] = "client"
      BY <1>1, <1>7, <2>1 DEF LessNow, Watched
    <2> QED
      BY <1>0, <2>2 DEF HeldInv
  <1>8. CASE PrepareHeader(s)
    <2>1. nodeToConnect[s] \in Nodes
      BY <1>0, <1>8 DEF PrepareHeader, EditOK
    <2>2. pc'[s] = "wait" /\ due'[s] = timeToRetry[nodeToConnect[s]] /\ now' = now
      BY <1>8 DEF TypeOK, PrepareHeader, Goto
    <2> QED
      BY <2>1, <2>2 DEF HeldInv, BoundInv
  <1>9. CASE Request(s) \/ PostSync(s)
    <2>1. httpClient.timeout \in Nat /\ httpClient.timeout <= Timeout
      BY DEF TypeOK, Clients, BoundInv
    <2>2. /\ pc'[s] \in {"get", "exchange"} /\ now' = now
          /\ due' = [due EXCEPT ![s] = Deadline(httpClient.timeout)]
      BY <1>9 DEF TypeOK, Request, PostSync, Goto
    <2>3. due'[s] = Deadline(httpClient.timeout)
      BY <2>2 DEF TypeOK
    <2>4. due'[s] <= now + Timeout \/ due'[s] = Never
      BY <1>0, <2>1, <2>3 DEF Deadline
    <2>5. Never' = Never
      BY DEF Never
    <2> QED
      BY <2>2, <2>4, <2>5 DEF HeldInv
  <1>10. CASE ~Watches(s)
    BY <1>10, Elsewhere DEF Watched, HeldInv
  <1> QED
    BY <1>2, <1>3, <1>4, <1>5, <1>6, <1>7, <1>8, <1>9, <1>10 DEF Watches

(* A bound that held still holds later.                                    *)
LEMMA BoundKept ==
    ASSUME NEW x \in Int, NEW a \in Int, NEW b \in Int, NEW c \in Int, a <= b, x <= a + c
    PROVE  x <= b + c
  OBVIOUS

LEMMA StepBounds ==
    ASSUME TypeOK, TypeOK', BoundInv, [Next]_vars
    PROVE  BoundInv'
  <1> USE CapType
  <1> HIDE DEF Cap
  <1>0. Cap' = Cap /\ Never' = Never
    BY DEF Cap, Never
  <1>1. ASSUME NEW s \in Senders, Acts(s) PROVE BoundInv'
    <2>1. now' = now
      BY <1>1, OthersWait
    <2>2. ASSUME NEW t \in Senders \ {s} PROVE HeldInv(t)'
      BY <1>0, <1>1, <2>1, <2>2, OthersWait DEF BoundInv, HeldInv, Sorting
    <2>3. HeldInv(s)'
      BY <1>1, StepKeepsHeld
    <2> QED
      BY <1>0, <1>1, <2>1, <2>2, <2>3, StepKeepsFields DEF BoundInv
  <1>2. ASSUME now' \in {now, now + 1},
               UNCHANGED <<pc, held, due, timeTillTimeout, timeToRetry, httpClient>>
        PROVE  BoundInv'
    <2>1. now \in Nat /\ now' \in Nat /\ now' >= now
      BY <1>2 DEF TypeOK
    <2>2. ASSUME NEW s \in Senders PROVE HeldInv(s)'
      <3>1. HeldInv(s) /\ held[s] \in Int /\ due[s] \in Int
        BY DEF BoundInv, TypeOK, EditOK
      <3> QED
        BY <1>0, <1>2, <2>1, <3>1 DEF HeldInv
    <2>3. ASSUME NEW n \in Nodes PROVE timeToRetry'[n] <= now' + Cap
      BY <1>2, <2>1 DEF BoundInv, TypeOK
    <2>5. timeTillTimeout \in Int /\ timeTillTimeout <= now + Timeout
      BY DEF BoundInv, TypeOK
    <2>6. timeTillTimeout' = timeTillTimeout
      BY <1>2
    <2>8. now \in Int /\ now' \in Int /\ Timeout \in Int /\ now <= now'
      BY <2>1
    <2>7. timeTillTimeout <= now' + Timeout
      BY <2>5, <2>8, BoundKept
    <2>4. timeTillTimeout' <= now' + Timeout
      BY <2>6, <2>7
    <2> QED
      BY <1>0, <1>2, <2>2, <2>3, <2>4 DEF BoundInv
  <1>3. CASE Tick \/ UNCHANGED vars
    BY <1>2, <1>3 DEF Tick, vars, globals, book, retries, target, task, edit, world, outside
  <1>4. CASE \E n \in Nodes : AsyncAnswered(n) \/ AsyncFails(n)
    BY <1>2, <1>4 DEF AsyncAnswered, AsyncFails, Outcome, book, retries, target, edit, world
  <1> QED
    BY <1>1, <1>3, <1>4 DEF Next, Calls, Acts

(* No reachable state has a retry time more than half the timeout ahead, a *)
(* call budget longer than the timeout, a thread that waits longer than    *)
(* the one, or a request that lasts longer than the other, however many    *)
(* threads race and however wide a long is.                                *)
THEOREM BackoffIsBounded == Spec => []Bounded
  <1>1. Init => BoundInv
    <2> SUFFICES ASSUME Init PROVE BoundInv
      OBVIOUS
    <2>1. \A s \in Senders : HeldInv(s)
      BY DEF Init, HeldInv
    <2>2. Cap \in Nat /\ Timeout \in Nat
      BY CapType
    <2> HIDE DEF Cap
    <2> QED
      BY <2>1, <2>2 DEF Init, BoundInv, NoClient
  <1>2. BoundInv => Bounded
    BY DEF BoundInv, HeldInv, Bounded
  <1>3. TypeOK /\ TypeOK' /\ BoundInv /\ [Next]_vars => BoundInv'
    BY StepBounds
  <1> QED
    BY <1>1, <1>2, <1>3, TypeCorrect, PTL DEF Spec

-----------------------------------------------------------------------------
(* Backing off under one calling thread.  Callback threads still run.      *)
OneThread == \A s, t \in Senders : s = t

(* A node's retry time is within the delay that its count stands for, as   *)
(* long as that fits a long; and what the thread holds while it charges or *)
(* clears a node is still what the node's fields say.                      *)
Earned(n) == ~Overflows(retryCount[n]) => timeToRetry[n] <= now + Backoff(retryCount[n])
FreshInv(s) ==
    /\ pc[s] = "delay" => held[s] = Backoff(retryCount[conn[s]])
    /\ pc[s] = "defer" /\ ~Overflows(retryCount[conn[s]]) =>
          timeToRetry[conn[s]] <= held[s] /\ held[s] <= now + Backoff(retryCount[conn[s]])
    /\ pc[s] = "increase" => held[s] = retryCount[conn[s]]
    /\ pc[s] = "reset" => timeToRetry[conn[s]] = 0
DelayInv == (\A n \in Nodes : Earned(n)) /\ (\A s \in Senders : FreshInv(s))

LEMMA ChargeType ==
    ASSUME TypeOK, NEW n \in Nodes
    PROVE  /\ retryCount[n] \in 0..MaxRetry /\ timeToRetry[n] \in Int /\ now \in Nat
           /\ Backoff(retryCount[n]) \in Int
           /\ ~Overflows(retryCount[n]) => Backoff(retryCount[n]) \in Nat
  <1>1. retryCount[n] \in 0..MaxRetry /\ timeToRetry[n] \in Int /\ now \in Nat
    BY DEF TypeOK
  <1> QED
    BY <1>1, BackoffType, BackoffNatural

(* Every step keeps each node's retry time within its delay.               *)
LEMMA StepEarned ==
    ASSUME TypeOK, DelayInv, NEW s \in Senders, Acts(s), NEW n \in Nodes
    PROVE  Earned(n)'
  <1>0. /\ Earned(n) /\ FreshInv(s) /\ EditOK(s) /\ now' = now
        /\ retryCount[n] \in 0..MaxRetry /\ timeToRetry[n] \in Int /\ now \in Nat
        /\ Backoff(retryCount[n]) \in Int
        /\ ~Overflows(retryCount[n]) => Backoff(retryCount[n]) \in Nat
    BY ChargeType, OthersWait DEF DelayInv, TypeOK
  <1>1. ASSUME NEW k \in 0..MaxRetry, retryCount'[n] = k,
               ~Overflows(k) => timeToRetry'[n] <= now + Backoff(k)
        PROVE  Earned(n)'
    BY <1>0, <1>1 DEF Earned, Overflows, Backoff, RawBackoff, Long, Cap, Power
  <1>2. CASE StartSetup(s) \/ (ClearRetryCount(s) /\ conn[s] = n)
    <2>1. retryCount'[n] = 0 /\ timeToRetry'[n] = 0
      BY <1>0, <1>2 DEF TypeOK, FreshInv, StartSetup, ClearRetryCount, Writes
    <2>2. 0 \in 0..MaxRetry
      BY TimeAssumption
    <2>3. ~Overflows(0) => 0 <= now + Backoff(0)
      BY <1>0, <2>2, BackoffNatural
    <2> QED
      BY <1>1, <2>1, <2>2, <2>3
  <1>3. CASE SetTimeToRetry(s) /\ conn[s] = n
    <2>1. timeToRetry'[n] = held[s] /\ retryCount'[n] = retryCount[n] /\ pc[s] = "defer"
      BY <1>3 DEF TypeOK, SetTimeToRetry, Writes
    <2>2. ~Overflows(retryCount[n]) => held[s] <= now + Backoff(retryCount[n])
      BY <1>0, <1>3, <2>1 DEF FreshInv
    <2> QED
      BY <1>0, <1>1, <2>1, <2>2
  <1>4. CASE SetRetryCount(s) /\ conn[s] = n
    <2>1. /\ timeToRetry'[n] = timeToRetry[n] /\ retryCount'[n] = retryCount[n] + 1
          /\ retryCount[n] < MaxRetry
      BY <1>0, <1>4 DEF TypeOK, FreshInv, SetRetryCount, Writes
    <2> DEFINE k == retryCount[n] + 1
    <2>2. k \in 1..MaxRetry /\ k \in 0..MaxRetry /\ k - 1 = retryCount[n]
      BY <1>0, <2>1, TimeAssumption
    <2>3. Backoff(k) \in Int
      BY <2>2, BackoffType
    <2> HIDE DEF k
    <2>4. ~Overflows(k) => timeToRetry[n] <= now + Backoff(k)
      <3> SUFFICES ASSUME ~Overflows(k) PROVE timeToRetry[n] <= now + Backoff(k)
        OBVIOUS
      <3>1. ~Overflows(retryCount[n]) /\ Backoff(retryCount[n]) <= Backoff(k)
        BY <2>2, BackoffGrows
      <3>2. timeToRetry[n] <= now + Backoff(retryCount[n])
        BY <1>0, <3>1 DEF Earned
      <3> QED
        BY <1>0, <2>3, <3>1, <3>2
    <2>5. retryCount'[n] = k
      BY <2>1 DEF k
    <2> QED
      BY <1>1, <2>1, <2>2, <2>4, <2>5
  <1>5. CASE ClearTimeToRetry(s) /\ conn[s] = n
    <2>1. timeToRetry'[n] = 0 /\ retryCount'[n] = retryCount[n]
      BY <1>5 DEF TypeOK, ClearTimeToRetry, Writes
    <2> QED
      BY <1>0, <1>1, <2>1
  <1>6. CASE timeToRetry'[n] = timeToRetry[n] /\ retryCount'[n] = retryCount[n]
    BY <1>0, <1>1, <1>6 DEF Earned
  <1>7. CASE /\ SetTimeToRetry(s) \/ SetRetryCount(s) \/ ClearTimeToRetry(s) \/ ClearRetryCount(s)
             /\ conn[s] # n
    BY <1>6, <1>7 DEF TypeOK, SetTimeToRetry, SetRetryCount, ClearTimeToRetry, ClearRetryCount
  <1>8. CASE SetTimeTillTimeout(s)
    BY <1>6, <1>8 DEF SetTimeTillTimeout, retries
  <1> QED
    BY <1>2, <1>3, <1>4, <1>5, <1>6, <1>7, <1>8, OthersLeaveBooks DEF retries

(* What the thread holds stays fresh: nobody else writes those fields.     *)
LEMMA StepFresh ==
    ASSUME TypeOK, DelayInv, NEW s \in Senders, Acts(s)
    PROVE  FreshInv(s)'
  <1>0. EditOK(s) /\ FreshInv(s) /\ now' = now /\ now \in Nat
    BY OthersWait DEF DelayInv, TypeOK
  <1>1. ASSUME pc[s] \in {"count", "delay", "recount", "clear"} PROVE conn[s] \in Nodes
    BY <1>0, <1>1 DEF EditOK, Booked, Found
  <1>2. ASSUME NEW place, NEW number, NEW next, Reads(s, place, number, next)
        PROVE  /\ pc'[s] = next /\ pc[s] = place /\ held'[s] = number
               /\ UNCHANGED <<retryCount, timeToRetry, conn>>
    BY <1>2 DEF TypeOK, Reads, Goto, Hold, globals, book, retries
  <1>3. CASE ReadCount(s)
    <2>1. /\ pc'[s] = "delay" /\ held'[s] = Backoff(retryCount[conn[s]])
          /\ UNCHANGED <<retryCount, timeToRetry, conn>>
      BY <1>2, <1>3 DEF ReadCount
    <2>2. held'[s] = Backoff(retryCount'[conn'[s]])
      BY <2>1
    <2> QED
      BY <2>1, <2>2 DEF FreshInv, Backoff, RawBackoff, Long, Cap, Power
  <1>4. CASE AddDelay(s)
    <2>1. /\ pc'[s] = "defer" /\ held'[s] = now + held[s] /\ pc[s] = "delay"
          /\ UNCHANGED <<retryCount, timeToRetry, conn>>
      BY <1>2, <1>4 DEF AddDelay
    <2> DEFINE n == conn[s]
    <2>2. n \in Nodes /\ held[s] = Backoff(retryCount[n])
      BY <1>0, <1>1, <2>1 DEF FreshInv
    <2>3. ~Overflows(retryCount[n]) => timeToRetry[n] <= now + Backoff(retryCount[n])
      BY <2>2 DEF DelayInv, Earned
    <2>4. Backoff(retryCount[n]) \in Int
      BY <2>2, ChargeType
    <2>5. held'[s] <= now + Backoff(retryCount[n]) /\ held'[s] = now + Backoff(retryCount[n])
      BY <1>0, <2>1, <2>2, <2>4
    <2>6. conn'[s] = n /\ retryCount' = retryCount /\ timeToRetry' = timeToRetry
      BY <2>1
    <2> HIDE DEF n
    <2> QED
      BY <1>0, <2>1, <2>3, <2>5, <2>6 DEF FreshInv, Overflows, Backoff, RawBackoff, Long, Cap, Power
  <1>5. CASE RereadCount(s)
    <2>1. /\ pc'[s] = "increase" /\ held'[s] = retryCount[conn[s]]
          /\ UNCHANGED <<retryCount, timeToRetry, conn>>
      BY <1>2, <1>5 DEF RereadCount
    <2> QED
      BY <2>1 DEF FreshInv
  <1>6. CASE ClearTimeToRetry(s)
    <2>1. pc[s] = "clear" /\ pc'[s] = "reset" /\ UNCHANGED conn
          /\ timeToRetry' = [timeToRetry EXCEPT ![conn[s]] = 0]
      BY <1>6 DEF TypeOK, ClearTimeToRetry, Writes, Stir, edit
    <2>2. conn[s] \in Nodes
      BY <1>1, <2>1
    <2>3. timeToRetry'[conn'[s]] = 0
      BY <2>1, <2>2 DEF TypeOK
    <2> QED
      BY <2>1, <2>3 DEF FreshInv
  <1>7. CASE AddTimeout(s) \/ ReadBudget(s) \/ LessNow(s)
    <2>1. pc'[s] \in {"renew", "client", "publish"}
      BY <1>2, <1>7 DEF AddTimeout, ReadBudget, LessNow
    <2> QED
      BY <2>1 DEF FreshInv
  <1>8. CASE PrepareHeader(s) \/ Request(s) \/ PostSync(s)
    <2>1. pc'[s] \in {"wait", "get", "exchange"}
      BY <1>8 DEF TypeOK, PrepareHeader, Request, PostSync, Goto
    <2> QED
      BY <2>1 DEF FreshInv
  <1>9. CASE ~Watches(s)
    BY <1>9, Elsewhere DEF Watched, FreshInv
  <1> QED
    BY <1>3, <1>4, <1>5, <1>6, <1>7, <1>8, <1>9 DEF Watches

(* A step of anybody else keeps all of it.                                 *)
LEMMA IdleDelay ==
    ASSUME TypeOK, DelayInv, now' \in {now, now + 1},
           UNCHANGED <<pc, held, conn, timeToRetry, retryCount>>
    PROVE  DelayInv'
  <1>0. now \in Int /\ now' \in Int /\ now <= now'
    BY DEF TypeOK
  <1>1. ASSUME NEW n \in Nodes PROVE Earned(n)'
    <2>1. timeToRetry[n] \in Int /\ Backoff(retryCount[n]) \in Int
      BY ChargeType
    <2>2. ~Overflows(retryCount[n]) => timeToRetry[n] <= now' + Backoff(retryCount[n])
      BY <1>0, <2>1, BoundKept DEF DelayInv, Earned
    <2>3. retryCount'[n] = retryCount[n] /\ timeToRetry'[n] = timeToRetry[n]
      OBVIOUS
    <2> QED
      BY <2>2, <2>3 DEF Earned, Overflows, Backoff, RawBackoff, Long, Cap, Power
  <1>2. ASSUME NEW s \in Senders PROVE FreshInv(s)'
    <2>1. FreshInv(s) /\ EditOK(s) /\ held[s] \in Int
      BY DEF DelayInv, TypeOK, EditOK
    <2>2. /\ pc'[s] = pc[s] /\ held'[s] = held[s] /\ conn'[s] = conn[s]
          /\ retryCount' = retryCount /\ timeToRetry' = timeToRetry
      OBVIOUS
    <2>3. CASE pc[s] = "defer"
      <3>1. conn[s] \in Nodes
        BY <2>1, <2>3 DEF EditOK, Booked, Found
      <3>2. Backoff(retryCount[conn[s]]) \in Int
        BY <3>1, ChargeType
      <3>3. ~Overflows(retryCount[conn[s]]) =>
              timeToRetry[conn[s]] <= held[s] /\ held[s] <= now' + Backoff(retryCount[conn[s]])
        BY <1>0, <2>1, <2>3, <3>2, BoundKept DEF FreshInv
      <3> QED
        BY <2>2, <2>3, <3>3 DEF FreshInv, Overflows, Backoff, RawBackoff, Long, Cap, Power
    <2>4. CASE pc[s] # "defer"
      BY <2>1, <2>2, <2>4 DEF FreshInv, Backoff, RawBackoff, Long, Cap, Power
    <2> QED
      BY <2>3, <2>4
  <1> QED
    BY <1>1, <1>2 DEF DelayInv

LEMMA StepDelay ==
    ASSUME OneThread, TypeOK, DelayInv, [Next]_vars
    PROVE  DelayInv'
  <1> USE DEF globals, book, retries, target, task, edit, world, outside
  <1>1. ASSUME NEW s \in Senders, Acts(s) PROVE DelayInv'
    BY <1>1, StepEarned, StepFresh DEF DelayInv, OneThread
  <1>2. CASE Tick \/ UNCHANGED vars
    BY <1>2, IdleDelay DEF Tick, vars
  <1>3. CASE \E n \in Nodes : AsyncAnswered(n) \/ AsyncFails(n)
    BY <1>3, IdleDelay DEF AsyncAnswered, AsyncFails, Outcome
  <1> QED
    BY <1>1, <1>2, <1>3 DEF Next, Calls, Acts

(* The one action that could bring a retry time forward does not.          *)
LEMMA StepNeverShortens ==
    ASSUME TypeOK, DelayInv, [Next]_vars, NEW n \in Nodes, timeToRetry'[n] < timeToRetry[n]
    PROVE  timeToRetry'[n] = 0 \/ Overflows(retryCount[n])
  <1> USE DEF globals, book, retries, target, task, edit, world, outside
  <1>0. timeToRetry[n] \in Int
    BY DEF TypeOK
  <1>1. timeToRetry' # timeToRetry
    BY <1>0
  <1>2. PICK s \in Senders : Acts(s)
    BY <1>1 DEF Next, Calls, Acts, Tick, vars, AsyncAnswered, AsyncFails, Outcome
  <1>3. CASE StartSetup(s)
    BY <1>3 DEF StartSetup
  <1>4. CASE ClearTimeToRetry(s)
    BY <1>0, <1>4 DEF TypeOK, ClearTimeToRetry
  <1>5. CASE SetTimeToRetry(s)
    <2>1. pc[s] = "defer" /\ timeToRetry' = [timeToRetry EXCEPT ![conn[s]] = held[s]]
      BY <1>5 DEF SetTimeToRetry, Writes
    <2>2. held[s] \in Int
      BY DEF TypeOK, EditOK
    <2>3. n = conn[s] /\ timeToRetry'[n] = held[s]
      BY <1>0, <2>1 DEF TypeOK
    <2>4. ~Overflows(retryCount[n]) => timeToRetry[n] <= held[s]
      BY <2>1, <2>3 DEF DelayInv, FreshInv
    <2> QED
      BY <1>0, <2>2, <2>3, <2>4
  <1>6. CASE SetRetryCount(s) \/ ClearRetryCount(s) \/ SetTimeTillTimeout(s)
    BY <1>1, <1>6 DEF SetRetryCount, ClearRetryCount, SetTimeTillTimeout
  <1> QED
    BY <1>1, <1>2, <1>3, <1>4, <1>5, <1>6, OthersLeaveBooks

(* With one calling thread, charging a node never brings its retry time    *)
(* forward as long as the delay of its count fits a long.                  *)
THEOREM BackoffNeverShortensHolds == ASSUME OneThread PROVE Spec => BackoffNeverShortens
  <1>1. Init => DelayInv
    <2> SUFFICES ASSUME Init PROVE DelayInv
      OBVIOUS
    <2>1. ASSUME NEW n \in Nodes PROVE Earned(n)
      <3>1. 0 \in 0..MaxRetry
        BY TimeAssumption
      <3>2. ~Overflows(0) => Backoff(0) \in Nat
        BY <3>1, BackoffNatural
      <3>3. now = 0 /\ retryCount[n] = 0 /\ timeToRetry[n] = 0
        BY DEF Init
      <3> QED
        BY <3>2, <3>3 DEF Earned
    <2>2. \A s \in Senders : FreshInv(s)
      BY DEF Init, FreshInv
    <2> QED
      BY <2>1, <2>2 DEF DelayInv
  <1>2. TypeOK /\ DelayInv /\ [Next]_vars => DelayInv'
    BY OneThread, StepDelay
  <1>3. TypeOK /\ DelayInv /\ [Next]_vars =>
          [\A n \in Nodes : timeToRetry'[n] < timeToRetry[n] =>
              timeToRetry'[n] = 0 \/ Overflows(retryCount[n])]_vars
    BY StepNeverShortens
  <1> QED
    BY <1>1, <1>2, <1>3, TypeCorrect, PTL DEF Spec, BackoffNeverShortens

-----------------------------------------------------------------------------
(* The shared list under one calling thread.  A sort that nothing overlaps *)
(* keeps every node, and set(nodeIndex, conn) writes what get(nodeIndex)   *)
(* returned: the slot still holds it.                                      *)
NoNodeLost == \A n \in Nodes : Listed(n)
InItsSlot(s) == Booked(s) => connections[slot[s]] = conn[s]
Unraced(s) == pc[s] \notin {"stirred", "raced", "torn"}
ListInv == NoNodeLost /\ \A s \in Senders : InItsSlot(s) /\ Unraced(s)

LEMMA Alone ==
    ASSUME OneThread, TypeOK, NEW s \in Senders
    PROVE  /\ Views(s) = {connections} /\ ~Overlaps(s)
           /\ \A next : Stir(s, next) => Goto(s, next)
  <1>1. ~Overlaps(s) /\ ~Moving(s)
    BY DEF OneThread, Overlaps, Moving
  <1>2. ASSUME NEW next, Stir(s, next) PROVE Goto(s, next)
    BY <1>2 DEF OneThread, Stir, Goto, TypeOK
  <1> QED
    BY <1>1, <1>2 DEF Views

LEMMA SortKeepsNodes ==
    ASSUME NoNodeLost, NEW list \in SortedLists
    PROVE  \A n \in Nodes : \E i \in Slots : list[i] = n
  <1>1. PICK p \in Surjection(Slots, Slots) : list = [i \in Slots |-> connections[p[i]]]
    BY DEF SortedLists, StableOrders
  <1>2. SUFFICES ASSUME NEW n \in Nodes PROVE \E i \in Slots : list[i] = n
    OBVIOUS
  <1>3. PICK j \in Slots : connections[j] = n
    BY DEF NoNodeLost, Listed
  <1>4. PICK i \in Slots : p[i] = j
    BY DEF Surjection
  <1> QED
    BY <1>1, <1>3, <1>4

(* The sort leaves a node first that no other has to be waited for less.   *)
LEMMA SortPutsEarliestFirst ==
    ASSUME TypeOK, NoNodeLost, NEW list \in SortedLists
    PROVE  list[1] \in Nodes /\ \A n \in Nodes : timeToRetry[list[1]] <= timeToRetry[n]
  <1>1. PICK p \in StableOrders : list = [i \in Slots |-> connections[p[i]]]
    BY DEF SortedLists
  <1>2. p \in [Slots -> Slots] /\ \A j \in Slots : \E i \in Slots : p[i] = j
    BY <1>1 DEF StableOrders, Surjection
  <1>3. 1 \in Slots /\ list[1] = connections[p[1]] /\ list[1] \in Nodes
    BY <1>1, <1>2, FirstSlot DEF TypeOK
  <1>4. ASSUME NEW n \in Nodes PROVE timeToRetry[list[1]] <= timeToRetry[n]
    <2>1. PICK j \in Slots : connections[j] = n
      BY DEF NoNodeLost, Listed
    <2>2. PICK i \in Slots : p[i] = j
      BY <1>2
    <2>3. timeToRetry[list[1]] \in Int /\ timeToRetry[n] \in Int
      BY <1>3 DEF TypeOK
    <2>4. CASE i = 1
      BY <1>3, <2>1, <2>2, <2>3, <2>4
    <2>5. CASE i # 1
      <3>1. 1 < i
        BY <2>5, ListAssumption
      <3>2. ~Reversed(p[1], p[i])
        BY <1>1, <1>3, <3>1 DEF StableOrders
      <3> QED
        BY <1>3, <2>1, <2>2, <2>3, <3>2 DEF Reversed
    <2> QED
      BY <2>4, <2>5
  <1> QED
    BY <1>3, <1>4

(* What a sort of the only thread does.                                    *)
LEMMA LoneSort ==
    ASSUME OneThread, TypeOK, ListInv, NEW s \in Senders, EndSort(s)
    PROVE  connections' \in SortedLists /\ NoNodeLost'
  <1>1. pc[s] = "sort" /\ ~Overlaps(s)
    BY Alone DEF EndSort, ListInv, Unraced
  <1>2. connections' \in SortedLists
    BY <1>1 DEF EndSort, Sort, Disturbed
  <1>3. NoNodeLost'
    BY <1>2, SortKeepsNodes DEF ListInv, NoNodeLost, Listed
  <1> QED
    BY <1>2, <1>3

(* The actions that write the list.                                        *)
LEMMA OthersLeaveList ==
    ASSUME TypeOK, NEW s \in Senders, Acts(s),
           ~(StartSetup(s) \/ EndSort(s) \/ SortThrows(s) \/ PutBack(s))
    PROVE  connections' = connections
  <1> USE DEF globals, book, retries, target, task, edit, world, outside
  <1>1. CASE (\E k \in Kinds : StartSend(s, k)) \/ Check(s) \/ Again(s)
    BY <1>1 DEF StartSend, Check, Again
  <1>2. CASE Bookkeeping(s)
    BY <1>2 DEF Bookkeeping, ReadCurrentNode, Find, Missing, Fetch, ReadCount, AddDelay, RereadCount,
                AddTimeout, SetTimeToRetry, SetRetryCount, ClearTimeToRetry, ClearRetryCount,
                SetTimeTillTimeout, Reads, Writes
  <1>3. CASE \/ BudgetSpent(s) \/ BeginSort(s)
             \/ TakeFirst(s) \/ SetCurrentNode(s) \/ PrepareHeader(s)
             \/ WaitOver(s) \/ WaitExpires(s)
    BY <1>3 DEF BudgetSpent, BeginSort, TakeFirst, SetCurrentNode, PrepareHeader,
                WaitOver, WaitExpires
  <1>4. CASE \/ Connect(s) \/ Request(s) \/ GetOk(s) \/ GetBad(s) \/ GetFails(s)
             \/ PostAsync(s) \/ PostSync(s) \/ PostAnswered(s) \/ PostFails(s)
    BY <1>4 DEF Connect, AskConnected, ReadBudget, LessNow, SetHttpClient, Reads, Request, GetOk,
                GetBad, GetFails, PostAsync, PostSync, PostAnswered, PostFails, Outcome
  <1> QED
    BY <1>1, <1>2, <1>3, <1>4 DEF Acts, Step

(* Once the node is found, its slot and the connection stay.               *)
Edits(s) ==
    \/ Find(s) \/ Fetch(s) \/ ReadCount(s) \/ AddDelay(s) \/ SetTimeToRetry(s) \/ RereadCount(s)
    \/ SetRetryCount(s) \/ ClearTimeToRetry(s) \/ ClearRetryCount(s) \/ AddTimeout(s)
    \/ SetTimeTillTimeout(s)

LEMMA OthersForget ==
    ASSUME TypeOK, NEW s \in Senders, Acts(s), ~Edits(s), ~StartSetup(s)
    PROVE  pc'[s] \notin Found
  <1>1. CASE Bookkeeping(s)
    BY <1>1, BookHops DEF Bookkeeping, Edits, Hop, Found
  <1>2. CASE ~Bookkeeping(s)
    BY <1>2, StartHops, TalkHops DEF Acts, Step, Connect, Hop, Found
  <1> QED
    BY <1>1, <1>2

LEMMA StepSlot ==
    ASSUME OneThread, TypeOK, ListInv, NEW s \in Senders, Acts(s)
    PROVE  InItsSlot(s)'
  <1> USE DEF globals, book, retries, target, task, edit, world, outside
  <1>0. EditOK(s) /\ InItsSlot(s) /\ Views(s) = {connections}
    BY Alone DEF TypeOK, ListInv
  <1>1. CASE Find(s)
    <2>1. PICK i \in Slots : connections[i] = conn[s] /\ slot' = [slot EXCEPT ![s] = i]
      BY <1>0, <1>1 DEF Find
    <2>2. slot'[s] = i /\ conn' = conn /\ connections' = connections
      BY <1>1, <2>1 DEF TypeOK, Find
    <2> QED
      BY <2>1, <2>2 DEF InItsSlot
  <1>2. CASE Fetch(s)
    <2>1. pc[s] = "fetch" /\ conn' = [conn EXCEPT ![s] = connections[slot[s]]]
      BY <1>0, <1>2 DEF Fetch
    <2>2. conn'[s] = connections[slot[s]] /\ slot' = slot /\ connections' = connections
      BY <1>2, <2>1 DEF TypeOK, Fetch
    <2> QED
      BY <2>2 DEF InItsSlot
  <1>3. CASE \/ ReadCount(s) \/ AddDelay(s) \/ SetTimeToRetry(s) \/ RereadCount(s)
             \/ SetRetryCount(s) \/ ClearTimeToRetry(s) \/ ClearRetryCount(s) \/ AddTimeout(s)
    <2>1. UNCHANGED <<connections, slot, conn, purpose>>
      BY <1>3 DEF ReadCount, AddDelay, SetTimeToRetry, RereadCount, SetRetryCount, ClearTimeToRetry,
                  ClearRetryCount, AddTimeout, Reads
    <2>2. pc[s] \in Found
      BY <1>3, BookHops DEF Hop, Found
    <2> QED
      BY <1>0, <2>1, <2>2 DEF InItsSlot, Booked
  <1>4. CASE SetTimeTillTimeout(s)
    <2>1. pc[s] = "renew" /\ connections' = connections
      BY <1>4 DEF SetTimeTillTimeout, Writes
    <2>2. CASE purpose[s] = "setup"
      <3>1. pc'[s] = "choose"
        BY <1>4, <2>2 DEF SetTimeTillTimeout, TypeOK, Goto
      <3> QED
        BY <3>1 DEF InItsSlot, Booked, Found
    <2>3. CASE purpose[s] # "setup"
      <3>1. UNCHANGED <<purpose, slot, conn>> /\ Booked(s)
        BY <1>4, <2>1, <2>3 DEF SetTimeTillTimeout, Booked, Found
      <3> QED
        BY <1>0, <2>1, <3>1 DEF InItsSlot
    <2> QED
      BY <2>2, <2>3
  <1>5. CASE StartSetup(s)
    <2>1. purpose'[s] = "setup"
      BY <1>5 DEF StartSetup, TypeOK
    <2> QED
      BY <2>1 DEF InItsSlot, Booked
  <1>6. CASE ~Edits(s) /\ ~StartSetup(s)
    BY <1>6, OthersForget DEF InItsSlot, Booked
  <1> QED
    BY <1>1, <1>2, <1>3, <1>4, <1>5, <1>6 DEF Edits

(* With one thread no sort is ever overlapped, and no node is lost.        *)
LEMMA StepKeepsList ==
    ASSUME OneThread, TypeOK, ListInv, [Next]_vars
    PROVE  ListInv'
  <1> USE DEF globals, book, retries, target, task, edit, world, outside
  <1>1. ASSUME NEW s \in Senders, Acts(s) PROVE ListInv'
    <2>1. Unraced(s)'
      <3>1. ~SortThrows(s)
        BY DEF SortThrows, ListInv, Unraced
      <3>2. CASE Bookkeeping(s)
        BY <3>2, BookHops DEF Bookkeeping, Hop, Unraced
      <3>3. CASE ~Bookkeeping(s)
        BY <1>1, <3>1, <3>3, StartHops, TalkHops DEF Acts, Step, Connect, Hop, Unraced
      <3> QED
        BY <3>2, <3>3
    <2>2. NoNodeLost'
      <3>1. CASE StartSetup(s)
        BY <3>1, ListAssumption DEF StartSetup, NoNodeLost, Listed, Nodes
      <3>2. CASE EndSort(s)
        BY <3>2, LoneSort
      <3>3. CASE SortThrows(s)
        BY <3>3 DEF SortThrows, ListInv, Unraced
      <3>4. CASE PutBack(s)
        <4>1. Booked(s)
          BY <3>4 DEF PutBack, Writes, Booked, Found, TypeOK, EditOK
        <4>2. connections[slot[s]] = conn[s]
          BY <4>1 DEF ListInv, InItsSlot
        <4>3. connections' = connections
          BY <3>4, <4>2 DEF PutBack, TypeOK
        <4> QED
          BY <4>3 DEF ListInv, NoNodeLost, Listed
      <3> QED
        BY <1>1, <3>1, <3>2, <3>3, <3>4, OthersLeaveList DEF ListInv, NoNodeLost, Listed
    <2>3. InItsSlot(s)'
      BY <1>1, StepSlot
    <2> QED
      BY <2>1, <2>2, <2>3 DEF ListInv, OneThread
  <1>2. CASE UNCHANGED <<pc, connections, edit>>
    BY <1>2 DEF ListInv, NoNodeLost, Listed, InItsSlot, Booked, Unraced
  <1>3. CASE Tick \/ UNCHANGED vars \/ \E n \in Nodes : AsyncAnswered(n) \/ AsyncFails(n)
    BY <1>2, <1>3 DEF Tick, vars, AsyncAnswered, AsyncFails, Outcome
  <1> QED
    BY <1>1, <1>3 DEF Next, Calls, Acts

LEMMA InitList == Init => ListInv
  <1> SUFFICES ASSUME Init PROVE ListInv
    OBVIOUS
  <1>1. NoNodeLost
    BY ListAssumption DEF Init, NoNodeLost, Listed, Nodes
  <1>2. ASSUME NEW s \in Senders PROVE InItsSlot(s) /\ Unraced(s)
    BY DEF Init, InItsSlot, Booked, Found, Unraced
  <1> QED
    BY <1>1, <1>2 DEF ListInv

-----------------------------------------------------------------------------
(* Choosing and waiting, under one calling thread.  The node that was      *)
(* chosen stays the earliest, and its time the one that is waited for,     *)
(* until the wait is over: nobody else writes a retry time.                *)
Earliest(n) == n \in Nodes /\ \A m \in Nodes : timeToRetry[n] <= timeToRetry[m]
ChoiceInv(s) ==
    /\ pc[s] = "first" => Earliest(connections[1])
    /\ pc[s] \in {"current", "look", "wait"} => Earliest(nodeToConnect[s])
    /\ pc[s] = "wait" => due[s] = timeToRetry[nodeToConnect[s]]
    /\ pc[s] \in Trying => nodeToConnect[s] \in Nodes /\ now >= timeToRetry[nodeToConnect[s]]

Chooses(s) ==
    \/ EndSort(s) \/ TakeFirst(s) \/ SetCurrentNode(s) \/ PrepareHeader(s) \/ WaitOver(s)
    \/ AskConnected(s) \/ ReadBudget(s) \/ LessNow(s) \/ SetHttpClient(s) \/ Request(s)

LEMMA OthersChooseNothing ==
    ASSUME TypeOK, NEW s \in Senders, Acts(s), ~Chooses(s)
    PROVE  pc'[s] \notin {"first", "current", "look", "wait"} \cup Trying
  <1>1. CASE Bookkeeping(s)
    BY <1>1, BookHops DEF Bookkeeping, Hop, Trying
  <1>2. CASE ~Bookkeeping(s)
    BY <1>2, StartHops, TalkHops DEF Acts, Step, Connect, Chooses, Hop, Trying, Resting
  <1> QED
    BY <1>1, <1>2

LEMMA StepChoice ==
    ASSUME OneThread, TypeOK, ListInv, NEW s \in Senders, ChoiceInv(s), Acts(s)
    PROVE  ChoiceInv(s)'
  <1> USE DEF globals, book, retries, target, task, edit, world, outside
  <1>0. now' = now /\ Views(s) = {connections}
    BY OthersWait, Alone
  <1>1. CASE EndSort(s)
    <2>1. pc'[s] = "first" /\ timeToRetry' = timeToRetry
      BY <1>1, StartHops DEF EndSort, Hop
    <2>2. connections' \in SortedLists
      BY <1>1, LoneSort
    <2>3. Earliest(connections'[1])
      BY <2>2, SortPutsEarliestFirst DEF Earliest, ListInv
    <2> QED
      BY <2>1, <2>3 DEF ChoiceInv, Earliest, Trying
  <1>2. CASE TakeFirst(s)
    <2>1. pc[s] = "first" /\ pc'[s] = "current" /\ timeToRetry' = timeToRetry
      BY <1>2, StartHops DEF TakeFirst, Hop
    <2>2. nodeToConnect'[s] = connections[1]
      BY <1>0, <1>2 DEF TakeFirst, TypeOK
    <2> QED
      BY <2>1, <2>2 DEF ChoiceInv, Earliest, Trying
  <1>3. CASE SetCurrentNode(s)
    <2>1. /\ pc[s] = "current" /\ pc'[s] = "look"
          /\ timeToRetry' = timeToRetry /\ nodeToConnect' = nodeToConnect
      BY <1>3, StartHops DEF SetCurrentNode, Hop
    <2> QED
      BY <2>1 DEF ChoiceInv, Earliest, Trying
  <1>4. CASE PrepareHeader(s)
    <2>1. /\ pc[s] = "look" /\ pc'[s] = "wait" /\ due'[s] = timeToRetry[nodeToConnect[s]]
          /\ timeToRetry' = timeToRetry /\ nodeToConnect' = nodeToConnect
      BY <1>4, StartHops DEF PrepareHeader, Hop, TypeOK
    <2> QED
      BY <2>1 DEF ChoiceInv, Earliest, Trying
  <1>5. CASE WaitOver(s)
    <2>1. /\ pc[s] = "wait" /\ pc'[s] = "ask" /\ now >= due[s]
          /\ timeToRetry' = timeToRetry /\ nodeToConnect' = nodeToConnect
      BY <1>5, StartHops DEF WaitOver, Hop
    <2> QED
      BY <1>0, <2>1 DEF ChoiceInv, Earliest, Trying
  <1>6. CASE AskConnected(s) \/ ReadBudget(s) \/ LessNow(s) \/ SetHttpClient(s) \/ Request(s)
    <2>1. /\ pc[s] \in Trying /\ pc'[s] \in Trying \cup {"find"}
          /\ timeToRetry' = timeToRetry /\ nodeToConnect' = nodeToConnect
      BY <1>6, TalkHops DEF AskConnected, ReadBudget, LessNow, SetHttpClient, Request, Reads, Hop, Trying
    <2> QED
      BY <1>0, <2>1 DEF ChoiceInv, Trying
  <1>7. CASE ~Chooses(s)
    BY <1>7, OthersChooseNothing DEF ChoiceInv
  <1> QED
    BY <1>1, <1>2, <1>3, <1>4, <1>5, <1>6, <1>7 DEF Chooses

LEMMA StepChoices ==
    ASSUME OneThread, TypeOK, TypeOK', ListInv, \A s \in Senders : ChoiceInv(s), [Next]_vars
    PROVE  \A s \in Senders : ChoiceInv(s)'
  <1> USE DEF globals, book, retries, target, task, edit, world, outside
  <1>1. ASSUME NEW s \in Senders, Acts(s) PROVE \A t \in Senders : ChoiceInv(t)'
    BY <1>1, StepChoice DEF OneThread
  <1>2. ASSUME UNCHANGED <<pc, connections, nodeToConnect, due, timeToRetry>>, now' \in {now, now + 1}
        PROVE  \A t \in Senders : ChoiceInv(t)'
    <2>1. SUFFICES ASSUME NEW t \in Senders PROVE ChoiceInv(t)'
      OBVIOUS
    <2>2. now \in Int /\ now' \in Int /\ now' >= now
      BY <1>2 DEF TypeOK
    <2>3. /\ pc'[t] = pc[t] /\ connections' = connections /\ nodeToConnect'[t] = nodeToConnect[t]
          /\ due'[t] = due[t] /\ timeToRetry' = timeToRetry
      BY <1>2
    <2>4. pc[t] \in Trying => now' >= timeToRetry[nodeToConnect[t]]
      BY <2>2 DEF ChoiceInv, TypeOK
    <2> QED
      BY <2>3, <2>4 DEF ChoiceInv, Earliest, Trying
  <1>3. CASE Tick \/ UNCHANGED vars \/ \E n \in Nodes : AsyncAnswered(n) \/ AsyncFails(n)
    BY <1>2, <1>3 DEF Tick, vars, AsyncAnswered, AsyncFails, Outcome
  <1> QED
    BY <1>1, <1>3 DEF Next, Calls, Acts

LEMMA ChoiceInvariant == ASSUME OneThread PROVE Spec => [](ListInv /\ \A s \in Senders : ChoiceInv(s))
  <1>1. Init => ListInv /\ \A s \in Senders : ChoiceInv(s)
    BY InitList DEF Init, ChoiceInv, Trying
  <1>2. TypeOK /\ ListInv /\ [Next]_vars => ListInv'
    BY OneThread, StepKeepsList
  <1>3. TypeOK /\ TypeOK' /\ ListInv /\ (\A s \in Senders : ChoiceInv(s)) /\ [Next]_vars
          => (\A s \in Senders : ChoiceInv(s))'
    BY OneThread, StepChoices
  <1> QED
    BY <1>1, <1>2, <1>3, TypeCorrect, PTL DEF Spec

(* With one calling thread, getConnectionWithEarliestAvailability returns  *)
(* the node with the least retry time, and that is still so whenever the   *)
(* wait for it ends, for any number of nodes: the list has lost none.      *)
THEOREM ChoosesEarliest == ASSUME OneThread PROVE Spec => []EarliestFirst
  <1>1. (\A s \in Senders : ChoiceInv(s)) => EarliestFirst
    BY DEF ChoiceInv, Earliest, EarliestFirst
  <1> QED
    BY <1>1, OneThread, ChoiceInvariant, PTL

(* With one calling thread no node is probed before its retry time,        *)
(* whatever callbacks of earlier requests do meanwhile.                    *)
THEOREM WaitsItsTime == ASSUME OneThread PROVE Spec => []RespectsBackoff
  <1>1. (\A s \in Senders : ChoiceInv(s)) => RespectsBackoff
    BY DEF ChoiceInv, RespectsBackoff
  <1> QED
    BY <1>1, OneThread, ChoiceInvariant, PTL

-----------------------------------------------------------------------------
(* No exception but the TimeoutException, under one calling thread.  What  *)
(* processConnectionFailure and processConnectionSuccess look up is in the *)
(* list, which has lost nothing.                                           *)
Unset == Resting \cup {"choose", "sort", "first", "current"}
CrashInv(s) ==
    /\ pc[s] # "crashed"
    /\ pc[s] \notin Unset /\ purpose[s] # "setup" => currentNode \in Nodes
    /\ pc[s] = "find" => conn[s] \in Nodes

NobodyCrashed == \A s \in Senders : pc[s] # "crashed"

(* The node a thread looks up in the list is there.                        *)
LEMMA NeverMissing ==
    ASSUME OneThread, TypeOK, ListInv, NEW s \in Senders, CrashInv(s)
    PROVE  ~Missing(s) /\ ~SortThrows(s)
  <1>1. Views(s) = {connections}
    BY Alone
  <1>2. ASSUME Missing(s) PROVE FALSE
    <2>1. conn[s] \in Nodes /\ conn[s] \notin Range(connections)
      BY <1>1, <1>2 DEF Missing, CrashInv
    <2>2. PICK i \in Slots : connections[i] = conn[s]
      BY <2>1 DEF ListInv, NoNodeLost, Listed
    <2>3. i \in DOMAIN connections
      BY DEF TypeOK
    <2> QED
      BY <2>1, <2>2, <2>3 DEF Range
  <1> QED
    BY <1>2 DEF SortThrows, ListInv, Unraced

LEMMA StepCrash ==
    ASSUME OneThread, TypeOK, ListInv, NEW s \in Senders, ChoiceInv(s), CrashInv(s), Acts(s)
    PROVE  CrashInv(s)'
  <1> USE DEF globals, book, retries, target, task, edit, world, outside
  <1>0. ~Missing(s) /\ ~SortThrows(s)
    BY NeverMissing
  <1>1. pc'[s] # "crashed"
    <2>1. CASE Bookkeeping(s)
      BY <1>0, <2>1, BookHops DEF Bookkeeping, Hop
    <2>2. CASE ~Bookkeeping(s)
      BY <1>0, <2>2, StartHops, TalkHops DEF Acts, Step, Connect, Hop
    <2> QED
      BY <2>1, <2>2
  <1>2. currentNode \in Nodes => currentNode' \in Nodes
    <2>1. CASE SetCurrentNode(s)
      BY <2>1 DEF SetCurrentNode, ChoiceInv, Earliest
    <2>2. CASE StartSetup(s) \/ (\E k \in Kinds : StartSend(s, k)) \/ Check(s) \/ Again(s)
      BY <2>2 DEF StartSetup, StartSend, Check, Again
    <2>3. CASE Bookkeeping(s)
      BY <2>3 DEF Bookkeeping, ReadCurrentNode, Find, Missing, Fetch, ReadCount, AddDelay, RereadCount,
                  AddTimeout, PutBack, SetTimeToRetry, SetRetryCount, ClearTimeToRetry,
                  ClearRetryCount, SetTimeTillTimeout, Reads, Writes
    <2>4. CASE \/ BudgetSpent(s) \/ BeginSort(s) \/ EndSort(s) \/ SortThrows(s)
               \/ TakeFirst(s) \/ PrepareHeader(s) \/ WaitOver(s) \/ WaitExpires(s)
      BY <2>4 DEF BudgetSpent, BeginSort, EndSort, SortThrows, TakeFirst, PrepareHeader,
                  WaitOver, WaitExpires
    <2>5. CASE \/ Connect(s) \/ Request(s) \/ GetOk(s) \/ GetBad(s) \/ GetFails(s)
               \/ PostAsync(s) \/ PostSync(s) \/ PostAnswered(s) \/ PostFails(s)
      BY <2>5 DEF Connect, AskConnected, ReadBudget, LessNow, SetHttpClient, Reads, Request, GetOk,
                  GetBad, GetFails, PostAsync, PostSync, PostAnswered, PostFails, Outcome
    <2> QED
      BY <2>1, <2>2, <2>3, <2>4, <2>5 DEF Acts, Step
  <1>3. pc'[s] \notin Unset /\ purpose'[s] # "setup" => currentNode' \in Nodes
    <2>1. CASE StartSetup(s)
      BY <2>1 DEF StartSetup, TypeOK
    <2>2. ASSUME NEW k \in Kinds, StartSend(s, k) PROVE currentNode' \in Nodes
      BY <2>2 DEF StartSend, TypeOK
    <2>3. CASE SetCurrentNode(s)
      BY <2>3 DEF SetCurrentNode, ChoiceInv, Earliest
    <2>4. CASE pc[s] \notin Unset /\ purpose[s] # "setup"
      BY <1>2, <2>4 DEF CrashInv
    <2>5. CASE purpose[s] = "setup" /\ Step(s)
      <3>1. pc[s] \in {"clock", "renew"}
        BY <2>5 DEF TypeOK, EditOK
      <3>2. AddTimeout(s) \/ SetTimeTillTimeout(s)
        <4>1. CASE Bookkeeping(s)
          BY <3>1, <4>1, BookHops DEF Bookkeeping, Hop
        <4>2. CASE ~Bookkeeping(s)
          BY <2>5, <3>1, <4>2, StartHops, TalkHops DEF Step, Connect, Hop
        <4> QED
          BY <4>1, <4>2
      <3>3. CASE AddTimeout(s)
        BY <2>5, <3>3 DEF AddTimeout, Reads
      <3>4. CASE SetTimeTillTimeout(s)
        <4>1. pc'[s] = "choose"
          BY <2>5, <3>4 DEF SetTimeTillTimeout, Goto, TypeOK
        <4> QED
          BY <4>1 DEF Unset
      <3> QED
        BY <3>2, <3>3, <3>4
    <2>6. CASE pc[s] \in Unset /\ Step(s) /\ ~SetCurrentNode(s)
      <3>1. BudgetSpent(s) \/ BeginSort(s) \/ EndSort(s) \/ TakeFirst(s)
        <4>1. CASE Bookkeeping(s)
          BY <2>6, <4>1, BookHops DEF Bookkeeping, Hop, Unset, Resting
        <4>2. CASE ~Bookkeeping(s)
          BY <1>0, <2>6, <4>2, StartHops, TalkHops DEF Step, Connect, Hop, Unset, Resting
        <4> QED
          BY <4>1, <4>2
      <3>2. pc'[s] \in {"returned", "timedOut", "sort", "first", "current"}
        BY <3>1, StartHops DEF Hop
      <3> QED
        BY <3>2 DEF Unset, Resting
    <2> QED
      BY <2>1, <2>2, <2>3, <2>4, <2>5, <2>6 DEF Acts
  <1>4. pc'[s] = "find" => conn'[s] \in Nodes
    <2>1. CASE ReadCurrentNode(s)
      <3>1. pc[s] \in {"charge", "settle"} /\ conn'[s] = currentNode
        BY <2>1 DEF ReadCurrentNode, Process, Begin, TypeOK
      <3>2. purpose[s] # "setup" /\ pc[s] \notin Unset
        BY <3>1 DEF TypeOK, EditOK, Unset, Resting
      <3> QED
        BY <3>1, <3>2 DEF CrashInv
    <2>2. CASE SetHttpClient(s) \/ GetOk(s) \/ GetBad(s) \/ GetFails(s)
      <3>1. nodeToConnect[s] \in Nodes
        BY <2>2, TalkHops DEF ChoiceInv, Trying, Hop
      <3>2. CASE SetHttpClient(s) /\ Affordable(s)
        BY <3>2 DEF SetHttpClient, Goto, TypeOK
      <3>3. CASE ~(SetHttpClient(s) /\ Affordable(s))
        <4>1. \E why : Process(s, why, nodeToConnect[s])
          BY <2>2, <3>3 DEF SetHttpClient, GetOk, GetBad, GetFails, Probed
        <4>2. conn'[s] = nodeToConnect[s]
          BY <4>1 DEF Process, Begin, TypeOK
        <4> QED
          BY <3>1, <4>2
      <3> QED
        BY <3>2, <3>3
    <2>3. CASE ~ReadCurrentNode(s) /\ ~(SetHttpClient(s) \/ GetOk(s) \/ GetBad(s) \/ GetFails(s))
      <3>1. CASE Bookkeeping(s)
        BY <1>0, <2>3, <3>1, BookHops DEF Bookkeeping, Hop
      <3>2. CASE ~Bookkeeping(s)
        BY <1>0, <2>3, <3>2, StartHops, TalkHops DEF Acts, Step, Connect, Hop
      <3> QED
        BY <3>1, <3>2
    <2> QED
      BY <2>1, <2>2, <2>3
  <1> QED
    BY <1>1, <1>3, <1>4 DEF CrashInv

LEMMA StepNobodyCrashed ==
    ASSUME OneThread, TypeOK, ListInv, \A s \in Senders : ChoiceInv(s),
           \A s \in Senders : CrashInv(s), [Next]_vars
    PROVE  \A s \in Senders : CrashInv(s)'
  <1> USE DEF globals, book, retries, target, task, edit, world, outside
  <1>1. ASSUME NEW s \in Senders, Acts(s) PROVE \A t \in Senders : CrashInv(t)'
    BY <1>1, StepCrash DEF OneThread
  <1>2. CASE UNCHANGED <<pc, currentNode, edit>>
    BY <1>2 DEF CrashInv
  <1>3. CASE UNCHANGED vars \/ Tick \/ \E n \in Nodes : AsyncAnswered(n) \/ AsyncFails(n)
    BY <1>2, <1>3 DEF vars, Tick, AsyncAnswered, AsyncFails, Outcome
  <1> QED
    BY <1>1, <1>3 DEF Next, Calls, Acts

NeverCrashes == \A s \in Senders : CrashInv(s)

LEMMA CrashInvariant == ASSUME OneThread PROVE Spec => []NeverCrashes
  <1>1. Init => NeverCrashes
    BY DEF Init, NeverCrashes, CrashInv, Unset, Resting
  <1>2. TypeOK /\ ListInv /\ (\A s \in Senders : ChoiceInv(s)) /\ NeverCrashes /\ [Next]_vars
          => NeverCrashes'
    <2> SUFFICES ASSUME TypeOK, ListInv, \A s \in Senders : ChoiceInv(s), NeverCrashes, [Next]_vars
                 PROVE  NeverCrashes'
      OBVIOUS
    <2>1. \A s \in Senders : CrashInv(s)'
      BY OneThread, StepNobodyCrashed DEF NeverCrashes
    <2> QED
      BY <2>1 DEF NeverCrashes
  <1>3. Spec => [](ListInv /\ \A s \in Senders : ChoiceInv(s))
    BY OneThread, ChoiceInvariant
  <1> QED
    BY <1>1, <1>2, <1>3, TypeCorrect, PTL DEF Spec

(* With one calling thread every call returns or throws the documented     *)
(* TimeoutException: no IndexOutOfBoundsException leaves a send after its  *)
(* transaction was posted.                                                 *)
THEOREM OneThreadNeverCrashes == ASSUME OneThread PROVE Spec => []NobodyCrashed
  <1>1. NeverCrashes => NobodyCrashed
    BY DEF NeverCrashes, CrashInv, NobodyCrashed
  <1> QED
    BY <1>1, OneThread, CrashInvariant, PTL

-----------------------------------------------------------------------------
(* Where a transaction goes, under one calling thread that waits for its   *)
(* sends, with nodes that answer 200 or not at all, and one setup().  Each *)
(* of these matters: without it an answer sets isConnected while the       *)
(* thread probes another node, or a second setup() keeps the old client.   *)
SyncOnly == "async" \notin Kinds
NoErrorCodes == "bad" \notin Replies
OneSetup == MaxSetups <= 1
Undisturbed == OneThread /\ SyncOnly /\ NoErrorCodes /\ OneSetup

(* URLs, headers and current node agree on one node.                       *)
Aimed == baseUrl = currentNode /\ httpClient.headers = baseUrl

(* The thread looks for a node; or it keeps the books, and why.            *)
Probing == {"charge", "choose", "sort", "first", "current", "look", "wait", "ask", "build",
            "client", "publish", "request", "get"}
Booking == Found \cup {"find"}
Seeks(s) == pc[s] \in Probing \/ (pc[s] \in Booking /\ (Failing(s) \/ purpose[s] = "setup"))
Credits(s, why) == pc[s] \in Booking /\ purpose[s] = why

(* Before setup() there is nothing to send to, and nothing is in flight.   *)
Quiet == /\ setups = 0 => ~isConnected /\ currentNode = NoNode
                          /\ \A s \in Senders : pc[s] = "idle"
         /\ \A n \in Nodes : inflight[n] = 0
         /\ \A s \in Senders : kind[s] # "async"

(* While a thread looks for a node the driver is not connected, so that    *)
(* the client is built anew for the node it finds; a connected driver is   *)
(* aimed, and stays so until it is not connected any more.                 *)
AimInv(s) ==
    /\ Seeks(s) => ~isConnected
    /\ isConnected => Aimed
    /\ pc[s] \in {"post", "request", "get", "exchange", "settle"} => Aimed
    /\ pc[s] \in Booking => purpose[s] # "none"
    /\ Credits(s, "succeeded") \/ Credits(s, "settle") => Aimed
    /\ Credits(s, "settle") => conn[s] = currentNode
    /\ pc[s] \in {"exchange", "settle"} \/ Credits(s, "settle") => nodeToConnect[s] = currentNode
    /\ pc[s] \in {"look", "wait"} \cup Trying => nodeToConnect[s] = currentNode
    /\ pc[s] \in Trying => baseUrl = currentNode

PostInv == Quiet /\ \A s \in Senders : AimInv(s)

(* Callbacks do not run, since nothing is in flight.                       *)
LEMMA NoCallbacks ==
    ASSUME Quiet, NEW n \in Nodes
    PROVE  ~AsyncAnswered(n) /\ ~AsyncFails(n)
  <1>1. inflight[n] = 0
    BY DEF Quiet
  <1> QED
    BY <1>1 DEF AsyncAnswered, AsyncFails

LEMMA StepQuiet ==
    ASSUME Undisturbed, TypeOK, Quiet, NEW s \in Senders, Acts(s)
    PROVE  Quiet'
  <1> USE DEF globals, book, retries, target, task, edit, world, outside, TypeOK, Quiet
  <1>1. ASSUME NEW k \in Kinds, StartSend(s, k) PROVE Quiet'
    <2>1. currentNode # NoNode /\ k # "async"
      BY <1>1 DEF StartSend, Undisturbed, SyncOnly
    <2>2. kind' = [kind EXCEPT ![s] = k] /\ UNCHANGED <<setups, inflight, isConnected, currentNode>>
      BY <1>1 DEF StartSend
    <2> QED
      BY <2>1, <2>2
  <1>2. CASE StartSetup(s)
    <2>1. setups' = setups + 1 /\ kind' = [kind EXCEPT ![s] = "setup"] /\ UNCHANGED inflight
      BY <1>2 DEF StartSetup
    <2> QED
      BY <2>1
  <1>3. CASE Step(s)
    <2>1. ~PostAsync(s)
      BY DEF PostAsync
    <2>2. pc[s] # "idle"
      <3>1. CASE Bookkeeping(s)
        BY <3>1, BookHops DEF Bookkeeping, Hop
      <3>2. CASE ~Bookkeeping(s)
        BY <1>3, <3>2, StartHops, TalkHops DEF Step, Connect, Hop
      <3> QED
        BY <3>1, <3>2
    <2>3. UNCHANGED <<setups, inflight, kind>>
      <3>1. CASE Bookkeeping(s)
        BY <3>1 DEF Bookkeeping, ReadCurrentNode, Find, Missing, Fetch, ReadCount, AddDelay,
                    RereadCount, AddTimeout, PutBack, SetTimeToRetry, SetRetryCount,
                    ClearTimeToRetry, ClearRetryCount, SetTimeTillTimeout, Reads, Writes
      <3>2. CASE \/ Check(s) \/ Again(s) \/ BudgetSpent(s) \/ BeginSort(s) \/ EndSort(s)
                 \/ SortThrows(s) \/ TakeFirst(s) \/ SetCurrentNode(s) \/ PrepareHeader(s)
                 \/ WaitOver(s) \/ WaitExpires(s)
        BY <3>2 DEF Check, Again, BudgetSpent, BeginSort, EndSort, SortThrows, TakeFirst,
                    SetCurrentNode, PrepareHeader, WaitOver, WaitExpires
      <3>3. CASE \/ Connect(s) \/ Request(s) \/ GetOk(s) \/ GetBad(s) \/ GetFails(s)
                 \/ PostSync(s) \/ PostAnswered(s) \/ PostFails(s)
        BY <3>3 DEF Connect, AskConnected, ReadBudget, LessNow, SetHttpClient, Reads, Request, GetOk,
                    GetBad, GetFails, PostSync, PostAnswered, PostFails, Outcome
      <3> QED
        BY <1>3, <2>1, <3>1, <3>2, <3>3 DEF Step
    <2> QED
      BY <2>2, <2>3
  <1> QED
    BY <1>1, <1>2, <1>3 DEF Acts

(* A step that leaves the target alone and the thread as it was.           *)
LEMMA AimKept ==
    ASSUME TypeOK, NEW s \in Senders, AimInv(s),
           UNCHANGED <<isConnected, target, nodeToConnect, purpose>>,
           pc[s] \in Booking /\ pc'[s] \in Booking,
           purpose[s] = "settle" => conn'[s] = conn[s]
    PROVE  AimInv(s)'
  BY DEF AimInv, Aimed, Seeks, Credits, Failing, Probing, Booking, Found, Trying, target

(* While the thread keeps the books.                                       *)
LEMMA BookAims ==
    ASSUME Undisturbed, TypeOK, ListInv, NEW s \in Senders, AimInv(s), ChoiceInv(s), CrashInv(s),
           Bookkeeping(s)
    PROVE  AimInv(s)'
  <1> USE DEF globals, book, retries, target, task, edit, world, outside
  <1>0. ~Missing(s) /\ Views(s) = {connections}
    BY NeverMissing, Alone DEF Undisturbed
  <1>1. CASE ReadCurrentNode(s)
    <2>1. /\ pc[s] \in {"charge", "settle"} /\ pc'[s] = "find" /\ purpose'[s] = pc[s]
          /\ conn'[s] = currentNode /\ UNCHANGED <<isConnected, target, nodeToConnect>>
      BY <1>1 DEF TypeOK, ReadCurrentNode, Process, Begin, Goto
    <2> QED
      BY <2>1 DEF AimInv, Aimed, Seeks, Credits, Failing, Probing, Booking, Found, Trying
  <1>2. CASE Find(s)
    <2>1. pc[s] = "find" /\ pc'[s] = "fetch" /\ UNCHANGED <<isConnected, target, nodeToConnect, purpose, conn>>
      BY <1>2, BookHops DEF Find, Hop
    <2> QED
      BY <2>1, AimKept DEF Booking, Found
  <1>3. CASE Fetch(s)
    <2>1. /\ pc[s] = "fetch" /\ pc'[s] \in {"count", "clear"}
          /\ UNCHANGED <<isConnected, target, nodeToConnect, purpose>>
          /\ conn'[s] = connections[slot[s]]
      <3>1. pc[s] = "fetch" /\ pc'[s] \in {"count", "clear"}
        BY <1>3, BookHops DEF Fetch, Hop
      <3>2. UNCHANGED <<isConnected, target, nodeToConnect, purpose>>
        BY <1>3 DEF Fetch
      <3>3. PICK list \in {connections} : conn' = [conn EXCEPT ![s] = list[slot[s]]]
        BY <1>0, <1>3 DEF Fetch
      <3>4. conn'[s] = connections[slot[s]]
        BY <3>3 DEF TypeOK
      <3> QED
        BY <3>1, <3>2, <3>4
    <2>2. purpose[s] = "settle" => connections[slot[s]] = conn[s]
      BY <2>1 DEF ListInv, InItsSlot, Booked, Found
    <2> QED
      BY <2>1, <2>2, AimKept DEF Booking, Found
  <1>4. CASE \/ ReadCount(s) \/ AddDelay(s) \/ SetTimeToRetry(s) \/ RereadCount(s)
             \/ SetRetryCount(s) \/ ClearTimeToRetry(s) \/ ClearRetryCount(s) \/ AddTimeout(s)
    <2>1. UNCHANGED <<isConnected, target, nodeToConnect, purpose, conn>>
      BY <1>4 DEF ReadCount, AddDelay, SetTimeToRetry, RereadCount, SetRetryCount, ClearTimeToRetry,
                  ClearRetryCount, AddTimeout, Reads, Writes
    <2>2. pc[s] \in Booking /\ pc'[s] \in Booking
      BY <1>4, BookHops DEF Hop, Booking, Found
    <2> QED
      BY <2>1, <2>2, AimKept
  <1>5. CASE SetTimeTillTimeout(s)
    <2>1. UNCHANGED <<isConnected, target, nodeToConnect>> /\ pc[s] = "renew"
      BY <1>5 DEF SetTimeTillTimeout, Writes
    <2>2. CASE purpose[s] = "setup"
      <3>1. pc'[s] = "choose"
        BY <1>5, <2>2 DEF SetTimeTillTimeout, Goto, TypeOK
      <3> QED
        BY <2>1, <2>2, <3>1 DEF AimInv, Aimed, Seeks, Credits, Failing, Probing, Booking, Found, Trying
    <2>3. CASE purpose[s] # "setup"
      <3>1. UNCHANGED <<purpose, conn>> /\ pc'[s] = "putback"
        BY <1>5, <2>3 DEF SetTimeTillTimeout, Goto, TypeOK
      <3> QED
        BY <2>1, <3>1, AimKept DEF Booking, Found
    <2> QED
      BY <2>2, <2>3
  <1>6. CASE PutBack(s)
    <2>1. UNCHANGED <<isConnected, target>> /\ pc[s] = "putback" /\ pc'[s] = After(s)
      BY <1>6 DEF PutBack, Writes, Stir, TypeOK
    <2>2. purpose[s] \in Purposes
      BY <2>1 DEF TypeOK, EditOK, AimInv, Booking, Found
    <2>3. CASE Failing(s)
      <3>1. pc'[s] = "choose"
        BY <2>1, <2>3 DEF After, Failing
      <3>2. Seeks(s)
        BY <2>1, <2>3 DEF Seeks, Booking, Found
      <3>3. ~isConnected
        BY <3>2 DEF AimInv
      <3> QED
        BY <2>1, <3>1, <3>3 DEF AimInv, Aimed, Seeks, Credits, Failing, Probing, Booking, Found, Trying
    <2>4. CASE ~Failing(s)
      <3>1. pc'[s] \in {"post", "returned"} /\ Aimed
        BY <2>1, <2>2, <2>4 DEF After, AimInv, Credits, Failing, Purposes, Booking, Found
      <3> QED
        BY <2>1, <3>1 DEF AimInv, Aimed, Seeks, Credits, Failing, Probing, Booking, Found, Trying
    <2> QED
      BY <2>3, <2>4
  <1> QED
    BY <1>0, <1>1, <1>2, <1>3, <1>4, <1>5, <1>6 DEF Bookkeeping

(* While it chooses, connects, probes and sends.                           *)
LEMMA StepAims ==
    ASSUME Undisturbed, TypeOK, ListInv, Quiet, NEW s \in Senders, AimInv(s), ChoiceInv(s),
           CrashInv(s), Acts(s)
    PROVE  AimInv(s)'
  <1> USE DEF globals, book, retries, target, task, edit, world, outside
  <1>0. ~SortThrows(s)
    BY NeverMissing DEF Undisturbed
  <1>1. CASE StartSetup(s)
    <2>1. setups = 0
      BY <1>1, TimeAssumption DEF StartSetup, Undisturbed, OneSetup, TypeOK
    <2>2. ~isConnected /\ isConnected' = isConnected /\ pc'[s] = "clock" /\ purpose'[s] = "setup"
      BY <1>1, <2>1 DEF StartSetup, Goto, Quiet, TypeOK
    <2> QED
      BY <2>2 DEF AimInv, Aimed, Seeks, Credits, Failing, Probing, Booking, Found, Trying
  <1>2. ASSUME NEW k \in Kinds, StartSend(s, k) PROVE AimInv(s)'
    <2>1. /\ pc[s] \in Resting /\ pc'[s] = "check"
          /\ UNCHANGED <<isConnected, currentNode, baseUrl>>
      BY <1>2, StartHops DEF StartSend, Hop
    <2>2. httpClient'.headers = httpClient.headers
      BY <1>2 DEF StartSend, DropBuilder, Clients, TypeOK
    <2> QED
      BY <2>1, <2>2 DEF AimInv, Aimed, Seeks, Credits, Probing, Booking, Found, Trying
  <1>3. CASE Check(s) \/ Again(s)
    <2>1. UNCHANGED <<isConnected, target>>
      BY <1>3 DEF Check, Again
    <2>2. /\ pc[s] \in {"check", "again"}
          /\ pc'[s] \in {"post", "charge", "check"}
          /\ (pc'[s] = "post" => isConnected)
          /\ (pc'[s] = "charge" => ~isConnected)
      BY <1>3 DEF Check, Again, Goto, TypeOK
    <2> QED
      BY <2>1, <2>2 DEF AimInv, Aimed, Seeks, Credits, Probing, Booking, Found, Trying
  <1>4. CASE \/ BudgetSpent(s) \/ BeginSort(s) \/ EndSort(s) \/ TakeFirst(s) \/ WaitExpires(s)
    <2>1. UNCHANGED <<isConnected, target>>
      BY <1>4 DEF BudgetSpent, BeginSort, EndSort, TakeFirst, WaitExpires
    <2>2. /\ pc[s] \in {"choose", "sort", "stirred", "first", "wait"}
          /\ pc'[s] \in {"returned", "timedOut", "sort", "first", "current"}
      BY <1>4, StartHops DEF Hop
    <2>3. ~isConnected
      BY <2>2 DEF AimInv, Seeks, Probing, ListInv, Unraced
    <2> QED
      BY <2>1, <2>2, <2>3 DEF AimInv, Aimed, Seeks, Credits, Probing, Booking, Found, Trying
  <1>5. CASE SetCurrentNode(s) \/ PrepareHeader(s) \/ WaitOver(s)
    <2>1. /\ pc[s] \in {"current", "look", "wait"} /\ pc'[s] \in {"look", "wait", "ask"}
          /\ UNCHANGED <<isConnected, nodeToConnect>>
      BY <1>5, StartHops DEF SetCurrentNode, PrepareHeader, WaitOver, Hop
    <2>2. ~isConnected
      BY <2>1 DEF AimInv, Seeks, Probing
    <2>3. nodeToConnect[s] = currentNode'
      <3>1. CASE SetCurrentNode(s)
        BY <3>1 DEF SetCurrentNode
      <3>2. CASE PrepareHeader(s) \/ WaitOver(s)
        BY <3>2 DEF PrepareHeader, WaitOver, AimInv
      <3> QED
        BY <1>5, <3>1, <3>2
    <2>4. pc'[s] = "ask" => baseUrl' = currentNode'
      <3>1. CASE WaitOver(s)
        BY <2>3, <3>1 DEF WaitOver
      <3>2. CASE ~WaitOver(s)
        BY <1>5, <3>2, StartHops DEF Hop
      <3> QED
        BY <3>1, <3>2
    <2> QED
      BY <2>1, <2>2, <2>3, <2>4 DEF AimInv, Aimed, Seeks, Credits, Probing, Booking, Found, Trying
  <1>6. CASE Connect(s)
    <2>1. /\ ~isConnected /\ isConnected' = isConnected /\ nodeToConnect' = nodeToConnect
          /\ nodeToConnect[s] = currentNode /\ baseUrl = currentNode
          /\ baseUrl' = baseUrl /\ currentNode' = currentNode
      <3>1. pc[s] \in {"ask", "build", "client", "publish"}
        BY <1>6, TalkHops DEF Connect, Hop
      <3>2. ~isConnected /\ nodeToConnect[s] = currentNode /\ baseUrl = currentNode
        BY <3>1 DEF AimInv, Seeks, Probing, Trying
      <3>3. UNCHANGED <<isConnected, nodeToConnect, baseUrl, currentNode>>
        BY <1>6 DEF Connect, AskConnected, ReadBudget, LessNow, SetHttpClient, Reads
      <3> QED
        BY <3>2, <3>3
    <2>2. CASE AskConnected(s) \/ ReadBudget(s) \/ LessNow(s)
      <3>1. pc'[s] \in {"build", "client", "publish"}
        BY <2>1, <2>2 DEF AskConnected, ReadBudget, LessNow, Reads, NeedsClient, Goto, TypeOK
      <3> QED
        BY <2>1, <3>1 DEF AimInv, Aimed, Seeks, Credits, Probing, Booking, Found, Trying
    <2>3. CASE SetHttpClient(s) /\ Affordable(s)
      <3>1. pc'[s] = "request" /\ httpClient'.headers = nodeToConnect[s]
        BY <2>3 DEF SetHttpClient, Goto, TypeOK
      <3> QED
        BY <2>1, <3>1 DEF AimInv, Aimed, Seeks, Credits, Probing, Booking, Found, Trying
    <2>4. CASE SetHttpClient(s) /\ ~Affordable(s)
      <3>1. pc'[s] = "find" /\ purpose'[s] = "failed"
        BY <2>4 DEF SetHttpClient, Process, Begin, Goto, TypeOK
      <3> QED
        BY <2>1, <3>1 DEF AimInv, Aimed, Seeks, Credits, Failing, Probing, Booking, Found, Trying
    <2> QED
      BY <1>6, <2>2, <2>3, <2>4 DEF Connect
  <1>7. CASE Request(s)
    <2>1. pc[s] = "request" /\ pc'[s] = "get" /\ UNCHANGED <<isConnected, target, nodeToConnect>>
      BY <1>7, TalkHops DEF Request, Hop
    <2> QED
      BY <2>1 DEF AimInv, Aimed, Seeks, Credits, Probing, Booking, Found, Trying
  <1>8. CASE GetOk(s) \/ GetFails(s)
    <2>1. /\ pc[s] = "get" /\ pc'[s] = "find" /\ UNCHANGED <<target, nodeToConnect>>
          /\ \/ purpose'[s] = "succeeded"
             \/ purpose'[s] = "failed" /\ ~isConnected'
      BY <1>8, TalkHops DEF GetOk, GetFails, Outcome, Probed, Process, Begin, TypeOK, Hop
    <2> QED
      BY <2>1 DEF AimInv, Aimed, Seeks, Credits, Failing, Probing, Booking, Found, Trying
  <1>9. ~GetBad(s)
    BY DEF GetBad, Answered, Undisturbed, NoErrorCodes
  <1>10. ~PostAsync(s)
    BY DEF PostAsync, Quiet
  <1>11. CASE PostSync(s)
    <2>1. /\ pc[s] = "post" /\ pc'[s] = "exchange" /\ UNCHANGED <<isConnected, target>>
          /\ nodeToConnect'[s] = baseUrl
      BY <1>11, TalkHops DEF PostSync, TypeOK, Hop
    <2> QED
      BY <2>1 DEF AimInv, Aimed, Seeks, Credits, Probing, Booking, Found, Trying
  <1>12. CASE PostAnswered(s) \/ PostFails(s)
    <2>1. /\ pc[s] = "exchange" /\ pc'[s] \in {"settle", "again"}
          /\ UNCHANGED <<target, nodeToConnect>>
      BY <1>12, TalkHops DEF PostAnswered, PostFails, Outcome, Hop
    <2> QED
      BY <2>1 DEF AimInv, Aimed, Seeks, Credits, Probing, Booking, Found, Trying
  <1>13. CASE Bookkeeping(s)
    BY <1>13, BookAims
  <1> QED
    BY <1>0, <1>1, <1>2, <1>3, <1>4, <1>5, <1>6, <1>7, <1>8, <1>9, <1>10, <1>11, <1>12, <1>13
       DEF Acts, Step

LEMMA StepPost ==
    ASSUME Undisturbed, TypeOK, ListInv, \A s \in Senders : ChoiceInv(s), NeverCrashes, PostInv,
           [Next]_vars
    PROVE  PostInv'
  <1> USE DEF globals, book, retries, target, task, edit, world, outside
  <1>1. ASSUME NEW s \in Senders, Acts(s) PROVE PostInv'
    <2>1. AimInv(s)'
      BY <1>1, StepAims DEF PostInv, NeverCrashes
    <2>2. Quiet'
      BY <1>1, StepQuiet DEF PostInv
    <2> QED
      BY <2>1, <2>2 DEF PostInv, Undisturbed, OneThread
  <1>2. CASE UNCHANGED vars \/ Tick
    <2>1. UNCHANGED <<isConnected, target, pc, kind, nodeToConnect, edit, setups, inflight>>
      BY <1>2 DEF vars, Tick
    <2>2. ASSUME NEW s \in Senders PROVE AimInv(s)'
      BY <2>1 DEF PostInv, AimInv, Aimed, Seeks, Credits, Failing
    <2>3. Quiet'
      BY <2>1 DEF PostInv, Quiet
    <2> QED
      BY <2>2, <2>3 DEF PostInv
  <1> QED
    BY <1>1, <1>2, NoCallbacks DEF Next, Calls, Acts, PostInv

(* A transaction goes to the node the driver calls its current one, with   *)
(* that node's headers, and the node that served it is the one credited,   *)
(* at every step of processConnectionSuccess.                              *)
THEOREM PostsWhereItProbed == ASSUME Undisturbed PROVE Spec => []PostsToCurrentNode
  <1>1. Init => PostInv
    <2> SUFFICES ASSUME Init PROVE PostInv
      OBVIOUS
    <2>1. Quiet
      BY DEF Init, Quiet
    <2>2. ASSUME NEW s \in Senders PROVE AimInv(s)
      BY DEF Init, AimInv, Seeks, Credits, Probing, Booking, Found, Trying
    <2> QED
      BY <2>1, <2>2 DEF PostInv
  <1>2. TypeOK /\ ListInv /\ (\A s \in Senders : ChoiceInv(s)) /\ NeverCrashes /\ PostInv
          /\ [Next]_vars => PostInv'
    BY Undisturbed, StepPost
  <1>3. PostInv => PostsToCurrentNode
    BY DEF PostInv, AimInv, Aimed, Credits, Booking, PostsToCurrentNode
  <1>4. Spec => [](ListInv /\ \A s \in Senders : ChoiceInv(s))
    BY Undisturbed, ChoiceInvariant DEF Undisturbed
  <1>5. Spec => []NeverCrashes
    BY Undisturbed, CrashInvariant DEF Undisturbed
  <1> QED
    BY <1>1, <1>2, <1>3, <1>4, <1>5, TypeCorrect, PTL DEF Spec
=============================================================================
