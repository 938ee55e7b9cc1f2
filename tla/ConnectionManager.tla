-------------------------- MODULE ConnectionManager --------------------------
(***************************************************************************)
(* How the driver chooses, probes and keeps the node it talks to:          *)
(* BigchainDbConfigBuilder.ConfigBuilder, the static fields of             *)
(* BigChainDBGlobals, NetworkUtils, and the three send methods of          *)
(* BigchainDbTransactionBuilder.Builder.                                   *)
(*                                                                         *)
(* Every static field is a variable shared by all calling threads          *)
(* (Senders) and by the HTTP client's callback threads; nothing in the     *)
(* code locks them.  A sender's program counter pc[s] names the place in   *)
(* the code the call has reached; one action is the code between two       *)
(* places, and reads or writes one shared field, the clock or a node.  A   *)
(* number that was read and is yet to be used is in held[s].               *)
(*                                                                         *)
(* Time is counted in fractions of BigChainDBGlobals.DELAY.                *)
(***************************************************************************)
EXTENDS Integers, Sequences, Functions

CONSTANTS
    NodeList,    \* the connections handed to ConfigBuilder, in the user's order
    NoNode,      \* "no connection": a reference that is still null
    Senders,     \* the threads that call setup() and sendTransaction()
    Nobody,      \* owner of an HTTP client whose builder is no longer in use
    Kinds,       \* the sends made: "async" takes a callback, "sync" waits
    Replies,     \* what a node may do at once: "ok" (200), "bad" (another code), "refuse"
    Delay,       \* BigChainDBGlobals.DELAY
    Width,       \* the bits of a long
    Timeout,     \* BigChainDBGlobals.timeout
    MaxTime,     \* bound: the clock stops here
    LastStart,   \* bound: no send is entered after this instant
    MaxCalls,    \* bound: how often a send is entered, retries included
    MaxSetups,   \* bound: how often setup() is called
    MaxRetry     \* bound: a node's retry count

Slots == DOMAIN NodeList
Nodes == {NodeList[i] : i \in Slots}

(* DELAY * (long) Math.pow(2, k): the cast stops at the greatest long, the *)
(* product wraps around.                                                   *)
LongMax == 2^(Width - 1) - 1
Power(k) == IF k < Width - 1 THEN 2^k ELSE LongMax
Long(x) == IF x <= LongMax THEN x ELSE ((x + LongMax + 1) % (2 * (LongMax + 1))) - (LongMax + 1)
RawBackoff(k) == Long(Delay * Power(k))
Overflows(k) == Delay * Power(k) > LongMax

ASSUME ListAssumption ==
    /\ Len(NodeList) \in Nat \ {0}
    /\ Slots = 1..Len(NodeList)
    /\ NodeList \in [Slots -> Nodes]
    /\ IsInjective(NodeList)
    /\ NoNode \notin Nodes
    /\ Nobody \notin Senders

ASSUME KindAssumption ==
    /\ Kinds \subseteq {"async", "sync"}
    /\ Replies \subseteq {"ok", "bad", "refuse"}

ASSUME TimeAssumption ==
    /\ Delay \in Nat
    /\ Timeout \in Nat
    /\ MaxTime \in Nat
    /\ LastStart \in Nat
    /\ MaxCalls \in Nat
    /\ MaxSetups \in Nat
    /\ MaxRetry \in Nat

ASSUME WidthAssumption ==
    /\ LongMax \in Nat
    /\ \A k \in 0..MaxRetry : Power(k) \in Nat /\ Delay * Power(k) \in Nat
    /\ \A k \in 1..MaxRetry : Delay * Power(k - 1) <= Delay * Power(k)

VARIABLES
    now,              \* System.currentTimeMillis()
    isConnected,      \* BigChainDBGlobals.isConnected
    timeTillTimeout,  \* BigChainDBGlobals.timeTillTimeout
    connections,      \* BigChainDBGlobals.connections, in its current order
    retryCount,       \* Connection.retryCount of each node
    timeToRetry,      \* Connection.timeToRetryForConnection of each node
    currentNode,      \* BigChainDBGlobals.currentNode
    baseUrl,          \* BigChainDBGlobals.baseUrl, by the node it points to
    httpClient,       \* BigChainDBGlobals.httpClient
    pc,               \* where each sender is in the code
    kind,             \* which call each sender is making
    nodeToConnect,    \* the node a sender is probing, or has posted to
    handlers,         \* the nodes whose open try blocks may catch a sender's exception
    due,              \* what a sender waits for: a retry time or a request's timeout
    purpose,          \* what a sender's bookkeeping is for
    slot,             \* nodeIndex of processConnectionFailure and -Success
    conn,             \* the node looked for, then conn of those two methods
    held,             \* a number a sender has read or computed and not yet written
    inflight,         \* per node, the asynchronous requests not yet answered
    calls,            \* how many sends were made
    setups,           \* how many times setup() was called
    tried             \* history: has this call sent a request to any node?

retries == <<timeToRetry, retryCount>>
book    == <<connections, retries, timeTillTimeout>>
target  == <<currentNode, baseUrl, httpClient>>
globals == <<isConnected, book, target>>
edit    == <<purpose, slot, conn, held>>
task    == <<kind, nodeToConnect, handlers, due, edit>>
world   == <<now, calls, setups>>
outside == <<world, inflight, tried>>
vars    == <<globals, pc, task, outside>>

-----------------------------------------------------------------------------
(* The HTTP client: its timeout, the builder whose tokens its interceptor  *)
(* reads, and the node those tokens belong to.                             *)
Clients == [timeout : Nat, owner : Senders \cup {Nobody},
            headers : Nodes \cup {NoNode}]
NoClient == [timeout |-> 0, owner |-> Nobody, headers |-> NoNode]

Resting == {"idle", "returned", "timedOut", "crashed"}
(* Places inside List.sort, and inside the two methods that keep the books *)
(* once they have found the node.                                          *)
Sorting == {"sort", "stirred", "raced", "torn"}
Found == {"fetch", "count", "delay", "defer", "recount", "increase",
          "clear", "reset", "clock", "renew", "putback"}
Places == Resting \cup Sorting \cup Found \cup
    {"check", "again", "choose", "first", "current", "look", "wait",
     "ask", "build", "client", "publish", "request", "get", "post", "exchange",
     "charge", "settle", "find"}

(* An instant the clock never reaches: an OkHttp timeout of 0 means none.  *)
Never == MaxTime + 1
Deadline(timeout) == IF timeout = 0 THEN Never ELSE now + timeout

Listed(n) == \E i \in Slots : connections[i] = n

Cap == Timeout \div 2
(* Mutants of Backoff: no cap; a remainder in place of the minimum.        *)
UncappedBackoff(k) == RawBackoff(k)
WrappedBackoff(k) == RawBackoff(k) % (Cap + 1)
Backoff(k) == IF RawBackoff(k) < Cap THEN RawBackoff(k) ELSE Cap

(* Mutant of Reversed: the comparator's operands swapped.                  *)
DescendingReversed(i, j) ==
    timeToRetry[connections[i]] < timeToRetry[connections[j]]

(* The arrangements List.sort may leave: ascending in timeToRetry, equal   *)
(* ones in the order they had.                                             *)
Reversed(i, j) == \/ timeToRetry[connections[i]] > timeToRetry[connections[j]]
                  \/ timeToRetry[connections[i]] = timeToRetry[connections[j]] /\ i > j
StableOrders ==
    {p \in Surjection(Slots, Slots) : \A i, j \in Slots : i < j => ~Reversed(p[i], p[j])}
InOrder == \A i, j \in Slots : i < j => ~Reversed(i, j)
SortedLists == {[i \in Slots |-> connections[p[i]]] : p \in StableOrders}
AnyLists == [Slots -> Range(connections)]

Goto(s, place) == pc' = [pc EXCEPT ![s] = place]
Leave(s, place) == Goto(s, place) /\ due' = [due EXCEPT ![s] = 0]

(* A TimeoutException reaches the caller of a send; setup() swallows it.   *)
Expired(s) == IF kind[s] = "setup" THEN "returned" ELSE "timedOut"

(* List.sort moves elements in place.  Another thread that writes a retry  *)
(* time or a slot meanwhile leaves it with any elements in any slots.      *)
Stir(s, next) ==
    pc' = [t \in Senders |->
             CASE t = s -> next
               [] t # s /\ pc[t] = "sort" -> "stirred"
               [] t # s /\ pc[t] = "raced" -> "torn"
               [] OTHER -> pc[t]]

(* What a thread may see of the list: while another one's sort moves       *)
(* elements, any of them anywhere.                                         *)
Overlaps(s) == \E t \in Senders \ {s} : pc[t] \in Sorting
Moving(s) == \E t \in Senders \ {s} : pc[t] \in Sorting /\ (~InOrder \/ pc[t] \in {"stirred", "torn"})
Views(s) == IF Moving(s) THEN AnyLists ELSE {connections}

-----------------------------------------------------------------------------
(* processConnectionFailure and processConnectionSuccess, called by the    *)
(* sends with getCurrentNode() and by configureNodeToConnect() with the    *)
(* node it probed.                                                         *)
Purposes == {"charge", "failed", "succeeded", "settle"}
Failing(s) == purpose[s] \in {"charge", "failed"}
After(s) == CASE Failing(s) -> "choose"
              [] purpose[s] = "succeeded" /\ kind[s] # "setup" -> "post"
              [] OTHER -> "returned"

Begin(s, why, n) ==
    /\ purpose' = [purpose EXCEPT ![s] = why]
    /\ conn' = [conn EXCEPT ![s] = n]
    /\ UNCHANGED <<slot, held>>
Process(s, why, n) == Begin(s, why, n) /\ Goto(s, "find")

Hold(s, number) == held' = [held EXCEPT ![s] = number]
LetGo(s) ==
    /\ purpose' = [purpose EXCEPT ![s] = "none"]
    /\ slot' = [slot EXCEPT ![s] = 0]
    /\ conn' = [conn EXCEPT ![s] = NoNode]
    /\ Hold(s, 0)
Forget(s) == nodeToConnect' = [nodeToConnect EXCEPT ![s] = NoNode]
NoHandlers(s) == handlers' = [handlers EXCEPT ![s] = {}]

(* An exception leaves the innermost configureNodeToConnect().  A frame    *)
(* whose probe was answered with an error code made its recursive call     *)
(* inside its own try: it catches the exception, charges its node once     *)
(* more and probes on.  Other frames pass the exception to the caller.     *)
(* Which of the nodes that answered so is on the stack, and how often, is  *)
(* abstracted: any of them may catch, or none.                             *)
Unwind(s, place) ==
    \/ place = "crashed" /\ LetGo(s) /\ Forget(s)
    \/ /\ place = "find"
       /\ \E n \in handlers[s] :
             Begin(s, "failed", n) /\ nodeToConnect' = [nodeToConnect EXCEPT ![s] = n]

(* getCurrentNode(), for the call that a send makes.                       *)
ReadCurrentNode(s) ==
    /\ pc[s] \in {"charge", "settle"}
    /\ Process(s, pc[s], currentNode)
    /\ UNCHANGED <<globals, kind, nodeToConnect, handlers, due, outside>>

(* indexOf: the first slot that holds the node.                            *)
Find(s) ==
    /\ pc[s] = "find"
    /\ \E list \in Views(s), i \in Slots :
          /\ list[i] = conn[s]
          /\ \A j \in Slots : list[j] = conn[s] => i <= j
          /\ slot' = [slot EXCEPT ![s] = i]
    /\ Goto(s, "fetch")
    /\ UNCHANGED <<globals, kind, nodeToConnect, handlers, due, purpose, conn, held, outside>>

(* indexOf yields -1 when the list has lost the node, and get(-1) throws.  *)
(* processConnectionSuccess(nodeToConnect) is called inside the try.       *)
Missing(s) ==
    /\ pc[s] = "find"
    /\ \E list \in Views(s) : conn[s] \notin Range(list)
    /\ \/ /\ purpose[s] = "succeeded"
          /\ Process(s, "failed", nodeToConnect[s])
          /\ UNCHANGED nodeToConnect
       \/ /\ purpose[s] # "succeeded"
          /\ \E place \in {"crashed", "find"} : Goto(s, place) /\ Unwind(s, place)
    /\ UNCHANGED <<globals, kind, handlers, due, outside>>

(* get(nodeIndex): another node by now, if the list was sorted since.      *)
Fetch(s) ==
    /\ pc[s] = "fetch"
    /\ \E list \in Views(s) : conn' = [conn EXCEPT ![s] = list[slot[s]]]
    /\ Goto(s, IF Failing(s) THEN "count" ELSE "clear")
    /\ UNCHANGED <<globals, kind, nodeToConnect, handlers, due, purpose, slot, held, outside>>

(* A step of the bookkeeping that reads, or one that writes.               *)
Reads(s, place, number, next) ==
    /\ pc[s] = place
    /\ Hold(s, number)
    /\ Goto(s, next)
    /\ UNCHANGED <<globals, kind, nodeToConnect, handlers, due, purpose, slot, conn, outside>>
Writes(s, place) ==
    /\ pc[s] = place
    /\ UNCHANGED <<isConnected, target, kind, due, outside>>

(* processConnectionFailure: the delay from the count, the retry time from *)
(* the clock, then the count once more.                                    *)
ReadCount(s) == Reads(s, "count", Backoff(retryCount[conn[s]]), "delay")
AddDelay(s) == Reads(s, "delay", now + held[s], "defer")

SetTimeToRetry(s) ==
    /\ Writes(s, "defer")
    /\ timeToRetry' = [timeToRetry EXCEPT ![conn[s]] = held[s]]
    /\ Hold(s, 0)
    /\ Stir(s, "recount")
    /\ UNCHANGED <<connections, retryCount, timeTillTimeout, nodeToConnect, handlers, purpose, slot, conn>>

RereadCount(s) == Reads(s, "recount", retryCount[conn[s]], "increase")

SetRetryCount(s) ==
    /\ Writes(s, "increase")
    /\ held[s] < MaxRetry
    /\ retryCount' = [retryCount EXCEPT ![conn[s]] = held[s] + 1]
    /\ Hold(s, 0)
    /\ Goto(s, "putback")
    /\ UNCHANGED <<connections, timeToRetry, timeTillTimeout, nodeToConnect, handlers, purpose, slot, conn>>

(* processConnectionSuccess: the retry time, the count, then the budget.   *)
ClearTimeToRetry(s) ==
    /\ Writes(s, "clear")
    /\ timeToRetry' = [timeToRetry EXCEPT ![conn[s]] = 0]
    /\ Stir(s, "reset")
    /\ UNCHANGED <<connections, retryCount, timeTillTimeout, nodeToConnect, handlers, edit>>

ClearRetryCount(s) ==
    /\ Writes(s, "reset")
    /\ retryCount' = [retryCount EXCEPT ![conn[s]] = 0]
    /\ Goto(s, "clock")
    /\ UNCHANGED <<connections, timeToRetry, timeTillTimeout, nodeToConnect, handlers, edit>>

(* resetTimeTillTimeout(), which setup() calls too: the clock, then the    *)
(* static field.                                                           *)
AddTimeout(s) == Reads(s, "clock", now + Timeout, "renew")

SetTimeTillTimeout(s) ==
    /\ Writes(s, "renew")
    /\ timeTillTimeout' = held[s]
    /\ IF purpose[s] = "setup" THEN Goto(s, "choose") /\ LetGo(s)
       ELSE Goto(s, "putback") /\ Hold(s, 0) /\ UNCHANGED <<purpose, slot, conn>>
    /\ UNCHANGED <<connections, retries, nodeToConnect, handlers>>

(* set(nodeIndex, conn) ends both; the frames that probed return with it.  *)
PutBack(s) ==
    /\ Writes(s, "putback")
    /\ connections' = [connections EXCEPT ![slot[s]] = conn[s]]
    /\ Stir(s, After(s))
    /\ LetGo(s)
    /\ IF purpose[s] = "succeeded" THEN NoHandlers(s) ELSE UNCHANGED handlers
    /\ IF After(s) = "returned" THEN Forget(s) ELSE UNCHANGED nodeToConnect
    /\ UNCHANGED <<retries, timeTillTimeout>>

Bookkeeping(s) ==
    \/ ReadCurrentNode(s) \/ Find(s) \/ Missing(s) \/ Fetch(s)
    \/ ReadCount(s) \/ AddDelay(s) \/ SetTimeToRetry(s) \/ RereadCount(s) \/ SetRetryCount(s)
    \/ ClearTimeToRetry(s) \/ ClearRetryCount(s) \/ AddTimeout(s) \/ SetTimeTillTimeout(s)
    \/ PutBack(s)

-----------------------------------------------------------------------------
(* The builder of the previous call is dropped: from here on nobody        *)
(* changes the tokens its client sends.                                    *)
DropBuilder(s) ==
    httpClient' = IF httpClient.owner = s THEN [httpClient EXCEPT !.owner = Nobody]
                                          ELSE httpClient

(* new ConfigBuilder(connections) ... setup(), up to resetTimeTillTimeout. *)
(* Applications configure the driver while no send is running.             *)
StartSetup(s) ==
    /\ \A t \in Senders : pc[t] \in Resting
    /\ setups < MaxSetups
    /\ now <= LastStart
    /\ setups' = setups + 1
    /\ connections' = NodeList
    /\ retryCount' = [n \in Nodes |-> 0]
    /\ timeToRetry' = [n \in Nodes |-> 0]
    /\ DropBuilder(s)
    /\ kind' = [kind EXCEPT ![s] = "setup"]
    /\ tried' = [tried EXCEPT ![s] = FALSE]
    /\ purpose' = [purpose EXCEPT ![s] = "setup"]
    /\ Goto(s, "clock")
    /\ UNCHANGED <<isConnected, timeTillTimeout, currentNode, baseUrl, nodeToConnect, handlers,
                   due, slot, conn, held, now, calls, inflight>>

(* sendTransaction(callback) and sendTransaction() begin: the transaction  *)
(* builder brings a ConfigBuilder of its own.                              *)
StartSend(s, k) ==
    /\ pc[s] \in Resting
    /\ \A t \in Senders : ~(pc[t] \notin Resting /\ kind[t] = "setup")
    /\ currentNode # NoNode
    /\ calls < MaxCalls
    /\ now <= LastStart
    /\ calls' = calls + 1
    /\ kind' = [kind EXCEPT ![s] = k]
    /\ tried' = [tried EXCEPT ![s] = FALSE]
    /\ DropBuilder(s)
    /\ Goto(s, "check")
    /\ UNCHANGED <<isConnected, book, currentNode, baseUrl, nodeToConnect, handlers,
                   due, edit, now, setups, inflight>>

(* if (!BigChainDBGlobals.isConnected())                                   *)
Check(s) ==
    /\ pc[s] = "check"
    /\ Goto(s, IF isConnected THEN "post" ELSE "charge")
    /\ UNCHANGED <<globals, task, outside>>

(* sendTransaction() calls itself after an IOException: it is entered once *)
(* more, on the same builder.                                              *)
Again(s) ==
    /\ pc[s] = "again"
    /\ calls < MaxCalls
    /\ now <= LastStart
    /\ calls' = calls + 1
    /\ Goto(s, "check")
    /\ UNCHANGED <<globals, task, now, setups, inflight, tried>>

-----------------------------------------------------------------------------
(* System.currentTimeMillis() > getTimeTillTimeout(), and its mutant: the  *)
(* budget is never looked at.                                              *)
NeverOutOfTime == FALSE
OutOfTime == now > timeTillTimeout

(* configureNodeToConnect() finds its budget spent.                        *)
BudgetSpent(s) ==
    /\ pc[s] = "choose"
    /\ OutOfTime
    /\ Goto(s, Expired(s))
    /\ NoHandlers(s)
    /\ Forget(s)
    /\ UNCHANGED <<globals, kind, due, edit, outside>>

BeginSort(s) ==
    /\ pc[s] = "choose"
    /\ ~OutOfTime
    /\ Goto(s, "sort")
    /\ UNCHANGED <<globals, task, outside>>

(* getConnectionWithEarliestAvailability(): ArrayList.sort.  Of two sorts  *)
(* that overlap the one that ends second sees the list's modification      *)
(* count changed ("raced", "torn"); while elements move, each may leave    *)
(* any elements in any slots.                                              *)
Disturbed(s) == pc[s] \in {"stirred", "torn"} \/ (Overlaps(s) /\ ~InOrder)

Sort(s, next) ==
    /\ connections' \in IF Disturbed(s) THEN AnyLists ELSE SortedLists
    /\ pc' = [t \in Senders |->
                CASE t = s -> next
                  [] t # s /\ pc[t] \in {"sort", "raced"} -> IF InOrder THEN "raced" ELSE "torn"
                  [] t # s /\ pc[t] = "stirred" -> "torn"
                  [] OTHER -> pc[t]]

EndSort(s) ==
    /\ pc[s] \in {"sort", "stirred"}
    /\ Sort(s, "first")
    /\ UNCHANGED <<isConnected, retries, timeTillTimeout, target, task, outside>>

(* ConcurrentModificationException, before a node is chosen: the handler   *)
(* then looks up null in the list and throws too.                          *)
SortThrows(s) ==
    /\ pc[s] \in {"raced", "torn"}
    /\ \E place \in {"crashed", "find"} : Sort(s, place) /\ Unwind(s, place)
    /\ UNCHANGED <<isConnected, timeTillTimeout, retries, target, kind, handlers, due, outside>>

(* The first node of the list becomes the current one; prepareHeader()     *)
(* replaces the builder's tokens; its retry time is looked up.             *)
TakeFirst(s) ==
    /\ pc[s] = "first"
    /\ \E list \in Views(s) : nodeToConnect' = [nodeToConnect EXCEPT ![s] = list[1]]
    /\ Goto(s, "current")
    /\ UNCHANGED <<globals, kind, handlers, due, edit, outside>>

SetCurrentNode(s) ==
    /\ pc[s] = "current"
    /\ currentNode' = nodeToConnect[s]
    /\ Goto(s, "look")
    /\ UNCHANGED <<isConnected, book, baseUrl, httpClient, task, outside>>

PrepareHeader(s) ==
    /\ pc[s] = "look"
    /\ httpClient' = IF httpClient.owner = s
                       THEN [httpClient EXCEPT !.headers = nodeToConnect[s]] ELSE httpClient
    /\ due' = [due EXCEPT ![s] = timeToRetry[nodeToConnect[s]]]
    /\ Goto(s, "wait")
    /\ UNCHANGED <<isConnected, book, currentNode, baseUrl, kind, nodeToConnect, handlers,
                   edit, outside>>

(* Mutant of WaitOver: the retry time is not waited for.                   *)
EagerWaitOver(s) ==
    /\ pc[s] = "wait"
    /\ baseUrl' = nodeToConnect[s]
    /\ Leave(s, "ask")
    /\ UNCHANGED <<isConnected, book, currentNode, httpClient, kind, nodeToConnect, handlers,
                   edit, outside>>

(* waitTillTimetoConnect(): the loop ends, or finds the budget spent.  A   *)
(* loop that has ended would end later too, so that connect() points the   *)
(* URLs at the node in the same step.                                      *)
WaitOver(s) ==
    /\ pc[s] = "wait"
    /\ now >= due[s]
    /\ baseUrl' = nodeToConnect[s]
    /\ Leave(s, "ask")
    /\ UNCHANGED <<isConnected, book, currentNode, httpClient, kind, nodeToConnect, handlers,
                   edit, outside>>

WaitExpires(s) ==
    /\ pc[s] = "wait"
    /\ now < due[s]
    /\ OutOfTime
    /\ Leave(s, Expired(s))
    /\ NoHandlers(s)
    /\ Forget(s)
    /\ UNCHANGED <<globals, kind, edit, outside>>

-----------------------------------------------------------------------------
(* Mutants: the client is built once only; its timeout is not checked.     *)
StaleNeedsClient == httpClient = NoClient
UncheckedAffordable(s) == TRUE

(* connect() builds a client when the driver is not connected.  A budget   *)
(* overrun makes the timeout negative, which OkHttp refuses with           *)
(* IllegalArgumentException.                                               *)
NeedsClient == ~isConnected \/ httpClient = NoClient
Affordable(s) == held[s] >= 0

AskConnected(s) ==
    /\ pc[s] = "ask"
    /\ Goto(s, IF NeedsClient THEN "build" ELSE "request")
    /\ UNCHANGED <<globals, task, outside>>

(* buildDefaultHttpClient(): the budget, less the clock, is the timeout.   *)
ReadBudget(s) == Reads(s, "build", timeTillTimeout, "client")
LessNow(s) == Reads(s, "client", held[s] - now, "publish")

SetHttpClient(s) ==
    /\ pc[s] = "publish"
    /\ IF Affordable(s)
       THEN /\ httpClient' = [timeout |-> held[s], owner |-> s, headers |-> nodeToConnect[s]]
            /\ Goto(s, "request")
            /\ LetGo(s)
       ELSE /\ UNCHANGED httpClient
            /\ Process(s, "failed", nodeToConnect[s])
    /\ UNCHANGED <<isConnected, book, currentNode, baseUrl, kind, nodeToConnect, handlers, due, outside>>

Connect(s) ==
    AskConnected(s) \/ ReadBudget(s) \/ LessNow(s) \/ SetHttpClient(s)

(* NetworkUtils.sendGetRequest: the call starts with the global client.    *)
Request(s) ==
    /\ pc[s] = "request"
    /\ due' = [due EXCEPT ![s] = Deadline(httpClient.timeout)]
    /\ tried' = [tried EXCEPT ![s] = TRUE]
    /\ Goto(s, "get")
    /\ UNCHANGED <<globals, kind, nodeToConnect, handlers, edit, world, inflight>>

(* A request may be answered until its timeout, refused at any time, and   *)
(* times out; a node that hangs does neither.  What an outcome makes of    *)
(* isConnected is all that is shared.                                      *)
Answered(s, reply) == reply \in Replies /\ now <= due[s]
Lost(s) == "refuse" \in Replies \/ now >= due[s]

Outcome(connected) ==
    /\ isConnected' = connected
    /\ UNCHANGED <<book, target, kind, nodeToConnect, world, tried>>
Probed(s, why) ==
    /\ due' = [due EXCEPT ![s] = 0]
    /\ Process(s, why, nodeToConnect[s])

GetOk(s) ==
    /\ pc[s] = "get"
    /\ Answered(s, "ok")
    /\ Outcome(TRUE)
    /\ Probed(s, "succeeded")
    /\ UNCHANGED <<handlers, inflight>>

(* Another status code: connect() returns false, or throws when the body   *)
(* is not the JSON it expects.  The node counts as connected all the same. *)
GetBad(s) ==
    /\ pc[s] = "get"
    /\ Answered(s, "bad")
    /\ Outcome(TRUE)
    /\ Probed(s, "failed")
    /\ handlers' = [handlers EXCEPT ![s] = @ \cup {nodeToConnect[s]}]
    /\ UNCHANGED inflight

GetFails(s) ==
    /\ pc[s] = "get"
    /\ Lost(s)
    /\ Outcome(FALSE)
    /\ Probed(s, "failed")
    /\ UNCHANGED <<handlers, inflight>>

-----------------------------------------------------------------------------
(* TransactionsApi.sendTransaction(transaction, callback): the request     *)
(* goes to the global base URL and the method returns at once, after which *)
(* the current node is credited before the outcome is known ("settle").    *)
PostAsync(s) ==
    /\ pc[s] = "post"
    /\ kind[s] = "async"
    /\ nodeToConnect' = [nodeToConnect EXCEPT ![s] = baseUrl]
    /\ inflight' = [inflight EXCEPT ![baseUrl] = @ + 1]
    /\ tried' = [tried EXCEPT ![s] = TRUE]
    /\ Goto(s, "settle")
    /\ UNCHANGED <<globals, kind, handlers, due, edit, world>>

(* TransactionsApi.sendTransaction(transaction) and validateTransaction.   *)
PostSync(s) ==
    /\ pc[s] = "post"
    /\ kind[s] = "sync"
    /\ nodeToConnect' = [nodeToConnect EXCEPT ![s] = baseUrl]
    /\ due' = [due EXCEPT ![s] = Deadline(httpClient.timeout)]
    /\ tried' = [tried EXCEPT ![s] = TRUE]
    /\ Goto(s, "exchange")
    /\ UNCHANGED <<globals, kind, handlers, edit, world, inflight>>

(* Any response at all, whatever its code, counts as success.              *)
PostAnswered(s) ==
    /\ pc[s] = "exchange"
    /\ Answered(s, "ok") \/ Answered(s, "bad")
    /\ Outcome(TRUE)
    /\ Leave(s, "settle")
    /\ UNCHANGED <<handlers, edit, inflight>>

(* catch (IOException e) { sendTransaction(); }                            *)
PostFails(s) ==
    /\ pc[s] = "exchange"
    /\ Lost(s)
    /\ Outcome(FALSE)
    /\ Leave(s, "again")
    /\ UNCHANGED <<handlers, edit, inflight>>

-----------------------------------------------------------------------------
(* onResponse and onFailure of an asynchronous request, on a thread of the *)
(* HTTP client.  Its timeout is not tracked: it may fail at any time.      *)
AsyncAnswered(n) ==
    /\ inflight[n] > 0
    /\ inflight' = [inflight EXCEPT ![n] = @ - 1]
    /\ Outcome(TRUE)
    /\ UNCHANGED <<pc, handlers, due, edit>>

AsyncFails(n) ==
    /\ inflight[n] > 0
    /\ inflight' = [inflight EXCEPT ![n] = @ - 1]
    /\ Outcome(FALSE)
    /\ UNCHANGED <<pc, handlers, due, edit>>

Tick ==
    /\ now < MaxTime
    /\ now' = now + 1
    /\ UNCHANGED <<globals, pc, task, calls, setups, inflight, tried>>

-----------------------------------------------------------------------------
Init ==
    /\ now = 0
    /\ isConnected = FALSE
    /\ timeTillTimeout = Timeout
    /\ connections = NodeList
    /\ retryCount = [n \in Nodes |-> 0]
    /\ timeToRetry = [n \in Nodes |-> 0]
    /\ currentNode = NoNode
    /\ baseUrl = NoNode
    /\ httpClient = NoClient
    /\ pc = [s \in Senders |-> "idle"]
    /\ kind = [s \in Senders |-> "setup"]
    /\ nodeToConnect = [s \in Senders |-> NoNode]
    /\ handlers = [s \in Senders |-> {}]
    /\ due = [s \in Senders |-> 0]
    /\ purpose = [s \in Senders |-> "none"]
    /\ slot = [s \in Senders |-> 0]
    /\ conn = [s \in Senders |-> NoNode]
    /\ held = [s \in Senders |-> 0]
    /\ inflight = [n \in Nodes |-> 0]
    /\ calls = 0
    /\ setups = 0
    /\ tried = [s \in Senders |-> FALSE]

Step(s) ==
    \/ Check(s) \/ Again(s)
    \/ BudgetSpent(s) \/ BeginSort(s) \/ EndSort(s) \/ SortThrows(s)
    \/ TakeFirst(s) \/ SetCurrentNode(s) \/ PrepareHeader(s)
    \/ WaitOver(s) \/ WaitExpires(s)
    \/ Connect(s) \/ Request(s) \/ GetOk(s) \/ GetBad(s) \/ GetFails(s)
    \/ PostAsync(s) \/ PostSync(s) \/ PostAnswered(s) \/ PostFails(s)
    \/ Bookkeeping(s)

Calls ==
    \/ \E s \in Senders : StartSetup(s) \/ Step(s)
    \/ \E s \in Senders, k \in Kinds : StartSend(s, k)
    \/ \E n \in Nodes : AsyncAnswered(n) \/ AsyncFails(n)

Next == Calls \/ Tick

Spec == Init /\ [][Next]_vars

-----------------------------------------------------------------------------
(* The prompt driver: computing takes no time, so the clock moves only     *)
(* while every sender rests, sleeps in waitTillTimetoConnect, or waits for *)
(* an answer that has not timed out.                                       *)
Sleeping(s) ==
    \/ pc[s] \in Resting
    \/ pc[s] = "wait" /\ now < due[s] /\ ~OutOfTime
    \/ pc[s] \in {"get", "exchange"} /\ now < due[s]

PromptTick == (\A s \in Senders : Sleeping(s)) /\ Tick
PromptNext == Calls \/ PromptTick
PromptSpec == Init /\ [][PromptNext]_vars

(* What the JVM and OkHttp give: a runnable thread runs, the clock moves,  *)
(* a request whose timeout has passed throws.  No node need ever answer.   *)
TimesOut(s) ==
    /\ pc[s] \in {"get", "exchange"}
    /\ now >= due[s]
    /\ GetFails(s) \/ PostFails(s)
Proceeds(s) == pc[s] \notin {"get", "exchange"} /\ Step(s)

Fairness ==
    /\ WF_vars(PromptTick)
    /\ \A s \in Senders : WF_vars(TimesOut(s)) /\ WF_vars(Proceeds(s))
FairSpec == PromptSpec /\ Fairness

-----------------------------------------------------------------------------
Booked(s) == pc[s] \in Found /\ purpose[s] # "setup"

EditOK(s) ==
    /\ purpose[s] \in Purposes \cup {"none", "setup"}
    /\ slot[s] \in Slots \cup {0}
    /\ conn[s] \in Nodes \cup {NoNode}
    /\ held[s] \in Int
    /\ purpose[s] = "setup" => pc[s] \in {"clock", "renew"}
    /\ Booked(s) => slot[s] \in Slots /\ conn[s] \in Nodes
    /\ pc[s] \in {"current", "look"} => nodeToConnect[s] \in Nodes
    /\ pc[s] = "increase" => held[s] \in 0..MaxRetry

(* No client ever has a negative timeout, which OkHttp would refuse.       *)
TypeOK ==
    /\ now \in Nat
    /\ isConnected \in BOOLEAN
    /\ timeTillTimeout \in Int
    /\ connections \in [Slots -> Nodes]
    /\ retryCount \in [Nodes -> 0..MaxRetry]
    /\ timeToRetry \in [Nodes -> Int]
    /\ currentNode \in Nodes \cup {NoNode}
    /\ baseUrl \in Nodes \cup {NoNode}
    /\ httpClient \in Clients
    /\ pc \in [Senders -> Places]
    /\ kind \in [Senders -> {"setup", "async", "sync"}]
    /\ nodeToConnect \in [Senders -> Nodes \cup {NoNode}]
    /\ handlers \in [Senders -> SUBSET (Nodes \cup {NoNode})]
    /\ due \in [Senders -> Int]
    /\ DOMAIN purpose = Senders /\ DOMAIN slot = Senders
    /\ DOMAIN conn = Senders /\ DOMAIN held = Senders
    /\ \A s \in Senders : EditOK(s)
    /\ inflight \in [Nodes -> Nat]
    /\ calls \in Nat
    /\ setups \in Nat
    /\ tried \in [Senders -> BOOLEAN]

(* No thread ever waits longer than processConnectionFailure promises      *)
(* ("timeToRetryConnection is always smaller than half of timeout"), no    *)
(* call's budget exceeds the configured timeout, and no request blocks its *)
(* caller longer than that (0 apart), whichever threads and callbacks      *)
(* touch the shared fields between any two accesses, however old what they *)
(* write is, and although the delay may overflow.                          *)
Bounded ==
    /\ timeTillTimeout <= now + Timeout
    /\ \A n \in Nodes : timeToRetry[n] <= now + Cap
    /\ \A s \in Senders :
          /\ pc[s] = "wait" => due[s] <= now + Cap
          /\ pc[s] \in {"get", "exchange"} => due[s] <= now + Timeout \/ due[s] = Never

(* Backing off is exponential: charging a node never brings its retry time *)
(* forward, as long as one thread keeps the books and the delay for the    *)
(* node's count fits a long.  (A success sets the retry time to 0.)        *)
BackoffNeverShortens ==
    [][\A n \in Nodes : timeToRetry'[n] < timeToRetry[n] =>
          timeToRetry'[n] = 0 \/ Overflows(retryCount[n])]_vars

(* getConnectionWithEarliestAvailability returns a node nobody has to wait *)
(* longer for than for any other (one calling thread).                     *)
EarliestFirst == \A s \in Senders : pc[s] = "wait" =>
    \A n \in Nodes : timeToRetry[nodeToConnect[s]] <= timeToRetry[n]

(* A node is never probed before its retry time (one calling thread).      *)
Trying == {"ask", "build", "client", "publish", "request", "get"}
RespectsBackoff == \A s \in Senders :
    pc[s] \in Trying => now >= timeToRetry[nodeToConnect[s]]

(* A transaction goes to the node the driver calls its "current connected  *)
(* node", with that node's headers, and processConnectionSuccess credits   *)
(* the node that served it (one thread, synchronous sends, no node that    *)
(* answers with an error code, one setup(): the README says what each      *)
(* exception breaks).                                                      *)
PostsToCurrentNode == \A s \in Senders :
    /\ pc[s] \in {"post", "exchange", "settle"} =>
          baseUrl = currentNode /\ httpClient.headers = baseUrl
    /\ pc[s] \in Found /\ purpose[s] = "settle" => conn[s] = nodeToConnect[s]

(* Every call ends, whatever the nodes do, with two exceptions that are in *)
(* the code: it waits on a client that buildDefaultHttpClient gave a       *)
(* timeout of exactly 0, which OkHttp takes for none; or it is synchronous *)
(* and its POST fails, upon which it starts over with the budget that a    *)
(* good probe renews.  So only a node that goes on answering probes and    *)
(* failing POSTs keeps a call from ending.                                 *)
CallsEnd == \A s \in Senders :
    pc[s] \notin Resting ~> (pc[s] \in Resting \cup {"again"} \/ due[s] = Never)

(* "Couldn't connect to any given nodes in ... ms": a send that throws     *)
(* TimeoutException has tried to reach a node.                             *)
TriesBeforeTimeout == \A s \in Senders : pc[s] = "timedOut" => tried[s]

(* "Add authorization header with updated authorization value": a request  *)
(* carries the headers configured for the node it is sent to.              *)
HeadersFollowNode == \A s \in Senders :
    /\ pc[s] = "request" => httpClient.headers = nodeToConnect[s]
    /\ pc[s] = "post" => httpClient.headers = baseUrl
=============================================================================
