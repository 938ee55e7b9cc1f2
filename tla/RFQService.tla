------------------------------ MODULE RFQService ------------------------------
(***************************************************************************)
(* The request-for-quote service: RFQController.submitRFQ, Transactor, and *)
(* below them the asynchronous send of the transaction builder and         *)
(* NetworkUtils, on one BigchainDB node.                                   *)
(*                                                                         *)
(* Three kinds of thread meet here.  A web thread builds, reconnects if it *)
(* must, posts and answers the browser at once.  A dispatcher thread of    *)
(* the HTTP client runs the callback, which publishes the RFQ on Kafka and *)
(* blocks there until the broker acknowledges it.  The start-up thread     *)
(* calls setup() when the web server already accepts requests.             *)
(*                                                                         *)
(* How long a reconnect may last is left out: it may give up at any time,  *)
(* and what it leaves of the budget as a client's timeout may be nothing   *)
(* (module ConnectionManager has the clock).                               *)
(***************************************************************************)
EXTENDS Integers, FiniteSets, Sequences

CONSTANTS
    Requests,     \* the RFQs submitted, each by a web thread of its own
    Startup,      \* the thread of the ApplicationReadyEvent
    Slots,        \* calls one HTTP client runs at a time to one host (OkHttp: 5)
    MaxClients,   \* bound: how many HTTP clients are built
    MaxCopies     \* bound: how often the producer's retries append one record

Threads == Requests \cup {Startup}
ClientIds == 1..MaxClients

ASSUME ServiceAssumption ==
    /\ Startup \notin Requests
    /\ Slots \in Nat \ {0}
    /\ MaxClients \in Nat \ {0}
    /\ MaxCopies \in Nat \ {0}

VARIABLES
    pc,            \* where each thread is
    configured,    \* setup() has given BigChainDBGlobals its connection
    isConnected,   \* BigChainDBGlobals.isConnected
    client,        \* BigChainDBGlobals.httpClient: the number of the newest one
    untimed,       \* the clients whose timeouts came out as 0, which means none
    on,            \* the client each thread's probing GET is on
    call,          \* what became of the HTTP call of each RFQ
    via,           \* the client it was handed to
    queue,         \* per client, the calls its dispatcher holds back
    copies,        \* how often each RFQ's record is in its Kafka topic
    told           \* history: the RFQs of which a method of the callback ran

clients == <<client, untimed, on>>
calls   == <<call, via, queue>>
vars    == <<pc, configured, isConnected, clients, calls, copies, told>>

Places == {"new", "probe", "ask", "get", "post", "settle", "done", "error"}

Ended == {"published", "unpublished", "rejected", "lost"}

Goto(t, place) == pc' = [pc EXCEPT ![t] = place]
Holding(c) == {r \in Requests : via[r] = c /\ call[r] \in {"running", "pushed"}}

-----------------------------------------------------------------------------
(* BigchainDbConfig.bigchainDbConfig: configureConnections() publishes the *)
(* only connection, then the node is probed.                               *)
Configure ==
    /\ pc[Startup] = "new"
    /\ configured' = TRUE
    /\ Goto(Startup, "probe")
    /\ UNCHANGED <<isConnected, clients, calls, copies, told>>

(* Mutant of Submit: the look at isConnected left out.                     *)
UncheckedSubmit(r) ==
    /\ pc[r] = "new"
    /\ Goto(r, "post")
    /\ UNCHANGED <<configured, isConnected, clients, calls, copies, told>>

(* submitRFQ, up to the look at isConnected.  Before setup() has run,      *)
(* processConnectionFailure finds no connections and throws: HTTP 500.     *)
Submit(r) ==
    /\ pc[r] = "new"
    /\ Goto(r, CASE isConnected -> "post"
                 [] ~isConnected /\ configured -> "probe"
                 [] OTHER -> "error")
    /\ UNCHANGED <<configured, isConnected, clients, calls, copies, told>>

(* connect(): a client of its own, unless a callback or another thread     *)
(* found the node meanwhile.  Its timeouts are what is left of the budget, *)
(* to the millisecond.                                                     *)
Connect(t) ==
    /\ pc[t] = "probe"
    /\ \/ isConnected /\ UNCHANGED <<client, untimed>>
       \/ /\ ~isConnected
          /\ client < MaxClients
          /\ client' = client + 1
          /\ untimed' \in {untimed, untimed \cup {client'}}
    /\ Goto(t, "ask")
    /\ UNCHANGED <<configured, isConnected, on, calls, copies, told>>

(* NetworkUtils.sendGetRequest, on the newest client, whoever built it.    *)
Ask(t) ==
    /\ pc[t] = "ask"
    /\ on' = [on EXCEPT ![t] = client]
    /\ Goto(t, "get")
    /\ UNCHANGED <<configured, isConnected, client, untimed, calls, copies, told>>

GetOk(t) ==
    /\ pc[t] = "get"
    /\ isConnected' = TRUE
    /\ on' = [on EXCEPT ![t] = 0]
    /\ Goto(t, IF t = Startup THEN "done" ELSE "post")
    /\ UNCHANGED <<configured, client, untimed, calls, copies, told>>

(* No answer, or one that is not 200: probe again.                         *)
GetFails(t) ==
    /\ pc[t] = "get"
    /\ \E answered \in BOOLEAN : isConnected' = answered
    /\ on' = [on EXCEPT ![t] = 0]
    /\ Goto(t, "probe")
    /\ UNCHANGED <<configured, client, untimed, calls, copies, told>>

(* TimeoutException: HTTP 500; setup() swallows it.                        *)
GiveUp(t) ==
    /\ pc[t] = "probe"
    /\ Goto(t, IF t = Startup THEN "done" ELSE "error")
    /\ UNCHANGED <<configured, isConnected, clients, calls, copies, told>>

(* TransactionsApi.sendTransaction, Dispatcher.enqueue.                    *)
Post(r) ==
    /\ pc[r] = "post"
    /\ via' = [via EXCEPT ![r] = client]
    /\ IF Cardinality(Holding(client)) < Slots
         THEN call' = [call EXCEPT ![r] = "running"] /\ UNCHANGED queue
         ELSE /\ call' = [call EXCEPT ![r] = "queued"]
              /\ queue' = [queue EXCEPT ![client] = Append(@, r)]
    /\ Goto(r, "settle")
    /\ UNCHANGED <<configured, isConnected, clients, copies, told>>

(* Mutant of Settle: the node is looked up in a list that lost it.         *)
CarelessSettle(r) ==
    /\ pc[r] = "settle"
    /\ \E place \in {"done", "error"} : Goto(r, place)
    /\ UNCHANGED <<configured, isConnected, clients, calls, copies, told>>

(* processConnectionSuccess(getCurrentNode()), then HTTP 200: the only     *)
(* connection is the current one.                                          *)
Settle(r) ==
    /\ pc[r] = "settle"
    /\ Goto(r, "done")
    /\ UNCHANGED <<configured, isConnected, clients, calls, copies, told>>

-----------------------------------------------------------------------------
(* Dispatcher.finished: whatever ended the call, an exception thrown by    *)
(* the callback included, the longest waiting one gets its slot.           *)
Finish(r, end) ==
    /\ LET waiting == queue[via[r]] IN
       IF waiting = <<>>
         THEN call' = [call EXCEPT ![r] = end] /\ UNCHANGED queue
         ELSE /\ call' = [call EXCEPT ![r] = end, ![Head(waiting)] = "running"]
              /\ queue' = [queue EXCEPT ![via[r]] = Tail(waiting)]
    /\ UNCHANGED via

(* onResponse, 202: pushedSuccessfully hands the record to the producer    *)
(* and waits; isConnected is set only after it returned.                   *)
Pushed(r) ==
    /\ call[r] = "running"
    /\ call' = [call EXCEPT ![r] = "pushed"]
    /\ told' = told \cup {r}
    /\ UNCHANGED <<pc, configured, isConnected, clients, via, queue, copies>>

(* onResponse, 400 or another code: transactionMalformed or otherError.    *)
Rejected(r) ==
    /\ call[r] = "running"
    /\ Finish(r, "rejected")
    /\ told' = told \cup {r}
    /\ isConnected' = TRUE
    /\ UNCHANGED <<pc, configured, clients, copies>>

(* onFailure: no method of the callback is called.                         *)
Lost(r) ==
    /\ call[r] = "running"
    /\ Finish(r, "lost")
    /\ isConnected' = FALSE
    /\ UNCHANGED <<pc, configured, clients, copies, told>>

-----------------------------------------------------------------------------
(* The broker appends the record, once more when an acknowledgement was    *)
(* lost and the producer (not idempotent by default) sends it again.       *)
Appended(r) ==
    /\ call[r] = "pushed"
    /\ copies[r] < MaxCopies
    /\ copies' = [copies EXCEPT ![r] = @ + 1]
    /\ UNCHANGED <<pc, configured, isConnected, clients, calls, told>>

Published(r) ==
    /\ call[r] = "pushed"
    /\ copies[r] > 0
    /\ Finish(r, "published")
    /\ isConnected' = TRUE
    /\ UNCHANGED <<pc, configured, clients, copies, told>>

(* Mutants of Unpublished: the exception ends the dispatcher's thread      *)
(* before the slot is given on; the publication is tried again for ever.   *)
LeakyUnpublished(r) ==
    /\ call[r] = "pushed"
    /\ call' = [call EXCEPT ![r] = "unpublished"]
    /\ UNCHANGED <<pc, configured, isConnected, clients, via, queue, copies, told>>
StubbornUnpublished(r) == call[r] = "pushed" /\ UNCHANGED vars

(* get() throws when delivery took too long, whether or not the record is  *)
(* there: setConnected(true) and close() are skipped.                      *)
Unpublished(r) ==
    /\ call[r] = "pushed"
    /\ Finish(r, "unpublished")
    /\ UNCHANGED <<pc, configured, isConnected, clients, copies, told>>

-----------------------------------------------------------------------------
Init ==
    /\ pc = [t \in Threads |-> "new"]
    /\ configured = FALSE
    /\ isConnected = FALSE
    /\ client = 0
    /\ untimed = {}
    /\ on = [t \in Threads |-> 0]
    /\ call = [r \in Requests |-> "none"]
    /\ via = [r \in Requests |-> 0]
    /\ queue = [c \in ClientIds |-> <<>>]
    /\ copies = [r \in Requests |-> 0]
    /\ told = {}

Run(t) == Connect(t) \/ Ask(t) \/ GetOk(t) \/ GetFails(t) \/ GiveUp(t)
Web(r) == Run(r) \/ Post(r) \/ Settle(r)
Answer(r) == Pushed(r) \/ Rejected(r) \/ Lost(r)
Record(r) == Published(r) \/ Unpublished(r)

Next ==
    \/ Configure \/ Run(Startup)
    \/ \E r \in Requests : Submit(r) \/ Web(r) \/ Answer(r) \/ Appended(r) \/ Record(r)

Spec == Init /\ [][Next]_vars

(* Web threads run; their budget makes them give up; a client's timeouts,  *)
(* if it has any, end its GETs and calls; the producer's delivery timeout  *)
(* ends every get().  On a client without timeouts a node may never        *)
(* answer.                                                                 *)
Moves(r) == Web(r) /\ (pc[r] = "get" => on[r] \notin untimed)
Ends(r) == (Answer(r) /\ via[r] \notin untimed) \/ Record(r)

Fairness == \A r \in Requests :
    WF_vars(Moves(r)) /\ SF_vars(GiveUp(r)) /\ WF_vars(Ends(r))
FairSpec == Spec /\ Fairness

-----------------------------------------------------------------------------
(* Types; a call belongs to a client, for getHttpClient() is not null when *)
(* isConnected says that there is a connection.                            *)
TypeOK ==
    /\ pc \in [Threads -> Places]
    /\ configured \in BOOLEAN
    /\ isConnected \in BOOLEAN
    /\ client \in 0..MaxClients
    /\ untimed \subseteq 1..client
    /\ on \in [Threads -> 0..client]
    /\ call \in [Requests -> {"none", "queued", "running", "pushed"} \cup Ended]
    /\ via \in [Requests -> 0..MaxClients]
    /\ \A r \in Requests : call[r] = "none" <=> via[r] = 0
    /\ queue \in [ClientIds -> Seq(Requests)]
    /\ copies \in [Requests -> 0..MaxCopies]
    /\ told \subseteq Requests

(* A browser that is answered 500 may submit its RFQ again: suppliers will *)
(* never see the refused one, nor can it still be on its way.              *)
RefusedNotPublished == \A r \in Requests :
    pc[r] = "error" => call[r] = "none" /\ copies[r] = 0

(* A call waits in a dispatcher only while every slot of its client is     *)
(* taken, be it by callbacks blocked on Kafka or by ones that threw.       *)
NoIdleSlot == \A c \in ClientIds :
    queue[c] # <<>> => Cardinality(Holding(c)) = Slots

(* An RFQ depends on a client without timeouts: its thread's GET, its call *)
(* or the call it waits behind is there.                                   *)
OnUntimed(r) ==
    \/ pc[r] = "get" /\ on[r] \in untimed
    \/ call[r] \in {"queued", "running"} /\ via[r] \in untimed

(* Every RFQ submitted is refused, or its call ends, or it stays for ever  *)
(* on a client without timeouts: a broker that is down delays the          *)
(* callbacks that block on it and starves none for ever, and a client that *)
(* hangs holds up nobody who is not on it.                                 *)
RequestsEnd == \A r \in Requests :
    pc[r] # "new" ~> (pc[r] = "error" \/ call[r] \in Ended \/ []OnUntimed(r))

(* "All other errors, including server malfunction or network error": a    *)
(* call that ended has told its callback how.                              *)
CallbackTold == \A r \in Requests : call[r] \in Ended => r \in told
=============================================================================
