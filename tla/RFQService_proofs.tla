--------------------------- MODULE RFQService_proofs ---------------------------
(* Theorems about RFQService, for any number of RFQs, slots and clients.   *)
EXTENDS RFQService, FiniteSetTheorems, TLAPS

(* A thread that comes to post has a client, and so has every call.        *)
Connected ==
    /\ isConnected => client # 0
    /\ \A t \in Threads : pc[t] \in {"ask", "get", "post"} => client # 0
    /\ \A r \in Requests : call[r] # "none" => client # 0

(* What waits in a dispatcher is a call.                                   *)
Waiting == \A c \in ClientIds : \A i \in 1..Len(queue[c]) : call[queue[c][i]] # "none"

(* Before a web thread has posted there is nothing of its RFQ anywhere.    *)
Before == {"new", "probe", "ask", "get", "post", "error"}
Untouched == \A r \in Requests : pc[r] \in Before => call[r] = "none" /\ copies[r] = 0

Inv == TypeOK /\ Connected /\ Waiting /\ Untouched

LEMMA InitInv == Init => Inv
  <1> SUFFICES ASSUME Init PROVE Inv
    OBVIOUS
  <1>1. TypeOK
    <2>1. queue \in [ClientIds -> Seq(Requests)]
      BY DEF Init
    <2>2. /\ client \in 0..MaxClients /\ via \in [Requests -> 0..MaxClients]
          /\ copies \in [Requests -> 0..MaxCopies]
      BY ServiceAssumption DEF Init
    <2>5. untimed \subseteq 1..client /\ on \in [Threads -> 0..client]
      BY DEF Init
    <2>3. /\ pc \in [Threads -> Places]
          /\ call \in [Requests -> {"none", "queued", "running", "pushed"} \cup Ended]
          /\ \A r \in Requests : call[r] = "none" <=> via[r] = 0
      BY DEF Init, Places
    <2>4. configured \in BOOLEAN /\ isConnected \in BOOLEAN /\ told \subseteq Requests
      BY DEF Init
    <2> QED
      BY <2>1, <2>2, <2>3, <2>4, <2>5 DEF TypeOK
  <1>2. Connected
    BY DEF Init, Connected
  <1>3. Waiting
    BY DEF Init, Waiting
  <1>4. Untouched
    BY DEF Init, Untouched
  <1> QED
    BY <1>1, <1>2, <1>3, <1>4 DEF Inv

-----------------------------------------------------------------------------
(* A thread moves on and touches no call.                                  *)
LEMMA MoveInv ==
    ASSUME Inv, NEW t \in Threads,
           NEW place \in Places,
           Goto(t, place),
           pc[t] \in Before => place \in Before \/ t \notin Requests,
           place \in Before => pc[t] \in Before,
           configured' \in BOOLEAN, isConnected' \in BOOLEAN,
           client' \in 0..MaxClients, client # 0 => client' # 0,
           untimed' \subseteq 1..client', on' \in [Threads -> 0..client'],
           isConnected' \/ place \in {"ask", "get", "post"} => client' # 0,
           UNCHANGED <<calls, copies, told>>
    PROVE  Inv'
  <1> USE DEF Inv, Goto, calls
  <1>1. pc \in [Threads -> Places]
    BY DEF TypeOK
  <1>2. /\ pc' \in [Threads -> Places]
        /\ pc'[t] = place /\ \A u \in Threads \ {t} : pc'[u] = pc[u]
    BY <1>1
  <1>3. TypeOK'
    BY <1>2 DEF TypeOK
  <1>4. Connected'
    BY <1>2 DEF Connected
  <1>5. Waiting'
    BY DEF Waiting
  <1>6. Untouched'
    BY <1>2 DEF Untouched, Threads
  <1> QED
    BY <1>3, <1>4, <1>5, <1>6

(* Nothing but calls, records and flags change.                            *)
LEMMA CallInv ==
    ASSUME Inv, UNCHANGED <<pc, configured, clients, via>>,
           isConnected' \in BOOLEAN, told' \subseteq Requests,
           isConnected' => \E r \in Requests : call[r] # "none",
           call' \in [Requests -> {"none", "queued", "running", "pushed"} \cup Ended],
           queue' \in [ClientIds -> Seq(Requests)],
           copies' \in [Requests -> 0..MaxCopies],
           \A r \in Requests : call'[r] = "none" <=> call[r] = "none",
           \A r \in Requests : call[r] = "none" => copies'[r] = copies[r],
           \A c \in ClientIds : \A i \in 1..Len(queue'[c]) : call[queue'[c][i]] # "none"
    PROVE  Inv'
  <1> USE DEF Inv, clients
  <1>1. TypeOK'
    BY DEF TypeOK
  <1>2. Connected'
    BY DEF Connected
  <1>3. Waiting'
    <2>1. \A c \in ClientIds : \A i \in 1..Len(queue'[c]) : queue'[c][i] \in Requests
      OBVIOUS
    <2> QED
      BY <2>1 DEF Waiting
  <1>4. Untouched'
    BY DEF Untouched
  <1> QED
    BY <1>1, <1>2, <1>3, <1>4

(* A call ends and hands its slot on.                                      *)
LEMMA FinishInv ==
    ASSUME Inv, NEW r \in Requests, call[r] \in {"running", "pushed"}, NEW end \in Ended,
           Finish(r, end), UNCHANGED <<pc, configured, clients, copies>>,
           isConnected' \in BOOLEAN, told' \subseteq Requests
    PROVE  Inv'
  <1> DEFINE States == {"none", "queued", "running", "pushed"} \cup Ended
             waiting == queue[via[r]]
  <1>1. /\ call \in [Requests -> States] /\ queue \in [ClientIds -> Seq(Requests)]
        /\ via[r] \in ClientIds /\ copies' \in [Requests -> 0..MaxCopies]
    BY DEF Inv, TypeOK, ClientIds
  <1>2. end \in States /\ "running" \in States /\ end # "none"
    BY DEF Ended
  <1>3. CASE waiting = <<>>
    <2>1. call' = [call EXCEPT ![r] = end] /\ queue' = queue /\ via' = via
      BY <1>3 DEF Finish
    <2>2. call' \in [Requests -> States]
      BY <1>1, <1>2, <2>1
    <2>3. \A q \in Requests : call'[q] = "none" <=> call[q] = "none"
      BY <1>1, <1>2, <2>1
    <2>4. \A c \in ClientIds : \A i \in 1..Len(queue'[c]) : call[queue'[c][i]] # "none"
      BY <2>1 DEF Inv, Waiting
    <2> QED
      BY <1>1, <2>1, <2>2, <2>3, <2>4, CallInv
  <1>4. CASE waiting # <<>>
    <2>1. /\ call' = [call EXCEPT ![r] = end, ![Head(waiting)] = "running"]
          /\ queue' = [queue EXCEPT ![via[r]] = Tail(waiting)] /\ via' = via
      BY <1>4 DEF Finish
    <2>2. /\ waiting \in Seq(Requests) /\ Head(waiting) \in Requests /\ Tail(waiting) \in Seq(Requests)
          /\ Head(waiting) = waiting[1] /\ 1 \in 1..Len(waiting)
          /\ \A i \in 1..Len(Tail(waiting)) : i + 1 \in 1..Len(waiting) /\ Tail(waiting)[i] = waiting[i + 1]
      BY <1>1, <1>4
    <2>3. call[Head(waiting)] # "none"
      BY <1>1, <2>2 DEF Inv, Waiting
    <2>4. call' \in [Requests -> States]
      BY <1>1, <1>2, <2>1, <2>2
    <2>5. \A q \in Requests : call'[q] = "none" <=> call[q] = "none"
      BY <1>1, <1>2, <2>1, <2>2, <2>3
    <2>6. queue' \in [ClientIds -> Seq(Requests)]
      BY <1>1, <2>1, <2>2
    <2>7. ASSUME NEW c \in ClientIds, NEW i \in 1..Len(queue'[c])
          PROVE  call[queue'[c][i]] # "none"
      <3>1. CASE c = via[r]
        BY <1>1, <2>1, <2>2, <2>7, <3>1 DEF Inv, Waiting
      <3>2. CASE c # via[r]
        BY <1>1, <2>1, <2>7, <3>2 DEF Inv, Waiting
      <3> QED
        BY <3>1, <3>2
    <2> QED
      BY <1>1, <2>1, <2>4, <2>5, <2>6, <2>7, CallInv
  <1> QED
    BY <1>3, <1>4

(* A web thread hands its call to the newest client.                       *)
LEMMA PostInv ==
    ASSUME Inv, NEW r \in Requests, Post(r)
    PROVE  Inv'
  <1> DEFINE States == {"none", "queued", "running", "pushed"} \cup Ended
  <1>1. /\ call \in [Requests -> States] /\ queue \in [ClientIds -> Seq(Requests)]
        /\ via \in [Requests -> 0..MaxClients] /\ client \in ClientIds
        /\ pc \in [Threads -> Places]
        /\ r \in Threads /\ pc[r] = "post"
    BY ServiceAssumption DEF Inv, TypeOK, Connected, ClientIds, Post, Threads
  <1>2. PICK state \in {"running", "queued"} : call' = [call EXCEPT ![r] = state]
    BY DEF Post
  <1>3. /\ via' = [via EXCEPT ![r] = client]
        /\ pc' = [pc EXCEPT ![r] = "settle"]
        /\ UNCHANGED <<configured, isConnected, client, untimed, on, copies, told>>
    BY DEF Post, Goto, clients
  <1> DEFINE longer == Append(queue[client], r)
  <1>4. queue' = queue \/ queue' = [queue EXCEPT ![client] = longer]
    BY DEF Post
  <1>11. queue[client] \in Seq(Requests)
    BY <1>1
  <1>12. /\ longer \in Seq(Requests)
         /\ \A i \in 1..Len(longer) :
               longer[i] = r \/ (i \in 1..Len(queue[client]) /\ longer[i] = queue[client][i])
    BY <1>11
  <1> HIDE DEF longer
  <1>5. call' \in [Requests -> States] /\ call'[r] # "none"
        /\ \A q \in Requests \ {r} : call'[q] = call[q]
    BY <1>1, <1>2
  <1>6. queue' \in [ClientIds -> Seq(Requests)]
    BY <1>1, <1>4, <1>12
  <1>7. TypeOK'
    <2>1. \A q \in Requests : call'[q] = "none" <=> via'[q] = 0
      BY <1>1, <1>3, <1>5 DEF Inv, TypeOK, ClientIds
    <2>2. via' \in [Requests -> 0..MaxClients]
      BY <1>1, <1>3 DEF ClientIds
    <2>3. pc' \in [Threads -> Places]
      BY <1>1, <1>3 DEF Places
    <2> QED
      BY <1>3, <1>5, <1>6, <2>1, <2>2, <2>3 DEF Inv, TypeOK
  <1>8. Connected'
    BY <1>1, <1>3, <1>5 DEF Inv, Connected, ClientIds
  <1>9. Waiting'
    <2> SUFFICES ASSUME NEW c \in ClientIds, NEW i \in 1..Len(queue'[c])
                 PROVE  call'[queue'[c][i]] # "none"
      BY DEF Waiting
    <2>1. queue'[c][i] \in Requests
      BY <1>6
    <2>2. queue'[c][i] = r \/ (i \in 1..Len(queue[c]) /\ queue'[c][i] = queue[c][i])
      <3>1. CASE queue'[c] = queue[c]
        BY <3>1
      <3>2. CASE c = client /\ queue'[c] = longer
        BY <1>12, <3>2
      <3> QED
        BY <1>1, <1>4, <3>1, <3>2
    <2> QED
      BY <1>5, <2>1, <2>2 DEF Inv, Waiting
  <1>10. Untouched'
    BY <1>1, <1>3, <1>5 DEF Inv, Untouched, Before, Threads
  <1> QED
    BY <1>7, <1>8, <1>9, <1>10 DEF Inv

-----------------------------------------------------------------------------
LEMMA StepInv == Inv /\ [Next]_vars => Inv'
  <1> SUFFICES ASSUME Inv, [Next]_vars PROVE Inv'
    OBVIOUS
  <1>1. /\ isConnected \in BOOLEAN /\ configured \in BOOLEAN /\ client \in 0..MaxClients
        /\ told \subseteq Requests /\ Startup \in Threads /\ Startup \notin Requests
        /\ \A r \in Requests : r \in Threads /\ r # Startup
        /\ isConnected => client # 0
        /\ untimed \subseteq 1..client /\ on \in [Threads -> 0..client]
    BY ServiceAssumption DEF Inv, TypeOK, Connected, Threads
  <1>2. CASE Configure
    BY <1>1, <1>2, MoveInv DEF Configure, Before, Places, clients
  <1>3. ASSUME NEW t \in Threads, Run(t) PROVE Inv'
    <2>1. CASE Connect(t)
      <3>1. client' \in 0..MaxClients /\ client' # 0
        BY <1>1, <2>1, ServiceAssumption DEF Connect
      <3>2. client' = client \/ client' = client + 1
        BY <2>1 DEF Connect
      <3>3. untimed' \subseteq 1..client'
        <4>1. /\ \A n \in 1..client : n \in 1..client'
              /\ client' \in 1..client'
          BY <1>1, <3>1, <3>2
        <4>2. untimed' = untimed \/ untimed' = untimed \cup {client'}
          BY <2>1 DEF Connect
        <4> QED
          BY <1>1, <4>1, <4>2
      <3>4. on' \in [Threads -> 0..client']
        <4>1. on' = on /\ \A n \in 0..client : n \in 0..client'
          BY <1>1, <2>1, <3>2 DEF Connect
        <4> QED
          BY <1>1, <4>1
      <3> QED
        BY <1>1, <2>1, <3>1, <3>3, <3>4, MoveInv DEF Connect, Before, Places
    <2>2. CASE Ask(t)
      <3>1. client # 0
        BY <2>2 DEF Ask, Inv, Connected
      <3>2. on' \in [Threads -> 0..client]
        BY <1>1, <2>2 DEF Ask
      <3> QED
        BY <1>1, <2>2, <3>1, <3>2, MoveInv DEF Ask, Before, Places
    <2>3. CASE GetOk(t)
      <3>1. client # 0
        BY <2>3 DEF GetOk, Inv, Connected
      <3>2. on' \in [Threads -> 0..client]
        BY <1>1, <2>3 DEF GetOk
      <3> QED
        BY <1>1, <2>3, <3>1, <3>2, MoveInv DEF GetOk, Before, Places
    <2>4. CASE GetFails(t)
      <3>1. client # 0
        BY <2>4 DEF GetFails, Inv, Connected
      <3>2. isConnected' \in BOOLEAN
        BY <2>4 DEF GetFails
      <3>3. on' \in [Threads -> 0..client]
        BY <1>1, <2>4 DEF GetFails
      <3> QED
        BY <1>1, <2>4, <3>1, <3>2, <3>3, MoveInv DEF GetFails, Before, Places
    <2>5. CASE GiveUp(t)
      BY <1>1, <2>5, MoveInv DEF GiveUp, Before, Places, clients
    <2> QED
      BY <1>3, <2>1, <2>2, <2>3, <2>4, <2>5 DEF Run
  <1>4. ASSUME NEW r \in Requests, Submit(r) PROVE Inv'
    <2>1. PICK place \in {"post", "probe", "error"} :
            Goto(r, place) /\ (place = "post" => isConnected)
      BY <1>4 DEF Submit
    <2> QED
      BY <1>1, <1>4, <2>1, MoveInv DEF Submit, Before, Places, clients
  <1>5. ASSUME NEW r \in Requests, Settle(r) PROVE Inv'
    BY <1>1, <1>5, MoveInv DEF Settle, Before, Places, clients
  <1>6. ASSUME NEW r \in Requests, Pushed(r) PROVE Inv'
    <2>1. /\ call' \in [Requests -> {"none", "queued", "running", "pushed"} \cup Ended]
          /\ \A q \in Requests : call'[q] = "none" <=> call[q] = "none"
          /\ queue' = queue /\ copies' = copies
      BY <1>6 DEF Pushed, Inv, TypeOK
    <2>2. isConnected' => \E q \in Requests : call[q] # "none"
      BY <1>6 DEF Pushed
    <2> QED
      BY <1>1, <1>6, <2>1, <2>2, CallInv DEF Pushed, Inv, TypeOK, Waiting
  <1>7. ASSUME NEW r \in Requests, Appended(r) PROVE Inv'
    <2>1. /\ copies' \in [Requests -> 0..MaxCopies]
          /\ \A q \in Requests : call[q] = "none" => copies'[q] = copies[q]
      BY <1>7, ServiceAssumption DEF Appended, Inv, TypeOK
    <2>2. isConnected' => \E q \in Requests : call[q] # "none"
      BY <1>7 DEF Appended
    <2> QED
      BY <1>1, <1>7, <2>1, <2>2, CallInv DEF Appended, Inv, TypeOK, Waiting, calls
  <1>8. ASSUME NEW r \in Requests, Rejected(r) \/ Lost(r) \/ Record(r) PROVE Inv'
    <2>1. /\ call[r] \in {"running", "pushed"}
          /\ \E end \in Ended : Finish(r, end)
          /\ UNCHANGED <<pc, configured, clients, copies>>
      BY <1>8 DEF Rejected, Lost, Record, Published, Unpublished, Ended
    <2>2. isConnected' \in BOOLEAN /\ told' \subseteq Requests
      BY <1>1, <1>8 DEF Rejected, Lost, Record, Published, Unpublished
    <2> QED
      BY <2>1, <2>2, FinishInv
  <1>9. CASE UNCHANGED vars
    BY <1>9 DEF vars, calls, clients, Inv, TypeOK, Connected, Waiting, Untouched
  <1> QED
    BY <1>1, <1>2, <1>3, <1>4, <1>5, <1>6, <1>7, <1>8, <1>9, PostInv DEF Next, Web, Answer

LEMMA Invariance == Spec => []Inv
  BY InitInv, StepInv, PTL DEF Spec

(* Type correctness; and nothing is posted without a client, whichever     *)
(* threads and callbacks set isConnected in between.                       *)
THEOREM TypeCorrect == Spec => []TypeOK
  <1>1. Inv => TypeOK
    BY DEF Inv
  <1> QED
    BY Invariance, <1>1, PTL

(* An RFQ whose submission was answered with an error is in no topic and   *)
(* no call of it is on its way: it may be submitted again.                 *)
THEOREM RefusedStaysUnpublished == Spec => []RefusedNotPublished
  <1>1. Inv => RefusedNotPublished
    BY DEF Inv, Untouched, Before, RefusedNotPublished
  <1> QED
    BY Invariance, <1>1, PTL

-----------------------------------------------------------------------------
(* Slots.  A dispatcher's queue holds calls of its own client that wait,   *)
(* each once, so that the one that is let in next takes a slot in which it *)
(* was not before.                                                         *)
QueueInv == \A c \in ClientIds : \A i \in 1..Len(queue[c]) :
    /\ call[queue[c][i]] = "queued"
    /\ via[queue[c][i]] = c
    /\ \A j \in 1..Len(queue[c]) : queue[c][j] = queue[c][i] => j = i

(* No client runs more calls than it has slots.                            *)
SlotInv == \A c \in ClientIds :
    /\ IsFiniteSet(Holding(c))
    /\ Cardinality(Holding(c)) <= Slots
    /\ queue[c] # <<>> => Cardinality(Holding(c)) = Slots

DispatchInv == QueueInv /\ SlotInv

(* Nothing changes for calls and dispatchers.                              *)
LEMMA SameDispatch ==
    ASSUME DispatchInv, UNCHANGED calls PROVE DispatchInv'
  <1>1. call' = call /\ via' = via /\ queue' = queue
    BY DEF calls
  <1>2. \A c \in ClientIds : Holding(c)' = Holding(c)
    BY <1>1 DEF Holding
  <1> QED
    BY <1>1, <1>2 DEF DispatchInv, QueueInv, SlotInv

(* A call blocks in its callback: it keeps its slot.                       *)
LEMMA PushedDispatch ==
    ASSUME TypeOK, DispatchInv, NEW r \in Requests, Pushed(r) PROVE DispatchInv'
  <1>1. /\ call' = [call EXCEPT ![r] = "pushed"] /\ call[r] = "running"
        /\ via' = via /\ queue' = queue
    BY DEF Pushed
  <1>2. \A c \in ClientIds : Holding(c)' = Holding(c)
    BY <1>1 DEF Holding, TypeOK
  <1>3. QueueInv'
    BY <1>1 DEF DispatchInv, QueueInv, TypeOK
  <1>4. SlotInv'
    BY <1>1, <1>2 DEF DispatchInv, SlotInv
  <1> QED
    BY <1>3, <1>4 DEF DispatchInv

(* One element is taken out of a finite set, and one put in its place.     *)
LEMMA TakeOut ==
    ASSUME NEW S, IsFiniteSet(S), NEW x \in S
    PROVE  IsFiniteSet(S \ {x}) /\ Cardinality(S) \in Nat /\ Cardinality(S \ {x}) = Cardinality(S) - 1
  BY FS_RemoveElement, FS_CardinalityType

LEMMA PutIn ==
    ASSUME NEW S, IsFiniteSet(S), NEW x, x \notin S
    PROVE  IsFiniteSet(S \cup {x}) /\ Cardinality(S) \in Nat /\ Cardinality(S \cup {x}) = Cardinality(S) + 1
  BY FS_AddElement, FS_CardinalityType

LEMMA Replace ==
    ASSUME NEW S, IsFiniteSet(S), NEW x \in S, NEW y, y \notin S \ {x}
    PROVE  IsFiniteSet((S \ {x}) \cup {y}) /\ Cardinality((S \ {x}) \cup {y}) = Cardinality(S)
  <1> DEFINE rest == S \ {x}
  <1>1. IsFiniteSet(rest) /\ Cardinality(S) \in Nat /\ Cardinality(rest) = Cardinality(S) - 1
    BY TakeOut
  <1>2. y \notin rest
    OBVIOUS
  <1> HIDE DEF rest
  <1>3. IsFiniteSet(rest \cup {y}) /\ Cardinality(rest \cup {y}) = Cardinality(rest) + 1
    BY <1>1, <1>2, PutIn
  <1>4. IsFiniteSet(rest \cup {y}) /\ Cardinality(rest \cup {y}) = Cardinality(S)
    BY <1>1, <1>3
  <1> QED
    BY <1>4 DEF rest

(* One client's slots change, those of the others do not.                  *)
LEMMA OneClient ==
    ASSUME SlotInv, NEW mine \in ClientIds,
           NEW now, Holding(mine)' = now, IsFiniteSet(now), Cardinality(now) <= Slots,
           queue'[mine] # <<>> => Cardinality(now) = Slots,
           \A c \in ClientIds \ {mine} : Holding(c)' = Holding(c) /\ queue'[c] = queue[c]
    PROVE  SlotInv'
  <1> SUFFICES ASSUME NEW c \in ClientIds
               PROVE  /\ IsFiniteSet(Holding(c)')
                      /\ Cardinality(Holding(c)') <= Slots
                      /\ queue'[c] # <<>> => Cardinality(Holding(c)') = Slots
    BY DEF SlotInv
  <1>1. CASE c = mine
    BY <1>1
  <1>2. CASE c # mine
    <2>1. Holding(c)' = Holding(c) /\ queue'[c] = queue[c]
      BY <1>2
    <2> QED
      BY <2>1 DEF SlotInv
  <1> QED
    BY <1>1, <1>2

(* A call ends: the longest waiting one takes its slot, or the slot is     *)
(* free and nothing waits.                                                 *)
LEMMA FinishDispatch ==
    ASSUME TypeOK, DispatchInv, NEW r \in Requests, call[r] \in {"running", "pushed"},
           NEW end \in Ended, Finish(r, end)
    PROVE  DispatchInv'
  <1>0. PICK mine \in ClientIds : mine = via[r]
    BY DEF TypeOK, ClientIds
  <1> DEFINE waiting == queue[mine]
  <1>1. /\ call \in [Requests -> {"none", "queued", "running", "pushed"} \cup Ended]
        /\ via \in [Requests -> 0..MaxClients] /\ queue \in [ClientIds -> Seq(Requests)]
        /\ via[r] = mine /\ via' = via
        /\ end \notin {"queued", "running", "pushed"}
    BY <1>0 DEF TypeOK, Finish, Ended
  <1>2. /\ IsFiniteSet(Holding(mine)) /\ r \in Holding(mine)
        /\ Slots \in Nat /\ Cardinality(Holding(mine)) <= Slots
    BY <1>1, ServiceAssumption DEF DispatchInv, SlotInv, Holding
  <1>3. /\ IsFiniteSet(Holding(mine) \ {r})
        /\ Cardinality(Holding(mine)) \in Nat
        /\ Cardinality(Holding(mine) \ {r}) = Cardinality(Holding(mine)) - 1
    BY <1>2, TakeOut
  <1>6. Cardinality(Holding(mine) \ {r}) <= Slots
    BY <1>2, <1>3
  <1>4. CASE waiting = <<>>
    <2>1. call' = [call EXCEPT ![r] = end] /\ queue' = queue
      BY <1>1, <1>4 DEF Finish
    <2>2. QueueInv'
      BY <1>1, <2>1 DEF DispatchInv, QueueInv
    <2>3. Holding(mine)' = Holding(mine) \ {r}
      BY <1>1, <2>1 DEF Holding
    <2>4. \A c \in ClientIds \ {mine} : Holding(c)' = Holding(c)
      BY <1>1, <2>1 DEF Holding
    <2>5. SlotInv'
      BY <1>3, <1>4, <1>6, <2>1, <2>3, <2>4, OneClient DEF DispatchInv
    <2> QED
      BY <2>2, <2>5 DEF DispatchInv
  <1>5. CASE waiting # <<>>
    <2> DEFINE next == Head(waiting)
    <2>1. /\ call' = [call EXCEPT ![r] = end, ![next] = "running"]
          /\ queue' = [queue EXCEPT ![mine] = Tail(waiting)]
      BY <1>1, <1>5 DEF Finish
    <2>2. /\ waiting \in Seq(Requests) /\ next \in Requests /\ next = waiting[1] /\ 1 \in 1..Len(waiting)
          /\ Tail(waiting) \in Seq(Requests)
          /\ \A i \in 1..Len(Tail(waiting)) :
                i \in Nat /\ i + 1 \in 1..Len(waiting) /\ i + 1 # 1 /\ Tail(waiting)[i] = waiting[i + 1]
      BY <1>1, <1>5
    <2>3. call[next] = "queued" /\ via[next] = mine /\ next # r
      BY <1>1, <2>2 DEF DispatchInv, QueueInv
    <2>4. \A q \in Requests : call[q] = "queued" /\ q # next => call'[q] = "queued"
      BY <1>1, <2>1, <2>2
    <2>5. QueueInv'
      <3> SUFFICES ASSUME NEW c \in ClientIds, NEW i \in 1..Len(queue'[c])
                   PROVE  /\ call'[queue'[c][i]] = "queued"
                          /\ via[queue'[c][i]] = c
                          /\ \A j \in 1..Len(queue'[c]) : queue'[c][j] = queue'[c][i] => j = i
        BY <1>1 DEF QueueInv
      <3>1. CASE c = mine
        <4>1. queue'[c] = Tail(waiting)
          BY <1>1, <2>1, <3>1
        <4>2. i + 1 \in 1..Len(waiting) /\ i + 1 # 1 /\ queue'[c][i] = waiting[i + 1]
          BY <2>2, <4>1
        <4>3. waiting[i + 1] # next
          BY <1>1, <2>2, <4>2 DEF DispatchInv, QueueInv
        <4>4. /\ call[waiting[i + 1]] = "queued" /\ via[waiting[i + 1]] = mine
              /\ waiting[i + 1] \in Requests
          BY <1>1, <2>2, <4>2 DEF DispatchInv, QueueInv
        <4>5. ASSUME NEW j \in 1..Len(queue'[c]), queue'[c][j] = queue'[c][i] PROVE j = i
          <5>1. j \in Nat /\ i \in Nat /\ j + 1 \in 1..Len(waiting) /\ waiting[j + 1] = waiting[i + 1]
            BY <2>2, <4>1, <4>2, <4>5
          <5>2. j + 1 = i + 1
            BY <1>1, <4>2, <5>1 DEF DispatchInv, QueueInv
          <5> QED
            BY <5>1, <5>2
        <4> QED
          BY <2>4, <3>1, <4>2, <4>3, <4>4, <4>5
      <3>2. CASE c # mine
        <4>1. queue'[c] = queue[c]
          BY <1>1, <2>1, <3>2
        <4>2. /\ queue[c][i] \in Requests /\ call[queue[c][i]] = "queued" /\ via[queue[c][i]] = c
              /\ \A j \in 1..Len(queue[c]) : queue[c][j] = queue[c][i] => j = i
          BY <1>1, <4>1 DEF DispatchInv, QueueInv
        <4> QED
          BY <2>3, <2>4, <3>2, <4>1, <4>2
      <3> QED
        BY <3>1, <3>2
    <2>6. Holding(mine)' = (Holding(mine) \ {r}) \cup {next}
      BY <1>1, <2>1, <2>2, <2>3 DEF Holding
    <2>7. next \notin Holding(mine) \ {r}
      BY <2>3 DEF Holding
    <2>8. \A c \in ClientIds \ {mine} : Holding(c)' = Holding(c)
      BY <1>1, <2>1, <2>2, <2>3 DEF Holding
    <2>9. Cardinality(Holding(mine)) = Slots
      BY <1>5 DEF DispatchInv, SlotInv
    <2> DEFINE now == (Holding(mine) \ {r}) \cup {next}
    <2>10. IsFiniteSet(now) /\ Cardinality(now) = Slots
      BY <1>2, <2>7, <2>9, Replace
    <2>11. \A c \in ClientIds \ {mine} : queue'[c] = queue[c]
      BY <1>1, <2>1
    <2> HIDE DEF now
    <2>13. Holding(mine)' = now
      BY <2>6 DEF now
    <2>12. SlotInv'
      BY <1>2, <2>8, <2>10, <2>11, <2>13, OneClient DEF DispatchInv
    <2> QED
      BY <2>5, <2>12 DEF DispatchInv
  <1> QED
    BY <1>4, <1>5

(* A call is posted: it takes a free slot, and then nothing waits, or it   *)
(* waits behind the others because every slot is taken.                    *)
LEMMA PostDispatch ==
    ASSUME Inv, DispatchInv, NEW r \in Requests, Post(r) PROVE DispatchInv'
  <1>0. PICK mine \in ClientIds : mine = client
    BY ServiceAssumption DEF Inv, TypeOK, Connected, ClientIds, Post, Threads
  <1> DEFINE waiting == queue[mine]
  <1>1. /\ call \in [Requests -> {"none", "queued", "running", "pushed"} \cup Ended]
        /\ via \in [Requests -> 0..MaxClients] /\ queue \in [ClientIds -> Seq(Requests)]
        /\ via' = [via EXCEPT ![r] = mine] /\ call[r] = "none"
    BY <1>0 DEF Inv, TypeOK, Post, Untouched, Before
  <1>2. /\ IsFiniteSet(Holding(mine)) /\ Slots \in Nat /\ Cardinality(Holding(mine)) <= Slots
        /\ \A c \in ClientIds : r \notin Holding(c)
    BY <1>1, ServiceAssumption DEF DispatchInv, SlotInv, Holding
  <1>3. \A c \in ClientIds : \A i \in 1..Len(queue[c]) :
            queue[c][i] \in Requests /\ queue[c][i] # r
    BY <1>1 DEF DispatchInv, QueueInv
  <1>4. CASE Cardinality(Holding(mine)) < Slots
    <2>1. call' = [call EXCEPT ![r] = "running"] /\ queue' = queue
      BY <1>0, <1>4 DEF Post
    <2>2. QueueInv'
      BY <1>1, <1>3, <2>1 DEF DispatchInv, QueueInv
    <2> DEFINE now == Holding(mine) \cup {r}
    <2>3. /\ IsFiniteSet(now) /\ Cardinality(Holding(mine)) \in Nat
          /\ Cardinality(now) = Cardinality(Holding(mine)) + 1
      BY <1>2, PutIn
    <2>4. waiting = <<>>
      BY <1>2, <1>4, <2>3 DEF DispatchInv, SlotInv
    <2>5. Holding(mine)' = now
      BY <1>1, <2>1 DEF Holding
    <2>6. \A c \in ClientIds \ {mine} : Holding(c)' = Holding(c) /\ queue'[c] = queue[c]
      BY <1>1, <2>1 DEF Holding
    <2> HIDE DEF now
    <2>7. Cardinality(now) <= Slots
      BY <1>2, <1>4, <2>3
    <2>8. SlotInv'
      BY <2>1, <2>3, <2>4, <2>5, <2>6, <2>7, OneClient DEF DispatchInv
    <2> QED
      BY <2>2, <2>8 DEF DispatchInv
  <1>5. CASE ~(Cardinality(Holding(mine)) < Slots)
    <2>1. /\ call' = [call EXCEPT ![r] = "queued"]
          /\ queue' = [queue EXCEPT ![mine] = Append(waiting, r)]
      BY <1>0, <1>5 DEF Post
    <2>2. /\ waiting \in Seq(Requests) /\ Append(waiting, r) \in Seq(Requests)
          /\ Len(waiting) \in Nat
          /\ Len(Append(waiting, r)) = Len(waiting) + 1
          /\ Append(waiting, r)[Len(waiting) + 1] = r
          /\ \A i \in 1..Len(waiting) : Append(waiting, r)[i] = waiting[i]
      BY <1>1
    <2>3. QueueInv'
      <3> SUFFICES ASSUME NEW c \in ClientIds, NEW i \in 1..Len(queue'[c])
                   PROVE  /\ call'[queue'[c][i]] = "queued"
                          /\ via'[queue'[c][i]] = c
                          /\ \A j \in 1..Len(queue'[c]) : queue'[c][j] = queue'[c][i] => j = i
        BY DEF QueueInv
      <3>1. CASE c = mine
        <4>1. queue'[c] = Append(waiting, r)
          BY <1>1, <2>1, <3>1
        <4>2. \A j \in 1..Len(queue'[c]) :
                 \/ j = Len(waiting) + 1 /\ queue'[c][j] = r
                 \/ /\ j \in 1..Len(waiting) /\ queue'[c][j] = waiting[j]
                    /\ waiting[j] # r /\ waiting[j] \in Requests
          BY <1>3, <2>2, <4>1
        <4>3. \A j, k \in 1..Len(waiting) : waiting[j] = waiting[k] => j = k
          BY DEF DispatchInv, QueueInv
        <4>4. \A j \in 1..Len(waiting) : call[waiting[j]] = "queued" /\ via[waiting[j]] = mine
          BY DEF DispatchInv, QueueInv
        <4>5. call'[queue'[c][i]] = "queued" /\ via'[queue'[c][i]] = c
          BY <1>1, <2>1, <3>1, <4>2, <4>4
        <4>6. \A j \in 1..Len(queue'[c]) : queue'[c][j] = queue'[c][i] => j = i
          BY <4>2, <4>3
        <4> QED
          BY <4>5, <4>6
      <3>2. CASE c # mine
        <4>1. queue'[c] = queue[c]
          BY <1>1, <2>1, <3>2
        <4>2. /\ queue[c][i] \in Requests \ {r} /\ call[queue[c][i]] = "queued" /\ via[queue[c][i]] = c
              /\ \A j \in 1..Len(queue[c]) : queue[c][j] = queue[c][i] => j = i
          BY <1>3, <4>1 DEF DispatchInv, QueueInv
        <4> QED
          BY <1>1, <2>1, <4>1, <4>2
      <3> QED
        BY <3>1, <3>2
    <2>4. \A c \in ClientIds : Holding(c)' = Holding(c)
      BY <1>1, <2>1 DEF Holding
    <2>5. Cardinality(Holding(mine)) \in Nat
      BY <1>2, FS_CardinalityType
    <2>6. Cardinality(Holding(mine)) = Slots
      BY <1>2, <1>5, <2>5
    <2> DEFINE now == Holding(mine)
    <2>7. IsFiniteSet(now) /\ Cardinality(now) <= Slots /\ Cardinality(now) = Slots
      BY <1>2, <2>6
    <2>8. Holding(mine)' = now
      BY <2>4
    <2>9. \A c \in ClientIds \ {mine} : Holding(c)' = Holding(c) /\ queue'[c] = queue[c]
      BY <1>1, <2>1, <2>4
    <2> HIDE DEF now
    <2>10. SlotInv'
      BY <2>7, <2>8, <2>9, OneClient DEF DispatchInv
    <2> QED
      BY <2>3, <2>10 DEF DispatchInv
  <1> QED
    BY <1>4, <1>5

LEMMA InitDispatch == Init => DispatchInv
  <1> SUFFICES ASSUME Init PROVE DispatchInv
    OBVIOUS
  <1>1. \A c \in ClientIds : Holding(c) = {} /\ queue[c] = <<>>
    BY DEF Init, Holding
  <1>2. IsFiniteSet({}) /\ Cardinality({}) = 0 /\ Slots \in Nat
    BY FS_EmptySet, ServiceAssumption
  <1>3. SlotInv
    <2> SUFFICES ASSUME NEW c \in ClientIds
                 PROVE  /\ IsFiniteSet(Holding(c))
                        /\ Cardinality(Holding(c)) <= Slots
                        /\ queue[c] # <<>> => Cardinality(Holding(c)) = Slots
      BY DEF SlotInv
    <2>1. Holding(c) = {} /\ queue[c] = <<>>
      BY <1>1
    <2>2. 0 <= Slots
      BY <1>2
    <2> QED
      BY <1>2, <2>1, <2>2
  <1>4. QueueInv
    BY <1>1 DEF QueueInv
  <1> QED
    BY <1>3, <1>4 DEF DispatchInv

LEMMA StepDispatch == Inv /\ DispatchInv /\ [Next]_vars => DispatchInv'
  <1> SUFFICES ASSUME Inv, DispatchInv, [Next]_vars PROVE DispatchInv'
    OBVIOUS
  <1>0. TypeOK
    BY DEF Inv
  <1>1. CASE UNCHANGED calls
    BY <1>1, SameDispatch
  <1>2. ASSUME NEW r \in Requests, Post(r) PROVE DispatchInv'
    BY <1>2, PostDispatch
  <1>3. ASSUME NEW r \in Requests, Pushed(r) PROVE DispatchInv'
    BY <1>0, <1>3, PushedDispatch
  <1>4. ASSUME NEW r \in Requests, Rejected(r) \/ Lost(r) \/ Record(r) PROVE DispatchInv'
    <2>1. call[r] \in {"running", "pushed"} /\ \E end \in Ended : Finish(r, end)
      BY <1>4 DEF Rejected, Lost, Record, Published, Unpublished, Ended
    <2> QED
      BY <1>0, <2>1, FinishDispatch
  <1>5. \A t \in Threads : Run(t) => UNCHANGED calls
    BY DEF Run, Connect, Ask, GetOk, GetFails, GiveUp
  <1>6. Configure \/ UNCHANGED vars => UNCHANGED calls
    BY DEF Configure, vars
  <1>7. \A r \in Requests : Submit(r) \/ Settle(r) \/ Appended(r) => UNCHANGED calls
    BY DEF Submit, Settle, Appended
  <1>8. Startup \in Threads /\ Requests \subseteq Threads
    BY DEF Threads
  <1> QED
    BY <1>1, <1>2, <1>3, <1>4, <1>5, <1>6, <1>7, <1>8 DEF Next, Web, Answer

(* A call waits in a dispatcher only while every slot of its client is     *)
(* taken: whatever ended a call, an exception thrown by the callback or by *)
(* the Kafka producer included, its slot goes to the longest waiting one,  *)
(* for any number of clients, slots and RFQs.                              *)
THEOREM NoSlotIdle == Spec => []NoIdleSlot
  <1>1. DispatchInv => NoIdleSlot
    BY DEF DispatchInv, SlotInv, NoIdleSlot
  <1> QED
    BY Invariance, InitDispatch, StepDispatch, <1>1, PTL DEF Spec
=============================================================================
