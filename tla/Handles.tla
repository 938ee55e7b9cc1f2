------------------------------- MODULE Handles -------------------------------
(* The C interface of libursa: opaque handles that the caller owns, error    *)
(* codes, and the details of the last error, kept per thread.  Every         *)
(* function of the interface is a sequence of steps in the order of its      *)
(* code; the functions themselves are in UrsaApi, and this module says what  *)
(* calling one does.  The caller is an honest C program: it passes handles   *)
(* it owns, of the right type, or null.                                      *)
(*                                                                           *)
(* Handles of one type, focus, are counted; those of the other types are     *)
(* taken to be at hand, so that every call that touches focus, or no handle,  *)
(* is possible.                                                              *)
EXTENDS HandleCalls

CONSTANTS Calls,      \* the functions: [name, steps]
          Threads,    \* the caller's threads
          Copies      \* bound: handles of one type alive at a time

ASSUME CopiesAssumption == Copies \in Nat \ {0}

ASSUME CallsAssumption == \A call \in Calls : WellFormed(call)

TypesOf(call) == {call.steps[i].type : i \in DOMAIN call.steps} \ {NoType}
Types == UNION {TypesOf(call) : call \in Calls}
CallsOn == [type \in Types |-> {call \in Calls : \/ type \in TypesOf(call)
                                                 \/ TypesOf(call) = {}}]

(* How many objects of a type a call has taken before step k, takes in all,  *)
(* and gives.                                                                *)
Does(call, does, type, k) ==
  \E i \in DOMAIN call.steps :
    i < k /\ call.steps[i].does = does /\ call.steps[i].type = type
TakenOnSuccess(call, type, k) ==
  IF k > Len(call.steps) /\ Does(call, "take", type, k) THEN 1 ELSE 0
Taken(call, type, k) == IF Does(call, "take", type, k) THEN 1 ELSE 0
End(call) == Len(call.steps) + 1
TakenInAll(call, type) == Taken(call, type, End(call))
Given(call, does, type) == IF Does(call, does, type, End(call)) THEN 1 ELSE 0

-----------------------------------------------------------------------------
VARIABLES
  focus,     \* the type that is counted
  heap,      \* its objects that are alive
  owned,     \* its handles the caller takes to be its own
  message,   \* CURRENT_ERROR_C_JSON: the kind last stored, per slot
  failed,    \* the last error code each thread was given
  kept,      \* the thread's copy of a pointer from ursa_get_current_error
  misread    \* calls that read a handle of one type as another

vars == <<focus, heap, owned, message, failed, kept, misread>>

Silent == Kind("none", 0)

(* CURRENT_ERROR_C_JSON is thread_local: every thread has its own slot.      *)
SharedSlot(thread) == CHOOSE t \in Threads : TRUE
Slot(thread) == thread

StoreFirstError(thread, kind) ==
  /\ message' = [message EXCEPT ![Slot(thread)] = IF @ = Silent THEN kind ELSE @]
  /\ UNCHANGED kept
StoreByCode(thread, kind) ==
  /\ message' = [message EXCEPT ![Slot(thread)] = InvalidParam(CodeOf(kind))]
  /\ UNCHANGED kept

(* Every pointer into the slot of this thread dies when it is replaced.      *)
StoreError(thread, kind) ==
  /\ message' = [message EXCEPT ![Slot(thread)] = kind]
  /\ kept' = [t \in Threads |->
       IF Slot(t) = Slot(thread) /\ kept[t] = "valid" THEN "dangling" ELSE kept[t]]

(* A caller can get past step i: it has a handle where one is needed.        *)
CanPass(call, i) ==
  LET step == call.steps[i]
  IN /\ step.does # "hopeless"
     /\ step.does = "check" /\ step.type = focus => owned > 0

Misreads(call, k) ==
  IF \E i \in DOMAIN call.steps :
       /\ i < k
       /\ call.steps[i].does = "check"
       /\ call.steps[i].type = focus
       /\ call.steps[i].read # focus
  THEN {call.name} ELSE {}

(* The rule by which a caller keeps its books: CommonInvalidParam means that *)
(* nothing happened, any other error that what the call consumes is gone.    *)
BooksAfter(call, code) ==
  IF code \in InvalidParams THEN owned ELSE owned - TakenInAll(call, focus)

(* The call returns at step k; what it took before is dropped on the way.    *)
Fail(thread, call, k, failure) ==
  /\ \A i \in 1 .. k - 1 : CanPass(call, i)
  /\ heap' = heap - Taken(call, focus, k)
  /\ owned' = BooksAfter(call, failure.code)
  /\ StoreError(thread, failure.kind)
  /\ failed' = [failed EXCEPT ![thread] = failure.code]
  /\ misread' = misread \cup Misreads(call, k)
  /\ UNCHANGED focus

Succeed(thread, call, given) ==
  /\ \A i \in DOMAIN call.steps : CanPass(call, i)
  /\ heap - TakenInAll(call, focus) + given <= Copies
  /\ heap' = heap - TakenInAll(call, focus) + given
  /\ owned' = owned - TakenInAll(call, focus) + given
  /\ misread' = misread \cup Misreads(call, End(call))
  /\ UNCHANGED <<focus, message, failed, kept>>

(* Reading a handle as another type is undefined behaviour: nothing is said  *)
(* about what follows it.                                                    *)
Calling(thread, call) ==
  /\ misread = {}
  /\ \/ \E k \in DOMAIN call.steps : \E failure \in call.steps[k].fails :
          Fail(thread, call, k, failure)
     \/ \E extra \in 0 .. Given(call, "maybe", focus) :
          Succeed(thread, call, Given(call, "box", focus) + extra)

(* ursa_get_current_error: null as long as nothing has failed.               *)
GetCurrentError(thread) ==
  /\ misread = {}
  /\ message[Slot(thread)] # Silent
  /\ kept' = [kept EXCEPT ![thread] = "valid"]
  /\ UNCHANGED <<focus, heap, owned, message, failed, misread>>

Init ==
  /\ focus \in Types
  /\ heap = 0
  /\ owned = 0
  /\ message = [t \in Threads |-> Silent]
  /\ failed = [t \in Threads |-> Success]
  /\ kept = [t \in Threads |-> "none"]
  /\ misread = {}

Next ==
  \E thread \in Threads :
    \/ \E call \in CallsOn[focus] : Calling(thread, call)
    \/ GetCurrentError(thread)

Spec == Init /\ [][Next]_vars

-----------------------------------------------------------------------------
HandlesTypeOK ==
  /\ focus \in Types
  /\ heap \in 0 .. Copies
  /\ owned \in 0 .. Copies
  /\ message \in [Threads -> Kinds \cup {Silent}]
  /\ failed \in [Threads -> ErrorCode]
  /\ kept \in [Threads -> {"none", "valid", "dangling"}]
  /\ misread \subseteq {call.name : call \in Calls}

(* The books of a caller who looks at nothing but return codes agree with    *)
(* the heap: no call frees what the caller still counts as its own, even     *)
(* when it fails halfway, and none keeps what the caller counts as gone.     *)
OwnershipExact == owned = heap

(* What a thread reads with ursa_get_current_error is about the last error   *)
(* it was given, never another thread's; only the null checks of arrays and  *)
(* of index sets store a message that names another parameter.               *)
MessageMatches ==
  \A t \in Threads :
    \/ failed[t] = Success /\ message[Slot(t)] = Silent
    \/ /\ message[Slot(t)] # Silent
       /\ Matching(failed[t], message[Slot(t)])

(* A pointer to the details of an error lives until the next failing call of *)
(* the same thread, whatever other threads do and whatever succeeds.         *)
KeptUntilNextError ==
  [][ \A t \in Threads :
        kept[t] = "valid" /\ kept'[t] = "dangling" =>
          \E call \in CallsOn[focus] : \E k \in DOMAIN call.steps :
            \E failure \in call.steps[k].fails :
              failure.code = failed'[t] /\ Fail(t, call, k, failure) ]_vars

(* Every handle is read as the type it was made of, except by the function   *)
(* that turns a registry delta into JSON.                                    *)
OnlyDeltaMisread == misread \subseteq {<<"RevocationRegistryDelta", "to_json">>}
=============================================================================
