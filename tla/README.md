# A verification of the SmartchainDB driver

The repository holds the Java driver of BigchainDB/SmartchainDB (`src/src/main/java/com/bigchaindb`), a marketplace workload and a
Stardog/Kafka experiment built on it (`.../smartchaindb/driver`), a Spring service written in Kotlin that accepts requests for quote
(`src/src/main/kotlin/com/smartchaindb`), and the Ursa cryptography libraries in Rust (`src/ursa_Master`), with anonymous credentials,
a C interface, and a group-signature program (`libzmix/tests/scenario.rs`) that the driver runs as a subprocess. This directory models the
parts of it that have interesting control: what the driver does when nodes fail, what the workload does when sends fail, what the service
does with threads, callbacks and a broker, how credentials are issued, revoked and presented, and who owns what across the C interface.

Paths below are short for files under `src/src/main/java/com/bigchaindb` and `src/src/main/kotlin/com/smartchaindb`; paths that
begin with `cl/`, `ffi/`, `errors/` or `utils/ctypes` are under `src/ursa_Master/libursa/src`.

## 1. Inventory

### Connection manager — `builders/BigchainDbConfigBuilder`, `model/BigChainDBGlobals`, `model/Connection`, `util/NetworkUtils`, the sends of `builders/BigchainDbTransactionBuilder`
*State.* Static fields without locks: `isConnected`, `timeTillTimeout` (an instant), `timeout`, `connections` (an `ArrayList`),
`currentNode`, `baseUrl` and `wsSocketUrl`, `httpClient`, `hasMultipleNodes`; for each `Connection` its `retryCount` and
`timeToRetryForConnection`. For each `ConfigBuilder` the `tokens` that the interceptor of the client it built reads.
*Operations.* `setup`; the three sends (`sendTransaction(callback)`, `sendTransaction()`, `validateTransaction()`); underneath
`configureNodeToConnect` (recursive), `getConnectionWithEarliestAvailability` (sorts the shared list), `waitTillTimetoConnect`,
`connect`, `processConnectionFailure`, `processConnectionSuccess`; the HTTP client's callbacks `onResponse` and `onFailure`.
*Interacts with* every caller through the static fields, with OkHttp, with nodes.
*Hard.* Races between calling threads and callbacks, between the read and the write of one update too; a list that several threads sort in
place; the two-step choose/probe/post; exponential back-off with a cap and, in the end, an overflow; an absolute budget; recursion from inside
`try` and `catch`; timeouts that come out as 0 or negative.
*Correct when*, with any threads, nobody waits longer than half the timeout and no budget exceeds the timeout; and, with one thread, the earliest
node is chosen and not before its time, back-off never shortens before its delay overflows, and a transaction goes to the node that was probed, with
that node's headers; and every call ends (with the two exceptions that section 3 names). Applications that call the driver from several threads
get none of the second group.

### Marketplace workload — `smartchaindb/driver/BigchainDBJavaDriver`, `Simulation`, `Transactions`
*State.* Five lists of transaction ids, read by position; the transactions sent.
*Operations.* Six loops: create seller assets, create buyer assets, advertise, offer, sell, return and accept the return. (The loops
that would send invalid transactions are commented out in the source.)
*Interacts with* the connection manager (every iteration is an asynchronous send) and with the chain's escrow, whose TRANSFERs the sixth
loop queries.
*Hard.* A send that fails appends nothing: every later loop is shifted. One access has no bounds check.
*Correct when* nothing is read beyond a list's end, no output is spent twice, owners spend what is theirs, and sales pair what belongs
together.

### RFQ service — `rfq/RFQController`, `chain/Transactor`, `config/BigchainDbConfig` and `KafkaConfig`
*State.* The driver's globals; the dispatcher of each HTTP client; the records in Kafka.
*Operations.* `submitRFQ` (a web thread), the callback `pushedSuccessfully / transactionMalformed / otherError` (a dispatcher thread) with
the blocking publication on Kafka, `bigchainDbConfig` (start-up thread).
*Hard.* Start-up races with the first requests; a callback that blocks while it holds a dispatcher slot, or throws; the browser has its
answer before the outcome is known; a new client, with a new dispatcher, after a reconnect.
*Correct when* a refused RFQ is never published, slots are never leaked, every submission ends, and its callback hears how.

### Capability mediation — `smartchaindb/driver/StardogTest`, `DBConnectionPool`, `CoordinatorDriver`, `RulesDriver`, `Capabilities`
*State.* A pool created on first use, `reasonerCache`, `keyList`, `capabilityList`. *Operations.* `getPoolInstance`,
`getCapabilityTopic`, `getRandomCapability`, `getIdForTopics`, `generateRules`, `getCapabilities`. *Hard.* A
cache that is read and never filled; connections obtained and not released. *Correct when* every capability gets a topic and the pool never runs dry. Not modelled yet.

### Kafka supplier consumer — `ConsumerDriver`, `ConsumerManager`, `ProducerDriver`
*State.* Subscribed topics, requests accepted, the group's committed offset. *Operations.* A poll loop that filters, logs and commits
asynchronously. *Hard.* At-least-once delivery, restarts between handling and commit, records that make the handler throw.
*Correct when* no request is lost, and one delivered twice is accepted once. Not modelled yet.

### Transaction builder — the staged interfaces of `builders/BigchainDbTransactionBuilder`, `model/Transaction`, `model/Input`
*State.* The operation, the asset and metadata, two lists (inputs, outputs) that only grow, and the transaction built last; the `Input`
objects, which a transaction shares with the list it was built from. *Operations.* `addInput`, `addOutput`, `addAssets`,
`addMetaData`, `operation`; `build`, `buildOnly`, `buildAndSign`, `buildAndSignOnly`, `buildG`, `buildAndSignG`; the sends.
*Interacts with* `Transactions`, which uses every builder once, with applications that may keep a transaction and build another, and
with the connection manager through the sends. *Hard.* The order of signature and id; the default input and output, which stay in the lists;
shared inputs that a second signature writes into; signing that fails silently; a list of operations that must agree with callers.
*Correct when* the id is the digest of the body that is posted, what `Transactions` sends can be verified by a node, and nothing but
signing changes a transaction that was signed before.

### Group signature — `ursa_Master/libzmix/tests/scenario.rs`
*State.* The group's keys and the manager's register of members, kept by one run of the program. *Operations.* `GSetup`, `PKIJoin`, `GJoin`,
`GSign`, `GVerify`, `GOpen`; as a command, `GJoin`, `PKIJoin` and `GSign`. *Interacts with* the builder, whose `Gsign` starts it through
`cargo test` and looks for `Signature is:` in what it prints (`DriverConstants.GROUP_SIGNATURE`, which selects that, is false). *Hard.* The algebra of joining, signing,
verifying and opening; degenerate random values. The `GSign` command prints nothing: its body is commented out, so `Gsign` fails on
the first of no results. *Correct when* every member's signature verifies and opens to that member. Not modelled yet; the builder's model
treats the program's output as anything.

### Ursa anonymous credentials — `cl/issuer`, `cl/prover`, `cl/verifier`, `cl/mod`, `cl/helpers`
*State.* The issuer's registry (`RevocationRegistry.accum`), which every signature, revocation and recovery changes; the deltas that its
application publishes; a holder's merged delta, its `Witness`, its signature while it is being processed; a `ProofBuilder` (two lists of
commitments, the sub proofs, the common attributes) and a `ProofVerifier` (the requests, an `m_hat` for each common attribute).
*Operations.* New registry; blind secrets; sign; process a signature; revoke; recover; merge deltas; new and updated witness; for the
builder and the verifier `add_common_attribute`, `add_sub_proof_request`, then `finalize` and `verify`.
*Interacts with* a tails accessor that the application supplies (a callback through the C interface), which may fail before or after the
registry was changed; with applications that fetch registries and deltas at any time.
*Hard.* An accumulator changed without a delta; deltas merged in any grouping with revocations and recoveries between; a signature that is
blinded in place before it is checked; a non-revocation part that is optional on both sides; list items that stay when a later part of the same
request fails; a verifier that remembers; 32-bit arithmetic that wraps around; stale registries and witnesses.
*Correct when* the accumulator contains exactly the members, a witness is the same whichever way it was brought up to date, and a proof is
accepted exactly when what it says is true of the credential and, as far as it says anything about them, of the registries.

### Ursa C interface — `ffi/cl`, `ffi/bls`, `ffi/logger`, `ffi/mod`, `errors/mod`, `utils/ctypes`
*State.* The objects behind opaque handles, which the caller owns; the details of the last error, one slot for each thread. *Operations.*
More than a hundred functions, each a series of parameter checks (macros), take-overs of handles (`Box::from_raw`), a library call and results
(`Box::into_raw`). *Hard.* Failures between taking an object and giving one back, what a caller may conclude from a return code, pointers
into a slot that is overwritten, functions that name the wrong type. *Correct when* a caller who sees nothing but return codes always knows
what it owns, and a thread's message is about its own last error.

### The rest
`api/*` (one GET each, no state), `json/*` and `model/*` (data), `util/Base58`, `DriverUtils`, `KeyPairUtils` (pure conversions),
`ws/*` (one session per `setup`). Of Ursa: the ed25519 interface (one call decides
alone), `signatures`, `kex`, `encryption` and `sharing` (wrappers), the BLS algebra, big numbers and pairings, the WebAssembly wrappers, `libzmix`.

## 2. The modules

| module | models | extends |
|---|---|---|
| `ConnectionManager` | the connection manager | — |
| `MCConnectionManager` | node and thread values for its runs | `ConnectionManager` |
| `ConnectionManager_proofs` | theorems | `ConnectionManager` |
| `Marketplace`, `Marketplace_proofs` | the workload, theorems | — |
| `RFQService`, `RFQService_proofs` | the service, theorems | — |
| `TransactionBuilder`, `TransactionBuilder_proofs` | building, signing and reusing a builder, theorems | — |
| `MembershipLog` | abstract: a published set of members, and a holder who knows it at some position | — |
| `Registry`, `Registry_proofs` | accumulator, deltas, merged delta, witness; theorems, refinement of `MembershipLog` | — |
| `Predicates`, `Predicates_proofs` | `GE`, `GT`, `LE`, `LT` in integers that wrap around; theorem | — |
| `AnonCreds`, `AnonCreds_proofs` | one holder's issuance and presentations, composed with the registry; theorems | `Registry`, `Predicates` |
| `MCAnonCreds` | values and requests for its run | `AnonCreds` |
| `HandleCalls` | error codes, and the steps a C function is made of | — |
| `UrsaApi` | the functions of the C interface, as sequences of such steps | `HandleCalls` |
| `Handles`, `Handles_proofs` | what calling them does; theorems for every set of functions | `HandleCalls` |
| `MCHandles` | joins the two | `Handles`, `UrsaApi` |

`Marketplace` and `RFQService` each keep the part of the connection manager they need and nothing more: a marketplace iteration sees a
send that returns or times out; the service sees probe, client and `isConnected`, without the clock. Operators whose comment says
"Mutant of" are wrong on purpose: each is a plausible mistake in the definition that follows it, is used by nothing, and is there to
be substituted for that definition, upon which the property must fail.

### ConnectionManager
One action is the code between two accesses to state that other threads share, to the clock, or to a node. `pc[s]` names the place:

| place | code | actions |
|---|---|---|
| idle, returned, timedOut, crashed | no call is running; how the last one ended | `StartSetup`, `StartSend` |
| check, charge, settle | `if (!isConnected())`; `getCurrentNode()` for the two methods that keep the books | `Check`, `ReadCurrentNode` |
| again | `sendTransaction()` calls itself after an `IOException` | `Again` |
| choose, sort, stirred, raced, torn | head of `configureNodeToConnect`, `List.sort` | `BudgetSpent`, `BeginSort`, `EndSort`, `SortThrows` |
| first, current, look | `get(0)`, `setCurrentNode`, `prepareHeader` and the look at the retry time | `TakeFirst`, `SetCurrentNode`, `PrepareHeader` |
| wait | `waitTillTimetoConnect`, then `setBaseUrl` | `WaitOver`, `WaitExpires` |
| ask, build, client, publish | `connect`, `buildDefaultHttpClient` | `AskConnected`, `ReadBudget`, `LessNow`, `SetHttpClient` |
| request, get | `NetworkUtils.sendGetRequest` | `Request`, `GetOk`, `GetBad`, `GetFails` |
| find, fetch | `indexOf` and `get` in `processConnectionFailure` and `processConnectionSuccess` | `Find`, `Missing`, `Fetch` |
| count, delay, defer, recount, increase | `processConnectionFailure`: read the count, read the clock, write the retry time, read the count again, write it | `ReadCount`, `AddDelay`, `SetTimeToRetry`, `RereadCount`, `SetRetryCount` |
| clear, reset, clock, renew | `processConnectionSuccess`: write 0 twice; `resetTimeTillTimeout`: read the clock, write the budget | `ClearTimeToRetry`, `ClearRetryCount`, `AddTimeout`, `SetTimeTillTimeout` |
| putback | `set(nodeIndex, conn)`, the end of both | `PutBack` |
| post, exchange | `TransactionsApi.sendTransaction` | `PostAsync`, `PostSync`, `PostAnswered`, `PostFails` |
| (callback threads) | `onResponse`, `onFailure` | `AsyncAnswered`, `AsyncFails` |

Modelling decisions:
- *Reads and writes are separate.* What a thread has read or computed and not yet written is in `held[s]`, the slot and the connection it works on
  in `slot[s]` and `conn[s]`, and what it does this for in `purpose[s]`. So a retry time may be written over a newer one, a node be charged
  twice or a charge be lost, and a budget shrink. Three pairs of accesses remain one step: the clock and the budget where they are compared (`OutOfTime`); the
  end of the wait and `setBaseUrl`, since a loop that has ended would end later too; and `prepareHeader` with the look at the retry time, since the former
  changes nothing but the thread's own builder. Accesses are sequentially consistent: the Java memory model also allows
  a thread not to see another one's writes, which is not modelled.
- *Time* counts fractions of `DELAY`. `Tick` may come between any two steps (`Spec`), so a thread may be delayed anywhere. `PromptSpec` lets
  the clock move only while every sender rests, sleeps or waits for a node: a fast machine. Counterexamples that hold under `PromptSpec`
  do not depend on a slow thread.
- *Sorting.* `List.sort` moves elements in place. While one thread sorts and elements have to move, any other thread's `indexOf` and `get` may
  find any element in any slot (`Views`). A sort during which another thread sorts too, or writes a retry time or a slot (`Stir`), may leave any
  elements in any slots, and of two overlapping sorts the one that ends second gets
  `ConcurrentModificationException`; the handler then looks up `null` in the list and throws `IndexOutOfBoundsException`. One thread
  sorts stably and exactly.
- *Overflow.* `RawBackoff` is `DELAY * (long) Math.pow(2, k)` in integers of `Width` bits: the cast saturates, the product wraps around. `Overflows(k)` names
  the counts where it does; in the code they begin at 55.
- *Exceptions.* The recursion in `configureNodeToConnect` leaves frames on the stack. A frame whose probe was answered with an error code
  recursed inside its own `try` and catches what its callee throws; the model keeps the set of the nodes of those frames (`handlers`) and lets
  any of them catch, or none. That over-approximates the stack.
- *A request* has one deadline, the client's timeout, where OkHttp has separate connect, write and read timeouts of that length.
  Asynchronous requests have no tracked deadline: they fail at any time.
- *One node* is the list of one element. `hasMultipleNodes`, which a later single-node `setup` does not reset, is left out.
- *Setup* runs only while no send runs; each send brings a new builder, hence new tokens.
- `validateTransaction` has the control of `sendTransaction()`; its result is not modelled.

### Marketplace
`step` is the loop, `index` its iteration, `stage` how far an iteration of the sixth loop is. Futures are awaited one by one (`.get()`), so
iterations are serial although a pool runs them. An id is the operation, the party and the iteration: contents include a timestamp,
so no two coincide. `Send` is a send that returned, `Miss` one that threw `TimeoutException`, which the wrappers of `Simulation` catch; a
send that throws after its POST (`crashed` in `ConnectionManager`) does not occur with one calling thread (`OneThreadNeverCrashes`). What the chain
does with a transaction is not awaited by the program; the sixth loop's queries may find a TRANSFER or not. Operations `main` never calls
(`updateAdv`, `doTransfer`, `doBid`, `doAccept`, `doInterest`, the RFQ and pre-request ones) are left out.

### RFQService
`pc` of a web thread follows `submitRFQ` through the driver; `call[r]` follows the HTTP call: `queued` in the dispatcher, `running`, `pushed`
(the callback waits for the broker), then one of `Ended`. `Finish` is OkHttp 3.9's `Dispatcher.finished`, which runs in a `finally`: also when
the callback threw. Every new client has a dispatcher of its own. The producer is Kafka's default one of version 2.5, not idempotent, so a
lost acknowledgement may append a record again (`copies`). A reconnect may give up at any time instead of after its budget. There is no clock: the
timeout that `buildDefaultHttpClient` computes is nothing or something, so `Connect` may put a new client among the `untimed` ones, on which a GET or a call need
never end; `on` and `via` say which client each GET and each call is on.

### TransactionBuilder
One action for each kind of call: `SetOperation`, `SetPayload` (asset and metadata), `AddInput`, `AddOutput`, `BuildRefused` (`buildHelper` throws
when no operation was set, and has replaced the transaction by then), `Build`, `BuildAndSign`, `BuildAndSignG`, `Send`.

- *Shared inputs.* An input lives once, in `inputs`, and a transaction in `built` says how many of them it holds (they are always the first
  ones, since a list only grows). So `Fulfilled`, which writes the signature into the first input, changes the contents of every transaction
  built before, as it does in the code.
- *Contents and digests.* `Content` is what `toHashInput` puts down: everything except the id. A digest is the contents that were hashed,
  with the spent outputs where the operation asks for them (`Message`), so two digests are equal exactly when the hashed strings are. That a
  set of spent outputs stands for their concatenation in order loses only the order.
- *Fulfilments.* The number of the transaction that was signed, 0 before. `BuildAndSignG` hands a payload that the caller gives to another
  program; its message is `Null`, a signature of no transaction's digest. The program of this repository prints no signature, so with it
  only the failure (`Build`) occurs; the action covers a program that does print one, which is what `Gsign` is written for.
- *Failure.* `buildAndSign` swallows the exceptions of signing: what is left is a `Build`. So does every failure of the group signature
  leave one, though its exception reaches the caller.
- *Verification* (`Verifies`) is a node's: the signature covers the contents without fulfilments and the outputs spent. It appears in a property
  only.
- Sending is the one step of writing the body down; what the driver does to get it to a node is `ConnectionManager`.

### Registry and MembershipLog
- *A point* is its coefficients over the tails. Nobody but the issuer knows gamma, so tails are independent and two points are equal exactly
  when their coefficients are; a tail added twice, or subtracted and never added, shows as 2 or -1. Pairing with the fixed tail of the
  holder shifts the coefficients (`WitnessTests`).
- *Failing accessors.* `Changed` has two outcomes: accumulator and delta, or the accumulator alone, when putting the tail back fails. The
  application publishes what it was given and believes (`status`) only in calls that succeeded. It signs a free index, revokes a valid one and
  recovers a revoked one: `revoke_credential` and `recovery_credential` themselves check none of this.
- *The holder* (index `Me`) reads the ledger in order, merges what it likes before it applies it, and makes or updates its witness then.
- *Refinement.* Members are the indices whose tail has coefficient 1, `known` those whose shifted tail has it in the witness. `MembershipLog`
  promises nothing after a delta was lost (`Lapse`); until then every step of the registry is one change published, or one position learnt.

### AnonCreds
- *Numbers* are reduced to what the equations compare: how often a blinding factor was added to a signature (`v`, `vr`; it is right when that
  is once), which request an answer belongs to, whether every attribute of the key is signed. Hashes are equal when what is hashed is. The list
  a prover hashes holds items by number and kind; the verifier's recomputation gives the same item if the equation holds and `Bad` if not.
- *One session* (`Ask` to `Verify`) freezes registry, witness and credential, which loses nothing: the holder and the verifier may each use any
  published registry, and a later change would only make the ledger longer. The verifier is filled when the proofs exist (`ProofsMade`), since none of them
  depends on it, and it declares its common attribute first, since only `verify` reads the declaration; declaring it once more later resets the `m_hat`
  that the verifier keeps.
- *The non-revocation part is optional.* `add_sub_proof_request` makes one only when the application passes a registry and a witness: `shown` is the set of
  requests for which it does. `verify` recomputes the part of a sub proof that carries one, if the verifier was given a registry (`Rechecked`), and nothing asks
  for it: a sub proof without one is accepted for its other statements, also when the credential was revoked. A verifier without a registry rejects a
  proof that carries the part, whose items it does not recompute.
- *Lists* of commitments are kept call by call, since items of different calls differ (`Committed`).
- *Failure inside a request.* `BuilderAddSubProofRequest` leaves the non-revocation items in the list when the primary part fails (`orphaned`); the proof
  made from such a builder is rejected. `ProcessCredentialSignature` adds the blinding factors and then checks: the second attempt on the
  object adds them again, and `Reload` is the application going back to its copy.
- *Names.* The prover wants the value's names to be those of the key; the verifier looks only at the credential schema. `KeyProven` keeps the
  exemption of version-1 proofs from a response for the master secret. A panic (`Panics`) ends the run of the builder.
- *Left out.* Credentials issued without revocation, several credentials in one proof, an issuer who cheats.

### Predicates
`Wrap` is i32 arithmetic in a release build, for integers from `-Half` to `Half - 1`. `four_squares` follows the code's three nested descending
searches. `Verifies` says which t-values the verifier's equation gives back. That proofs exist for "greater than 2147483647" when the
attribute is negative (`OffTheEnd`) is what the code does: the bound wraps on both sides.

### Handles
- *Steps.* A function is its sequence of steps; a step has the failures its macro has (code returned, kind stored). `Calling` either fails at some
  step, dropping what it took before, or runs through. Out pointers that the code does not check have no step.
- *The caller* is honest: it passes handles it owns, or null. It keeps books by return codes (`BooksAfter`).
- *One type is counted* (`focus`, any type); handles of the others are taken to be at hand. So every function is called in the focus of each of its
  types, with any failure, and the state stays small. Ownership of one type depends on no other.
- *Errors.* `StoreError` replaces the slot of the thread, so pointers handed out by `ursa_get_current_error` dangle from then on.
- *Misread handles* are undefined behaviour in the code: nothing is said of what follows such a call.

Seen while reading, and kept in the model: the JSON functions of a registry delta cast to the type of a signature correctness proof
(`OnlyDeltaMisread`); the thirteenth parameter has no code of its own and is returned as 112, which is also `CommonInvalidState`; the macros
for arrays and index sets store the message of the next parameter (`Miscounted`). Seen as well: strings that `to_json` returns have no function that frees
them; `as_bytes` returns pointers into the handle's object; a prover has a panic where a predicate's attribute is
also revealed and common (`Panics`); and a schema attribute whose value is a commitment gives a credential that no proof can be made from (`Signed = Key`).

## 3. The runs

| run | question | bounds |
|---|---|---|
| `ConnectionOneThread` | Does a lone thread with synchronous sends choose the earliest node, wait its time, back off ever longer and post to the node it probed, and is no client's timeout negative however slow it is? | 2 nodes, delay 2 in 5 bits, timeout 6, clock to 12, 2 sends after setup |
| `ConnectionThreads` | Which bounds survive any interleaving of threads and callbacks? | 2 threads (symmetric), 2 nodes, timeout 2, clock to 1, 3 asynchronous sends, all of them started at instant 0 |
| `ConnectionCallsEnd` | Does every call end when nodes may hang? | 1 thread, 2 nodes, 2 asynchronous or synchronous sends (retries included), timeout 3, clock to 12, no start after 3 |
| `ConnectionLockout` (violation) | Does a send that times out have tried a node? | 1 thread, 2 nodes, timeout 4 |
| `ConnectionHeaders` (violation) | Does a request carry the headers of the node it goes to? | same |
| `MarketplaceWorkload` | Are the lists safe when sends fail anywhere? | 4 assets each |
| `MarketplaceSales` (violation) | Does every sale pair what belongs together? | 3 assets each |
| `RFQService` | Do refusals, blocked and failing callbacks, and start-up races leave the service sound? | 2 RFQs, 1 slot, 2 clients, with timeouts or without, 2 copies; 97 thousand states |
| `TransactionBuilder` | Do ids and signatures fit what is posted, however a builder is used? | 2 keys, 1 spendable output, 2 operations (one that spends, one that does not), 2 inputs, 1 output, 2 transactions |
| `RFQLost` (violation) | Does every callback hear how its call ended? | 2 RFQs, 1 slot, 2 clients |
| `AnonCreds` | Do accumulator, deltas and witness implement the log of members, and are exactly the proofs accepted that are in order? | 2 credentials, ledger of 3, 1 lost delta, integers -8 to 7, 4 sets of values, 5 sequences of requests, 2 credential requests, 2 attempts on a signature, 1 common declaration of the prover, 2 proofs; 1.8 million states |
| `Handles` | Does a caller know what it owns, and whose error it reads? | all functions, 2 threads, 2 handles of a type; 97 thousand states |

Why the bounds are enough. *Connection:* two nodes make choice, failover and swapped headers possible; two threads make every pairwise race
possible. A timeout of 6 gives a cap of 3 and, with a delay of 2 in five bits, the back-offs 2, 3, 3 and then, from the count 3 on, one that has overflowed, which
the runs' clocks reach; a timeout of 2 gives a cap of 1, which the second charge would exceed uncapped. In `ConnectionThreads` a request that fails and
two sends that reconnect at once make two sorts overlap and all of the bookkeeping interleave with itself. The clock moves once there, between any two accesses, so
that what is written may be one instant old; `BackoffIsBounded` is the same claim for any clock. The nodes' error codes, which need a deeper stack, are in
`ConnectionCallsEnd`. There no call starts, or starts over, after instant 3, so
that a budget which a probe renews at the latest possible instant is spent, and a last request has timed out, before the clock stops at 12; a call that
still ran then would be reported. Deadlock checking is off in all runs because the applications end. *Marketplace:* with 4 assets a list can lose its first, its
last or a middle entry, and the sixth loop runs once (20 % rounded up). *RFQ:* one slot and two RFQs make the second wait for the
first one's callback; OkHttp's limit of five needs five more RFQs for the same situation. Two clients are start-up's, and one that
a reconnect builds while calls are on the old one. *Builder:* two transactions are one that is kept and one that is signed over it; with two inputs the second transaction may hold one
more than the first, and an input may belong to someone other than the signer. CREATE and INTEREST stand for the operations without and with
spent outputs in the digest. *AnonCreds:* a ledger of 3 is
the initial registry and two changes, enough for a revocation and a recovery of the holder, for the other index to join, and for a delta that is missing
between two others; the holder has the second index so that the other one's tail, shifted, lies beyond
number L+1 and is seen only by a test that looks there. With every request the holder passes registry and witness or not, and the verifier has
a registry or none. The value sets are the right one and one for
each way a set can differ from the key; the sequences pair requests that the prover refuses early, refuses late, fulfils, or that reveal the
common attribute; two proofs from one builder reach the verifier that remembers. Integers of four bits have the same ends to wrap around at as
integers of 32, and `PredicateVerdict` is proved for any width. *Handles:* two threads suffice because a call touches only its own slot and its own
handles; two handles of a type let one be consumed while another lives.

Scope of the connection runs. `EarliestFirst`, `RespectsBackoff`, `PostsToCurrentNode` and `BackoffNeverShortens` are claims about one calling thread, and
false with two: a sort that is raced loses nodes and chooses late ones; of two threads that charge one node at a time the slower one writes the
earlier retry time over the later; the budget shrinks when an old clock reading is written late. What then remains is `Bounded`: it limits from above, and every
such update is old, never ahead of its time. `BackoffNeverShortens` exempts the counts whose delay overflows: there the minimum lets a negative or zero delay
through, and a node that keeps failing is probed without a pause. `PostsToCurrentNode` needs synchronous sends, because a late
answer of an asynchronous one leads to the counterexample of `ConnectionHeaders`, and nodes that answer 200 or not at all, because an
error code sets `isConnected` before it is looked at, with the same effect; and one `setup()`, because a second one, made while the driver is
connected, changes the headers and keeps the client that adds the old ones.

`CallsEnd` has two exceptions, both in the code. A client whose timeout comes out as exactly 0 has no timeout, and a call on it may hang. And
a synchronous send (or `validateTransaction`) whose POST fails calls itself again; the probe that precedes the next POST renews the budget, so that with a node that
answers every probe and fails every POST the recursion never ends (until the stack overflows). The property says that a call ends or reaches that point (`again`), so
this kind of node is the only one that keeps a call running; asynchronous calls never reach it.

Scope of the verdicts. `AcceptedNotRevoked` is about proofs that carry a non-revocation part. `VerdictExact` covers the others too, but what it calls in order says
nothing of the registry for them: an application that must know whether a credential is revoked has to look for the part itself.

### What the violations show
- `TriesBeforeTimeout`: `setup` connects, an asynchronous send returns, its request fails later and sets `isConnected` to false; after a pause longer
  than the timeout the next send charges the node, finds the budget of the last success spent, and throws "Couldn't connect to any given nodes"
  without a single request. It stays so for every later send, since only a success renews the budget.
- `HeadersFollowNode`: an asynchronous request fails; the next send reconnects; while it waits or chooses, the answer of an earlier request
  arrives and sets `isConnected`; `connect` points the URLs to the new node and keeps the old client, whose interceptor adds the headers configured
  for the old node.
- `SalesMatch`: one failed advertisement, then sale *i* names the advertisement of asset *i+1*.
- `CallbackTold`: `onFailure` calls no method of the callback.

## 4. Fairness
- `ConnectionManager!FairSpec`: weak fairness of the clock, of every runnable thread (`Proceeds`) and of a request whose timeout has passed
  (`TimesOut`). A node need never answer. The scheduler, `System.currentTimeMillis` and OkHttp's timeouts give exactly this. A thread that
  waits on a client with timeout 0 waits for ever, and `CallsEnd` names that exception (`due[s] = Never`). That a synchronous send which fails starts over
  needs no fairness and no bound: `CallsEnd` accepts the point where it does.
- `RFQService!FairSpec`: web threads run (weak; `Moves`), except that a GET on a client without timeouts may last for ever; a reconnect that probes
  for ever gives up (strong fairness of `GiveUp`: the budget that `ConnectionManager` models ends it, which `CallsEnd` checks); a running call on a client with
  timeouts ends, by its timeout if by nothing else, and so does a `get()` on the producer, by its delivery timeout (weak; `Ends`). The broker need not append
  anything, and a call on a client without timeouts need not end: `RequestsEnd` exempts an RFQ that stays on such a client for ever, and no other.
- No other run needs fairness: the libraries promise nothing about when they are called.

## 5. What is proved
All theorems are for every value of the constants under the named assumptions of the modules (which TLC evaluates in every run).

- `ConnectionManager_proofs`. `TypeCorrect`: `TypeOK` is inductive; its content is that `Affordable` keeps a negative timeout
  out of a client, and that a method that keeps the books puts a node back into a slot there is (`EditOK`).
  `BackoffIsBounded` holds for any threads and any `Width`: the strengthening `BoundInv` adds to the shared fields what is on its way to them (`HeldInv`): a delay that was read
  is at most the cap, a retry time or a budget that was computed is at most that much ahead of *now*, and time only makes it older.
  `BackoffNeverShortensHolds` assumes a single sender (`OneThread`). Its invariant `DelayInv` relates each node's retry time to its count: as long as the delay of the count does
  not overflow, the retry time lies at most the delay ahead of now (`Earned`), and so does the one about to be written (`FreshInv`); with
  `WidthAssumption` (doubling never makes the exact product smaller) each charge then moves it back.
  `ChoosesEarliest` and `WaitsItsTime` rest on `ListInv` (with one sender no sort is stirred or raced, every node is listed, and what is put back is what stands
  there) and `ChoiceInv`: from the sort to the end of the wait the chosen node has the least retry time, it waits for that, and it is probed only afterwards; callbacks
  and the clock touch neither.
  `OneThreadNeverCrashes` follows from `CrashInv`: what the bookkeeping looks up is a node, hence in the list.
  `PostsWhereItProbed` assumes what `Undisturbed` names: one thread, synchronous sends, no error codes, one `setup()`. Its invariant `AimInv` says that while
  the thread looks for a node (`Seeks`) the driver is not connected, so that the client is built anew for the node that is found, and that a connected driver is `Aimed`
  (URLs, headers and current node agree) up to the last step of the credit. TLC finds a counterexample when any of the last three hypotheses is dropped (section 3).
- `Marketplace_proofs`. The invariant `Inv` joins `Control` (the counters' ranges), `Lists` (every list holds ids of its own operation and party, in
  strictly rising iteration, none from an iteration not yet begun: `Filled`), `Returning` (the sixth loop returns only a sale that is there), `Sources` (each
  transaction sent spends what the right list holds at the transaction's own iteration) and `OfferForEverySale`. That an output is spent only once
  needs both that the iteration determines the entry (`Sources`) and that the entries of a list differ (`Lists`). From `Inv` follow `TypeCorrect`, `OffersForSales`,
  `NothingSpentTwice` and `SpentByOwners`. `AlignedWhileSent` needs `AlignedInv` besides: while no send has failed, a list has exactly as many entries as
  iterations of its loop have ended (`Complete`), what stands at one position of the lists belongs together (`Paired`), and so does what each transaction
  names (`Consistent`). The case where an access lies beyond a list's end cannot occur then, which is a lemma of its own (`CompleteRuns`).
- `RFQService_proofs`. `Inv` strengthens `TypeOK` by `Connected` (where `isConnected` holds, and where a thread is about to probe or to post, there is a
  client), `Waiting` (what waits in a dispatcher has a call) and `Untouched` (an RFQ that has not been posted has no call and no record). From it
  `TypeCorrect` (no call goes to a client that does not exist) and `RefusedStaysUnpublished`. `NoSlotIdle` needs `DispatchInv`: what waits in a dispatcher is a
  call of that client that does not run, each once (`QueueInv`), and no client runs more calls than it has slots (`SlotInv`). Without the former a call let in
  could already hold a slot, and the count of taken slots, which is a cardinality, would go down by one.
- `TransactionBuilder_proofs`. `Inv` joins `TypeOK`, `IdMatchesBody` and `Latest`: the last transaction, if signed, has its own contents, as they are *now*,
  as id. `Latest` is what a send needs; it survives because an input that is added later lies beyond the inputs of the transaction, and because
  every signature belongs to a new last transaction. `TypeCorrect` and `IdsMatch` follow. `OnlySigningRewritesHolds` needs from `TypeOK` that no
  transaction holds more inputs than the list: the contents are a prefix that `Append` leaves alone. `FirstUse` has an invariant of its own,
  `FirstSigned`: before the first build no input has a fulfilment, and while the first transaction is the only one its message, if any, is the
  digest of its contents with the fulfilments taken out, and its first input carries its signature. That a reused builder's second transaction does not verify is no contradiction: `AsTransactionsDoes` is about the first.
- `Registry_proofs`. `RegistryInv` joins `RegistryTypeOK`, `LedgerInv` (as far as the ledger is intact every accumulator is a sum of tails, each once, and each
  delta the difference of its neighbours, with disjoint sets; the issuer's own accumulator extends it) and `ReaderInv` (the pending delta is the difference
  between the base and what was seen; the witness is the sum for its position). Merging needs the sets disjoint, or a credential revoked and recovered
  would stay in both. `AccumulatorHolds`, `MergeHolds`, `WitnessHolds`, `ShowsHolds` follow; `Implements` maps every step to one of `MembershipLog`, or a stutter.
- `Predicates_proofs`. `PredicateVerdict`: for integers of any width, prover and verifier agree on a predicate exactly when it is true and its distance fits,
  or its bound lies off the end. `VerifiesExactly` adds the four squares: what verifies is true without further hypothesis; that what is true verifies needs
  `FourSquaresFound`, Lagrange's theorem for the integers there are.
- `AnonCreds_proofs`. `CredImplementsRegistry`: the composition moves the registry only as `Registry` does, so its theorems carry over (`CredImplementsLog`).
  `CredInv` joins `SessionType`, `SessionInv` (what rests while there is no session), `ListsInv` (no list of a prover holds `Bad`, and a sub proof carries the witness
  there is: `Genuine`) and `VerdictInv`: an accepted proof that carries a non-revocation part (`Shows`), of a verifier with a registry, implies the pairing
  equation for that registry. For the verifier recomputed the part, and its list, which is the prover's, has no `Bad`;
  `ShowsHolds` and `AccumulatorHolds` turn that into `AcceptedNotRevoked`. Also `CredTypesHold` and `RetryHolds`.
  What verify decides rests on a second invariant, `PresentationInv`: every sub proof answers the request whose number it carries (`Answers`), the list that
  is hashed holds the items of each, in place, and more of them exactly if a request was refused half-way (`Filed`, `Orphan`), and the `m_hat` a verifier
  keeps is that of a proof it has met (`HatInv`). `ListsAgree` compares the two lists, `HatsAgree` the hats, `SubVerifies` each sub proof with the memberships
  and the integers. Hence `AcceptedInOrder` (no other proof is accepted) and, with `FourSquaresFound`, `VerdictHolds` (and every such proof is). That hypothesis
  is the one fact taken from arithmetic: it is true for every `Half`, TLC evaluates it for the instance (`LagrangeAssumption` in `MCAnonCreds`), and the
  prover, which has no induction, cannot derive it.
- `Handles_proofs`. From `CallsAssumption`, which TLC evaluates for the actual functions, `HandlesInv` (types, books, messages) is inductive for any set of
  well-formed functions: refusals with an `InvalidParam` code come before the first take-over, other failures after the last. Hence `TypeCorrect`, `OwnershipHolds`,
  `MessagesMatch`, `KeptHolds`; `CodesRoundTrip` is about the conversions of `errors/mod`. `OnlyDeltaIsMisread` is about the actual table of functions
  (`Calls = UrsaCalls`): each word the table is made of reads its handle as the type it was made of (`Straight`), so that a function does (`Honest`), the two
  conversions of a delta apart; it goes through the table group by group, for any threads and objects.

Every safety invariant and action property that a passing run checks is stated by one of these theorems. Only model-checked: liveness (`CallsEnd`,
`RequestsEnd`), which is out of the prover's reach, as are ENABLED, results of recursive definitions for every input (induction over data) and anything
about RECURSIVE operators, of which there are none here. The four properties of the runs that expect a violation are false of the code, and have nothing to
prove. Of the constants beyond their types the theorems assume only what is named above: `OneThread`, `Undisturbed`, `Calls = UrsaCalls`
and `FourSquaresFound`; `AttrsAssumption` also says that a request's predicates compare with an i32, as the type of their field does.

## 6. Plan
Done, in this order: connection manager, workload, RFQ service, transaction builder, revocation registry with its abstract log,
anonymous credentials, C interface, with their theorems.

Next:
1. `CapabilityMediation`: threads that obtain pool connections, the cache, rules; a run for the pool's bound.
2. `SupplierConsumer`: poll, filter, log, asynchronous commit, restart, duplicates; an abstract "every request is handled at least once" that it
   implements, composed with the producer's copies.
3. `FailoverClient`: what a caller of the driver is promised (a call that ends sent, or timed out), which `ConnectionManager` with one
   thread implements under a refinement mapping.
4. `GroupSignature`: the exponents of the group elements modulo a small prime, a pairing as their product; signatures of members verify and
   open to their signer, unless a random value is degenerate.
5. Credentials without revocation and several credentials in one proof; BLS multi-signatures over exponents.
6. `Base58` and the canonical key order, as recursive functions against reference definitions.
7. Proofs: the safety half of the liveness properties (how many charges a budget allows; that a submission which ended stays ended), and which of
   the theorems about one thread would hold of several if the bookkeeping ran under a lock.

## 7. Not modelled
The result of `validateTransaction`, the WebSocket monitor, the query APIs, serialisation (amounts, conditions, type adapters), key handling, console output, the workload's operations
that `main` never calls, the group-signature program (planned), the two applications around Stardog and Kafka (planned). Of Ursa, credentials issued without
revocation (`sign_credential`) and several credentials in one proof, which repeat the control that is modelled; the choice of random
numbers and primes, and everything below the group operations; the ed25519 interface, signatures, key exchange and encryption, which keep no state; the WebAssembly
interface, where generated code owns the objects; `libzmix`. `PROJECT.json` lists each with its reason, and with every hazard the properties that address it.
