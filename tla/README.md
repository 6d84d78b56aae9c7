# TLA+ models of fabric-chaincode-rs

This directory holds a verification development of the Rust chaincode shim in `src/`: TLA+
modules that model its parts, TLC configurations that check them on small instances, and
TLAPS proofs, for every size, of every safety property that the passing runs check and
of both refinements. All paths below are relative to the repository (`src/`).

## 1. The system and its parts

A chaincode is a gRPC server. Peers dial it, and on each connection one bidirectional stream
carries the shim protocol: the shim registers, the peer starts transactions, the chaincode
reads and writes the ledger by asking the peer, and each transaction ends with one
COMPLETED or ERROR.

| Part | State | Operations | Interacts with |
|---|---|---|---|
| Server (`fabric-shim/src/server.rs`) | chaincode id, address, listener | `from_env`, `new`, `start`, `serve_with_listener`, `connect`, `shutdown_signal` | tonic; spawns one connection per peer stream |
| Receive loop (`handler.rs`, `run_connection`) | `ConnState`, the inbound stream | register, the arms of the match on (state, type) | sends on the outbound channel, spawns tasks, routes replies |
| Peer link (`handler.rs`, `PeerLink`) | outbound `mpsc` channel (64), map of pending calls | `request`, `send`, `route_response`, `drop_pending` | shared by the loop, all tasks, all stubs and iterators |
| Transaction task (`handler.rs`, `spawn_transaction`) | input, event slot | decode, answer GetMetadata, run the chaincode in an inner task, drop the pending entry, send the verdict | the chaincode, the peer link |
| Stub (`stub.rs`) | gate (mutex), event slot, proposal fields | ledger calls, composite keys, private data, events, `invoke_chaincode` | the peer link, under the gate |
| Iterators (`iterators.rs`) | batch, `has_more`, `closed` | `next`, `close`, `collect_remaining` | the stub core (gate and link) |
| Contract macros (`fabric-shim-macros`, with `contract.rs`, `metadata.rs`) | at compile time: errors and transactions collected; none at run time | read the impl and the structs; generated: dispatch by name, argument parsing, schemas | the stub, `Chaincode::metadata` |
| Example chaincode (`examples/asset-transfer`) | assets in the ledger | nine transactions | the stub; other transactions through the ledger |
| Responses and errors (`response.rs`, `error.rs`), generated protocol code, the benchmark | | | |

What is hard here:

* *Concurrency.* Per connection there is one loop, two tasks per transaction, and any number
  of futures or further tasks of the chaincode, all sharing a map and one bounded channel.
* *Cancellation.* Every ledger call is a future that the chaincode may drop at its await
  points (a timeout, a lost `select!`, a panic in a sibling).
* *Failure.* The peer may close the stream, the connection may break, a reply may be late,
  missing, an ERROR, or not decode.
* *Back pressure.* The loop itself sends (echoes, rejections) on the channel that its
  reading has to keep moving.
* *Shutdown.* It has to wait for work whose end depends on peers.
* *Stale reads.* A chaincode reads a key, awaits, and writes it back, while transactions on
  other tasks do the same.
* *Names.* Two libraries, the macros here and serde, derive the names of JSON properties from
  the same attributes and have to agree.

What makes the parts correct: a reply reaches the call it answers and no other; one request
of a transaction is outstanding at a time; nothing of a finished transaction stays in the
map; a transaction gets exactly one verdict, last; calls, echoes and transactions come to an
end; queries deliver their records once, in order and completely; composite keys can be
split and ranged over; pages add up to the range; private data stays private; a shutdown
drains; the macros reject what they cannot generate code for, and describe what the code
accepts and writes; transactions of the example take effect at once or not at all. Section 5 says which
of these hold, and where the code and its documentation disagree.

## 2. Modules

| Module | Models | Extends |
|---|---|---|
| `ShimConnection` | one peer connection: loop, link, tasks, calls; the peer and the stream as environment | |
| `TxSession` | what a connection promises, abstractly | |
| `ShimConnectionProofs` | the inductive invariant of the connection and the TLAPS proofs | `ShimConnection` |
| `ShimSessionProofs` | handshake and verdicts, the proof that a connection implements `TxSession`, and that nothing is lost | `ShimConnectionProofs` |
| `QueryIterator` | the iterators of one transaction | |
| `QueryIteratorProofs` | its inductive invariant and the TLAPS proofs | `QueryIterator` |
| `CompositeKey` | composite keys and key ranges, as operators | |
| `StubLedger` | the ledger API over public state and private collections | `CompositeKey` |
| `StubLedgerProofs` | composite keys, the order of keys, pages: the TLAPS proofs | `StubLedger`, `OrderFacts` |
| `ChaincodeServer` | configuration, connections, graceful shutdown | |
| `ChaincodeServerProofs` | its inductive invariant and the TLAPS proofs | `ChaincodeServer` |
| `Names` | names as words and marks; the case conversions of heck and of serde | |
| `ContractMacro` | what `#[contract]` and `#[derive(DataType)]` read and produce, as operators | `Names` |
| `ContractApi` | the expansion of a contract item by item, then the generated metadata and dispatch | `ContractMacro` |
| `ContractApiProofs` | its inductive invariant and the TLAPS proofs | `ContractApi`, `OrderFacts` |
| `OrderFacts` | least numbers, induction and recursion on the natural numbers, for the proofs | |
| `AssetData` | assets, ledger values and requests of the example chaincode | |
| `AssetRegistry` | what the example promises its clients, abstractly | `AssetData` |
| `AssetTransfer` | the transactions of the example, call by call, several at a time | `AssetData` |
| `AssetTransferProofs` | its inductive invariant and the TLAPS proofs | `AssetTransfer` |
| `MCShimConnection`, `MCQueryIterator`, `MCStubLedger`, `MCContractApi`, `MCAssetTransfer` | instances for TLC | the modules they name |

### ShimConnection

The state is that of the code: `connState` and `loop` (with `held`, the message being sent)
are `run_connection`; `out` is the `mpsc` channel; `pending` is the map, whose value is the
call that owns the oneshot sender; `reply[c]` is what was sent on the oneshot of call `c`;
`task`, `slot`, `final` are a transaction's task, event slot and answer; `call[c]` is where
a ledger call is (`gate`, `send`, `wait`, or how it ended). Every await point is a place
where a step ends: waiting for the gate, for room in the channel, for the oneshot, for the
inner task, for the stream. What happens between two await points, or under the `std` mutex
of the map, is one action. `LinkSend` is `out.send(..).await`: it needs room, and succeeds
trivially, with an error, once the receiving half is gone.

* *A cancelled call* (`CallCancelled`, and the dropped futures of `HandlerEnds`) releases the
  gate and its receiver. Its pending entry stays: no code removes it on drop.
* *A handler* may return or panic at any time (`HandlerEnds`). With `Detached` it may leave
  calls running in tasks it has spawned, which keep the stub core alive.
* *The peer* reads in order and answers each request once, with RESPONSE or ERROR, in any
  order among transactions. `Orderly = FALSE` lets it start transactions before READY, and
  `MaxStrays` lets it send messages out of turn, which name any transaction, running or not,
  or none; only its keepalives never name one, as those of Fabric do not. It may close its
  side (`PeerCloses`), and the
  connection may break (`StreamBreaks`), which loses what is in the channel and a suffix of
  what is unread.

Messages keep their type, their transaction and, as a ghost, the call they belong to. The
shim's actions never read that ghost: `route_response` uses the (channel, transaction) pair
as the code does.

### QueryIterator

`batch`, `has_more` and `closed` are the fields of `QueryIter`; `step` is where an operation
is. `link` stands for the gate and the pending entry as `ShimConnection` establishes them:
one request at a time; a call that was cancelled occupies the entry until its reply comes,
and calls made meanwhile are refused. A call that is cancelled between the entry and the
channel, whose entry stays until the transaction ends, is in `ShimConnection` only: here it
would have the later calls of its transaction fail, as `RequestRefused` does. The peer cuts a query into batches of any size. The
ghost `fault` records that an answer with records was lost (undecodable, or given up), or
that a close was not carried out.

### CompositeKey and StubLedger

Strings are sequences of code points, so that splitting, prefixes and the order of keys are
computed and not assumed; this is the one place where the contents of strings matter.
`StubLedger` applies the methods of the stub to a set of (collection, key) entries: reads,
writes, deletes and purges, with their checks on keys and collections, ranges and partial
composite key queries, public and private. A range may also be read page by page
(`FirstPage`, `NextPage`), each page with the bookmark that the last one returned; any other
call ends such a walk in the model, so the ledger is the same for all of its pages. Any call
may fail at the peer. `called` is the last call with the keys it was answered with. Values are left
out.

### ChaincodeServer

A connection is reduced to what keeps its response stream open: the receive loop, and every
task, each of which holds a sender of the outbound channel. Tasks that wait for a reply when
the receive loop is gone wait for ever, as `ConnHang` shows. The graceful shutdown of tonic
is external: it stops accepting and returns when all connections have ended.

### Names, ContractMacro and ContractApi

A name is a sequence of words (in lower case, upper case or with a capital) and marks, which
is what heck and serde tell apart in an identifier; it is never spelled out.

`ContractMacro` has what the macros read: the arguments of `#[contract]`, the methods with
their attributes, parameters and results, the structs with their serde attributes, each with
the malformed forms the code checks for. The form `#[transaction = ".."]`, which the code takes
without a look at its value, is a list without entries, and every receiver that the code takes
for `&self` is one (rustc refuses those that do not fit the generated call). `TransactionOf` and `derive_data_type` are what is
generated; `serde_string_value` is how the macro looks for `rename` and `rename_all`. serde
itself is external (`SerdeJson`): the names and the required properties that it derives from
the same struct.

`ContractApi` expands one contract and serves one request. `Expand` makes the checks of the
whole impl, `ReadItem` reads one item and adds to `errors` or `txs`, `Generate` ends in a
compile error if there are any. GetMetadata walks the graph of structs as the generated
`components` functions do, with an explicit stack for their recursion (`stack`), a cursor over
the parameters and results of the transactions (`tx`, `arg`) and the map of schemas (`out`);
any other request goes through `invoke`: the last part of its name, the first matching arm,
the number of arguments, the arguments in order, the method, the payload. A schema is
represented by the struct it describes, a raw argument by the set of types that accept it.

### AssetRegistry and AssetTransfer

`tx[t]` is a transaction of the example: how far its method is (`phase`), the value it has
read, the asset it is about to put, its read and write sets, its event and its result. A step
ends at each ledger call, since each is an await. Every call may fail (`CallFails`), and a
proposal may not decode (`NewFails`). The peer is external: a read returns the committed value
and records its version; writes are not visible to reads; `Commits` applies the write set if
every version read is still current, and `Invalidated` drops it otherwise. A query only reads
and is not ordered. What is stored at first is missing, does not decode, or is an asset under
its own identifier: the chaincode writes no other, and the ledger is its own namespace.

`AssetRegistry` has one action per operation that changes assets, on a map of assets, with the
result and the event that the operation has in that state. The refinement maps `state` to the
map, and a transaction to its outcome once it is valid.

## 3. Runs

Passing runs:

| Run | Instance | Shows |
|---|---|---|
| `ConnSafety` | 2 channels with one transaction id, 2 calls each, capacity 1, cancellation, panics, close and break | `TypeOK`, `NoCrossTalk`, `OneInFlight`, `NoPendingLeak`, `RefusedAfterCancel`; `ImplementsSession`: refinement of `TxSession` |
| `ConnStray` | 2 transactions, a peer that starts them too early and sends a message out of turn about any of them, events | `VerdictIsLast`, `VerdictsAccounted`, `RunsAfterHandshake`, `NoTxLost` |
| `ConnLive` | 1 transaction, 2 calls (cancelled, or left behind by the handler), 2 keepalives, capacity 1, close and break, fair | `EveryTxAnswered`, `EveryCallEnds`, `EveryPingEchoed`, `LoopEndsWithStream`; `NoLostWakeup`, `PingsAccounted`; `ClosedMeansOver` with calls that outlive the handler |
| `Iterators` | 2 queries of up to 2 records, one undecodable, failures, cancellation, competing for the gate, fair | `TypeOK`, `NoRecordTwice`, `NoRecordLost`, `EndMeansAll`, `CollectsAll`, `ClosedMeansReleased`, `NothingAfterClose`, `OperationsEnd` |
| `Ledger` | 7 components (empty, reserved characters, one extending another), 2 attributes, 3 simple keys, 2 collection names (one empty), pages of 1 and 2, 2 entries | `RoundTrip`, `PartialQueryExact`, `PagesExact`, `Isolation` |
| `ServerDrain` | 2 connections that do not last for ever, 2 tasks each, fair | `ExitDrains`, `ExitsAfterPeers` |
| `ContractCalls` | graphs of 3 structs with up to 2 fields (one of them up to 1), 3 ways to name them; a struct with all mixes of serde attributes and rules; calls on pairs of methods; pairs of well and badly formed methods | `TypeOK`, `MethodsAccounted`, `FieldsMatch`, `RefsResolve`, `RecursionBounded`, `ListedCallsRun` |
| `Assets` | 3 transactions on one asset (and on the empty identifier and a second seed), which is missing, corrupt or there at first; 11 requests | `TypeOK`, `NoLostUpdate`; `ImplementsRegistry`: refinement of `AssetRegistry` |

Deadlock checking is off where a system may simply stop: a connection whose stream has ended,
a transaction with no call left, a server that has exited, a request that is answered.

*Bounds.* Two transactions that differ in the channel only are what routing by the pair is
about. Two calls of one transaction are enough for a cancelled call, its late reply and a
successor, or for a call that outlives its handler next to one that does not. Two records
make a query of one, two or three batches (the last may be empty). Capacity 1 makes every
send compete with every other. Two keepalives let one wait unread while the other is being
echoed. Two entries with pages of one key make a walk that has to use a bookmark, and pages of
two the boundary at which a full page has none. Three structs with up to two fields each give
self-references, cycles through one and two others, and diamonds. Pairs of methods show that
an error in one neither hides the other nor its error. Three transactions are one more than a
read-write conflict needs: a key can be changed and changed back under a reader. The
transactions of the example are interchangeable, so `Assets` uses symmetry (it has no liveness
property). The cases the bounds are chosen for do happen: each property is also
run against a plausible mistake in the code (`mutants` in `PROJECT.json`, the definitions
`Mutant_...`), and each of these runs fails.

*Fairness.* Weak fairness for the loop, each task and each call: the runtime polls what can
make progress, and the `mpsc` channel queues its senders. Waiting for the gate is strongly
fair in `QueryIterator`, since the tokio mutex is first-come-first-served. The peer is
assumed to read, to finish the handshake and to answer; a handler with no call outstanding
returns. Nothing is assumed about cancellation, about the end of the stream or about new
transactions. In `ServerDrain` every connection is lost at some time (a peer stops or is
stopped); `ServerShutdown` is what happens without that assumption.

## 4. Proofs

`ShimConnectionProofs` proves, for any sets of channels, transactions, calls and events, any
capacity and any of the switches:

* `TypeCorrect`: `Spec => []TypeOK`;
* `Invariance`: `Spec => []Inv`, from which `NeverCrossTalk`, `AlwaysOneInFlight`,
  `NeverPendingLeak`, `AlwaysClosedMeansOver` and `AlwaysRefusedAfterCancel` follow.

The assumptions are the named ones of `ShimConnection`: the capacity is a positive number,
the switches are Booleans, and the "none" values are not values.

*The argument.* None of the five is inductive alone. That a reply reaches its own call needs
`TransitIsPending`: while the handler of a transaction runs, the only call of it whose
request or reply is in transit is the one in `pending`. This is why a cancelled call must
keep its entry: removing it would let a successor register and then receive the late reply
(the mutant of `CallCancelled` does this). Keeping `TransitIsPending` needs

* `OneCopy`: a request is in the channel, at the peer or answered, in one copy, so that
  reading its reply ends its transit;
* `DispatchedOnce` and `CallsFollowTask`: a task starts with all its calls idle, and no call
  is active after its handler if none was left behind;
* `GateExclusive` and `CallHistory`: one call at a time is between registration and end, and
  what its state says of its entry and reply;
* `PendingEntries` and `WaitingIsPending`: an entry belongs to a call of its transaction that
  is registered or cancelled, and a waiting call without reply has an entry unless its
  transaction has dropped it;
* `WellFormed`: the messages that carry a call are requests and replies, and a reply names
  the transaction of its call.

The proof is by action: `...Type`, `...Wire` (`OneCopy`), `...Dispatch` and `...Control`
lemmas for the loop, the tasks, the calls, the chaincode and the peer, combined in `InvStep`.

`AssetTransferProofs` proves, for any sets of transactions, identifiers, owners and requests
and any sequence of seeds:

* `TypeCorrect`: `Spec => []TypeOK`;
* `NoUpdateLost`: `Spec => NoLostUpdate`;
* `Refinement`: `Spec => ImplementsRegistry`, from `Invariance`: `Spec => []IInv`.

The assumptions are those of `AssetData` and `AssetTransfer`: the seeds are assets with
different, non-empty identifiers (as those of `init_ledger` are), the empty identifier is an
identifier, and the markers are not values.

*The argument.* A transaction that commits has only shown that the versions it has read are
current. `IInv` makes that a statement about values and writes:

* `ReadOK`: as long as the version a transaction has read is the version of its key, the value
  it has read is the value of the key. It survives the commits of others because a key that is
  written gets the new height as its version, which no one has read yet, and a key that is
  deleted gets version 0, which stands for one value only (`LedgerOK`: version 0 if and only if
  missing, and no version above the height).
* `ToPut` and `Written`: the asset to put, the result, the event and the write set are what
  the request makes of the value read, under the key of the request and no other.
* `SeedsPut`: `init_ledger` has written the first `puts` seeds and nothing else; this needs
  the seeds to have different identifiers.

Every step but a commit is a stutter of the registry (`Pending`, shown with the invariant, one
lemma per operation). At a commit, `ReadOK` gives `NoLostUpdate`, and with `ToPut` and
`Written` the guard and the effect of the operation of `AssetRegistry` (`CommitImplements`).

`ShimSessionProofs` extends `Inv` for what is said to the peer about a transaction, again for
any values of the constants:

* `AlwaysRunsAfterHandshake`: `Spec => []RunsAfterHandshake`;
* `AlwaysVerdictIsLast`: `Spec => []VerdictIsLast`;
* `AlwaysVerdictsAccounted`: `Spec => []VerdictsAccounted`;
* `SessionRefinement`: `ASSUME ~Detached PROVE Spec => ImplementsSession`;
* `NeverLostWakeup`: `Spec => []NoLostWakeup`;
* `NeverTxLost`: `Spec => []NoTxLost`;
* `AlwaysPingsAccounted`: `Spec => []PingsAccounted`.

*The argument.* `SInv` adds three parts to `Inv`. `Handshake`: tasks are spawned in state
`Ready` only, which a READY of the peer has caused, and REGISTER is sent and read once, so the
peer does not begin again. `Keys`: which transaction a message that waits to be sent is about.
`Verdicts`: of each transaction that is not interrupted there is at most one verdict, in the
channel or read, nothing about it comes after that, and it is settled: its task has answered,
or the loop has ended by rejecting it. A transaction is interrupted when the loop answers
ERROR to a message out of turn that names it while it has a task; the loop returns then, so
this happens to one transaction at most, and it stays interrupted. `VerdictsAccounted` covers
those too: the verdicts said are counted through the channel and the peer's reads, and each
step that says one is the one that ends a task or, with its rejection, the loop. The refinement maps
the pending map, the channels and the calls of a transaction to its one outstanding request;
each action of the loop, the tasks, the calls and the peer is shown to be a step of
`TxSession` or a stutter. The hypothesis `~Detached` is needed: a call that the chaincode has
left behind in a task of its own may still send its request when the transaction has answered,
which `TxSession` excludes. `ConnSafety` checks the same refinement, with the same setting.

`NeverLostWakeup`, `NeverTxLost` and `AlwaysPingsAccounted` are the safety that the liveness properties rest on, for every size: as long
as the loop reads and the stream is not broken, whatever somebody waits for is on its way. A
call on its oneshot has its request or reply in transit to its own entry; a transaction is
unread, has a task, or has a verdict in the channel or at the peer; the keepalives that the
peer has sent are those it has read back and those that are unread, being echoed or in the
channel, each counted once. They hold also with calls left behind by a handler. `PInv` proves
them together. It adds `ToSend`, what the loop and a finishing task are about to send: the
echo must be a keepalive, and the answer of a task a verdict. From `Inv` it takes that a reply
that is read and routed elsewhere is not that of the waiting call (`PendingEntries`: the entry
belongs to a call of its own transaction), and that a transaction that is not started has no
task (`DispatchedOnce`); from `SInv` which transaction an answer names (`Keys`). The count of
keepalives follows the queues through `CountAppend` and `CountTail`. What fairness adds, that
what is on its way arrives, stays with `ConnLive`.

`QueryIteratorProofs` proves, for any number of queries and of records, `TypeCorrect`,
`RecordsOnce` (`NoRecordTwice`), `RecordsKept` (`NoRecordLost`), `EndIsTheEnd` (`EndMeansAll`),
`CollectIsComplete` (`CollectsAll`), `ClosedIsReleased` (`ClosedMeansReleased`) and `ClosedOnce`
(`NothingAfterClose`).

*The argument.* The records of an iterator are spread over what it has returned, the batch it
holds and the reply on its way. `RecordsOK` says that all of these together, in this order, are
strictly ascending and not behind the cursor of the peer, and that they are all of the records
the peer has handed out unless an answer was lost. `RequestOK` and `PlaceOK` tie the request in
flight to the operation that waits for it, and `has_more` to the cursor, also where
`collect_remaining` has gone on to close; `CloseOK` says that a close is asked for once, and
what has been released.

`ChaincodeServerProofs` proves `ShutdownIsGraceful` (`ExitDrains`) for any number of
connections and tasks: a connection that never was, or whose response stream has ended, has no
task left, and the server exits when every connection has ended or is lost.

`StubLedgerProofs` proves, for components, keys and collection names of any length, any number
of attributes, any number of entries and any page size:

* `SplitInvertsCreate`: `Spec => []RoundTrip`;
* `PartialQueryIsExact`: `Spec => []PartialQueryExact`;
* `PagesAddUp`: `Spec => []PagesExact`;
* `CollectionsAreIsolated`: `Spec => Isolation`.

The assumptions are those of `CompositeKey` and `StubLedger`: there is a code point besides 0,
strings are sequences of code points, page sizes are positive, and a key that begins with the
delimiter was made with `create_composite_key`.

*The argument.* `LedgerInv` says that every composite key is made of parts that passed
`validate_composite_component`, and that every public key is such a key or a simple one. The
rest is about strings. A key grows by one part and one delimiter at a time (`KeyIsChain`). No
part contains the delimiter, so a key is a prefix of another if and only if the object types
are equal and the attributes of the one begin those of the other (`KeyPrefix`), and reading a
part of a key leaves the scanner of `split_composite_key` between two parts (`PartOfKeyRead`,
`SplitOfKey`); here the parts must not be empty. No part contains U+10FFFF, so the range from
a key to the key followed by it has exactly the strings that begin with the key (`PrefixInRange`,
`RangeHasPrefix`). For the pages: the order of keys is a strict total order (`BelowTotal`,
`BelowTransitive`), so the keys of a finite set can be listed in order in one way only
(`HasListing`, `OneListing`); what a bookmark leaves of a range is the rest of its listing
(`RangeFromKey`, `RestIsListed`). `WalkInv` says that a walk that goes on has read the first n
keys of its range and has the next one as its bookmark.

`ContractApiProofs` proves, for any contract (any number of items, parameters, structs and
fields) and any request, `TypeCorrect`, `MethodsAreAccounted` (`MethodsAccounted`),
`CollectorEnds` (`RecursionBounded`), `DocumentIsClosed` (`RefsResolve`),
`SchemasAreSerdes` (`FieldsMatch`) and `ListedCallsAreRun` (`ListedCallsRun`).

*The argument.* `ReadOK`: after k items, the errors are those of the faulty ones, and there are
as many methods as items that were taken. `CollectOK` is what makes the collection of schemas
a search of a graph: the struct of each call of `components` on the stack has its schema
already, no two calls are for one identifier (which bounds the stack by the identifiers), and
a field of a struct that has a schema is registered, or a call that has yet to come to it is on
the stack. `CallOK` says why a call was refused.

`FieldsMatch` needs no invariant beyond `TypeOK`: it is about what two libraries make of one
struct. A key that is given at one place, with a value, and not behind an entry with
parentheses is what the macro's search finds and what serde applies (`SameValue`). In a
snake-case field name the words are at the odd places, for the words that heck finds and for
those that serde splits at its underscores alike (`OddSelected`, `SnakeWords`), so the case
conversions of the two join the same words in the same styles (`StyleOf`, `JoinedAgain`,
`SameRename`).

`OrderFacts` is what these proofs use for induction over data. The library's induction
theorems take an operator, which the provers cannot instantiate; `SetInduction` and
`FiniteRecursion` take a set and a function in its place.

Only model-checked: the liveness properties, since fairness is outside the prover's reach
(`EveryTxAnswered`, `EveryCallEnds`, `EveryPingEchoed`, `LoopEndsWithStream`, `OperationsEnd`,
`ExitsAfterPeers`). `ImplementsSession` with calls that outlive their handler is not claimed.
The runs that are expected to fail need no proof: a counterexample settles them.

## 5. Where code and documentation disagree

Each of these is a run that is expected to fail, with a counterexample:

* `ConnHang` (`StreamEndFailsCalls`). `ConnectionClosed` is documented as "the peer stream
  ended while a request was in flight". But the sender of the oneshot is in the pending map,
  the map is shared by the task that waits, and nothing clears it when the loop returns: the
  request waits for ever.
* `IterCollect` (`CollectReleases`). `collect_remaining` is said to close the iterator; an
  error before the end leaves the query open until the transaction ends.
* `ContractNames` (`SchemaMatches`). The schema is said always to match the JSON; components are
  keyed by the bare identifier of a struct, and of two structs with one identifier the second
  is described with the fields of the first.
* `ServerShutdown` (`ShutdownExits`). On SIGTERM the process is said to exit when the
  transactions in flight have finished; it exits when the peers have left.

Cancellation has a consequence that the documentation does not mention: calls on a stub
serialize, but after a cancelled one they are refused until its reply has come
(`RefusedAfterCancel`). Refusing is the safe thing to do; `NoCrossTalk` depends on it. It
depends as well on the handler being in charge: when the transaction has answered,
`drop_pending` has removed the entry, and of the calls left behind in other tasks one that
registers then may receive the late reply to another. `NoCrossTalk` is claimed of such calls
only while the handler runs.

A message out of turn that names a running transaction makes the loop answer ERROR for that
transaction and return, while its task goes on and sends its own answer: the transaction has
two verdicts, and the connection is over. The documentation promises nothing for a peer that
breaks the protocol, so this is not a disagreement; `VerdictIsLast` excepts the transaction by
name (`Interrupted`), and `VerdictsAccounted` says that it gets these two and no more.

`FieldsMatch` states agreement with serde for the attributes that both handle. It excepts, by
name, what they treat differently: identifiers that are raw or have leading or doubled
underscores, keys that are given twice or without a value (which serde refuses, but for
`rename(serialize = ..)`), keys that come after an entry with parentheses in their attribute,
and the rule `SCREAMING-KEBAB-CASE`. The
entries of serde that the macro ignores (`skip`, `flatten`, `default` and so on) are not in the
model. `ListedCallsRun` excepts names that two methods share or that
contain a colon, which the macro accepts.

## 6. Not modelled

* *Contents.* Message contents, wording and logging; values in the ledger of `StubLedger`; the
  JSON inside arguments and results; the decoding of the proposal (either it fails, or the
  stub is built); message size limits.
* *Stateless accessors* of the stub (transaction id, timestamp, creator and so on).
* *`invoke_chaincode`* is one more request of `ShimConnection`. How its nested answer decodes
  is a chain of conversions without state, and its effects are on the namespace of the callee.
* *Reuse of a transaction id* on one channel is excluded: a transaction is started once (the
  peer tracks its own transaction contexts).
* *Responses and errors* (`response.rs`, `error.rs`) are data; which error a call ends with
  is the state of the call in `ShimConnection`.
* *Generated protocol code* has no logic of its own.
* *The gateway benchmark, the fuzz targets and the scripts* are tools outside the library.

## 7. Plan

1. Connection, its abstract specification and its proofs (done).
2. Iterators, composite keys, the ledger API with private data and pages, server (done).
3. Contract layer (done): expansion of the macros, names against serde, metadata, dispatch.
4. The example chaincode with concurrent transactions, its abstract registry, and the proof
   that it implements it (done).
5. Proofs of the iterators, the server, the ledger, the contract layer, and of the refinement
   of `TxSession` (done).
6. Agreement with serde for fields of any number of words, and that the connection loses no
   wake-up, transaction or keepalive, proved for every size (done).
