---------------------------- MODULE AssetTransfer ---------------------------
(***************************************************************************)
(* The asset-transfer chaincode (examples/asset-transfer/src/main.rs) with *)
(* several transactions at a time: the server runs each one in a task of   *)
(* its own, and every ledger call is an await at which others run.  The    *)
(* peer (external) simulates: a read is of the committed state and enters  *)
(* its version in the read set, a write enters the write set and is not    *)
(* seen by reads.  A transaction that returns Ok takes effect later, if    *)
(* what it has read is still current, and has no effect otherwise.         *)
(***************************************************************************)
EXTENDS AssetData

CONSTANTS
    Txs,        \* transactions
    Requests,   \* the requests of clients
    Stored,     \* what keys may hold at first
    NoRequest, NoOutcome, Unread, Unwritten

ASSUME RequestsAssumption == Requests \subseteq Request /\ Stored \subseteq Values

ASSUME TxMarkersAssumption ==
    /\ NoRequest \notin Request /\ Unread \notin Nat
    /\ Unwritten \notin Values

VARIABLES
    state,      \* the committed value of every key
    version,    \* the commit that wrote it; 0 if there is no value
    height,     \* the number of the last commit
    tx          \* the transactions

vars == <<state, version, height, tx>>

ledger == <<state, version, height>>

Phases == {"idle", "called", "writing", "returned", "failed", "valid", "invalid"}

Transients == {"unset", "text", "bytes"}

QueryResult == [key: Ids, record: Asset]

Transaction ==
    [phase: Phases, request: Request \cup {NoRequest}, transient: Transients,
     read: Values,                          \* the value get_state returned
     asset: Asset \cup {Missing},           \* the asset to put
     puts: Nat,                             \* the seeds put
     reads: [Ids -> Nat \cup {Unread}],
     writes: [Ids -> Values \cup {Unwritten}],
     event: Asset \cup {NoEvent},
     result: Owners \cup Transients \cup {Unit},
     exists: BOOLEAN,                       \* the results of queries
     records: SUBSET QueryResult]

Idle ==
    [phase |-> "idle", request |-> NoRequest, transient |-> "unset",
     read |-> Missing, asset |-> Missing, puts |-> 0,
     reads |-> [i \in Ids |-> Unread], writes |-> [i \in Ids |-> Unwritten],
     event |-> NoEvent, result |-> Unit, exists |-> FALSE, records |-> {}]

Init ==
    /\ state \in [Ids -> Stored]
    /\ state[EmptyId] = Missing
    /\ \A i \in Ids : state[i] \in Asset => state[i].id = i
    /\ version = [i \in Ids |-> IF state[i] = Missing THEN 0 ELSE 1]
    /\ height = 1
    /\ tx = [t \in Txs |-> Idle]

-----------------------------------------------------------------------------
(* The stub *)

Fails(t) ==
    /\ tx' = [tx EXCEPT ![t].phase = "failed"]
    /\ UNCHANGED ledger

(***************************************************************************)
(* The transient map is that of the proposal, and empty without one.       *)
(***************************************************************************)
new(t) ==
    /\ tx[t].phase = "idle"
    /\ \E r \in Requests, tm \in Transients :
          /\ tm # "unset" => r.op = "ReadTransient"
          /\ tx' = [tx EXCEPT ![t].phase = "called", ![t].request = r,
                              ![t].transient = tm]
    /\ UNCHANGED ledger

(***************************************************************************)
(* A part of the proposal does not decode.                                 *)
(***************************************************************************)
NewFails(t) ==
    /\ tx[t].phase = "idle"
    /\ Fails(t)

Runs(t, op) == tx[t].phase = "called" /\ tx[t].request.op = op

(***************************************************************************)
(* The transaction once get_state has returned the value of a key: a value *)
(* kept from an earlier transaction would have no version in the read set. *)
(***************************************************************************)
Mutant_get_state(t, id) == [tx[t] EXCEPT !.read = state[id]]

get_state(t, id) == [tx[t] EXCEPT !.read = state[id], !.reads[id] = version[id]]

Continues(t, after) ==
    /\ tx' = [tx EXCEPT ![t] = after]
    /\ UNCHANGED ledger

(***************************************************************************)
(* The peer answers a call with ERROR, or the stream ends.                 *)
(***************************************************************************)
CallFails(t) ==
    /\ \/ tx[t].phase = "called" /\ tx[t].request.op # "ReadTransient"
       \/ tx[t].phase = "writing"
    /\ Fails(t)

-----------------------------------------------------------------------------
(* Transactions *)

NewAsset(r) == [id |-> r.id, owner |-> r.owner, details |-> r.details]

init_ledger(t) ==
    /\ Runs(t, "InitLedger")
    /\ IF tx[t].puts < Len(Seeds)
         THEN LET asset == Seeds[tx[t].puts + 1] IN
              Continues(t, [tx[t] EXCEPT !.writes[asset.id] = asset, !.puts = @ + 1])
         ELSE Continues(t, [tx[t] EXCEPT !.phase = "returned"])

Mutant_create_asset(t) ==
    LET r == tx[t].request IN
    /\ Runs(t, "CreateAsset")
    /\ Continues(t, [get_state(t, r.id) EXCEPT !.phase = "writing", !.asset = NewAsset(r)])

create_asset(t) ==
    LET r == tx[t].request IN
    /\ Runs(t, "CreateAsset")
    /\ IF state[r.id] # Missing
         THEN Fails(t)
         ELSE Continues(t, [get_state(t, r.id) EXCEPT !.phase = "writing",
                                                      !.asset = NewAsset(r)])

(***************************************************************************)
(* get_asset in an operation: it fails if there is no asset or the value   *)
(* is none; otherwise the transaction goes on as "after".                  *)
(***************************************************************************)
get_asset(t, after) ==
    IF state[tx[t].request.id] \in {Missing, Corrupt} THEN Fails(t) ELSE Continues(t, after)

read_asset(t) ==
    LET id == tx[t].request.id IN
    /\ Runs(t, "ReadAsset")
    /\ get_asset(t, [get_state(t, id) EXCEPT
                        !.phase = "returned",
                        !.records = {[key |-> id, record |-> state[id]]}])

update_asset(t) ==
    LET r == tx[t].request IN
    /\ Runs(t, "UpdateAsset")
    /\ get_asset(t, [get_state(t, r.id) EXCEPT !.phase = "writing", !.asset = NewAsset(r)])

delete_asset(t) ==
    /\ Runs(t, "DeleteAsset")
    /\ get_asset(t, [get_state(t, tx[t].request.id) EXCEPT !.phase = "writing"])

asset_exists(t) ==
    LET id == tx[t].request.id IN
    /\ Runs(t, "AssetExists")
    /\ Continues(t, [get_state(t, id) EXCEPT !.phase = "returned",
                                             !.exists = state[id] # Missing])

transfer_asset(t) ==
    LET r == tx[t].request IN
    /\ Runs(t, "TransferAsset")
    /\ get_asset(t, [get_state(t, r.id) EXCEPT
                        !.phase = "writing",
                        !.asset = [state[r.id] EXCEPT !.owner = r.owner],
                        !.result = state[r.id].owner])

(***************************************************************************)
(* The range is of a snapshot that the peer takes when it opens the query. *)
(* A value that does not decode is left out of the list.                   *)
(***************************************************************************)
Mutant_get_all_assets(t) ==
    /\ Runs(t, "GetAllAssets")
    /\ Continues(t, [tx[t] EXCEPT
            !.phase = "returned",
            !.reads = version,
            !.records = {[key |-> i, record |-> state[i]] :
                            i \in {j \in Ids : state[j] # Missing}}])

get_all_assets(t) ==
    /\ Runs(t, "GetAllAssets")
    /\ Continues(t, [tx[t] EXCEPT
            !.phase = "returned",
            !.reads = version,
            !.records = {[key |-> i, record |-> state[i]] :
                            i \in {j \in Ids : state[j] \notin {Missing, Corrupt}}}])

read_transient(t) ==
    /\ Runs(t, "ReadTransient")
    /\ IF tx[t].transient = "text"
         THEN Continues(t, [tx[t] EXCEPT !.phase = "returned", !.result = "text"])
         ELSE Fails(t)

(***************************************************************************)
(* put_asset, the last call of create_asset, update_asset and              *)
(* transfer_asset, which then sets its event.  There is no empty key.      *)
(***************************************************************************)
put_asset(t) ==
    LET asset == tx[t].asset IN
    /\ tx[t].phase = "writing" /\ tx[t].request.op # "DeleteAsset"
    /\ IF asset.id = EmptyId
         THEN Fails(t)
         ELSE Continues(t, [tx[t] EXCEPT
                !.phase = "returned",
                !.writes[asset.id] = asset,
                !.event = IF tx[t].request.op = "TransferAsset" THEN asset ELSE NoEvent])

del_state(t) ==
    /\ tx[t].phase = "writing" /\ tx[t].request.op = "DeleteAsset"
    /\ Continues(t, [tx[t] EXCEPT !.phase = "returned",
                                  !.writes[tx[t].request.id] = Missing])

-----------------------------------------------------------------------------
(* Commit (external) *)

Current(t) == \A i \in Ids : tx[t].reads[i] \in {Unread, version[i]}

Endorsed(t) == tx[t].phase = "returned" /\ tx[t].request.op \in Submits

Commits(t) ==
    LET writes == tx[t].writes IN
    /\ Endorsed(t) /\ Current(t)
    /\ height' = height + 1
    /\ state' = [i \in Ids |-> IF writes[i] = Unwritten THEN state[i] ELSE writes[i]]
    /\ version' = [i \in Ids |-> CASE writes[i] = Unwritten -> version[i]
                                   [] writes[i] = Missing -> 0
                                   [] OTHER -> height + 1]
    /\ tx' = [tx EXCEPT ![t].phase = "valid"]

Invalidated(t) ==
    /\ Endorsed(t) /\ ~Current(t)
    /\ tx' = [tx EXCEPT ![t].phase = "invalid"]
    /\ UNCHANGED ledger

Chaincode(t) ==
    \/ init_ledger(t) \/ create_asset(t) \/ read_asset(t) \/ update_asset(t)
    \/ delete_asset(t) \/ asset_exists(t) \/ transfer_asset(t) \/ get_all_assets(t)
    \/ read_transient(t) \/ put_asset(t) \/ del_state(t)

Next ==
    \E t \in Txs :
        new(t) \/ NewFails(t) \/ Chaincode(t) \/ CallFails(t) \/ Commits(t) \/ Invalidated(t)

Spec == Init /\ [][Next]_vars

-----------------------------------------------------------------------------
(* Properties *)

(***************************************************************************)
(* Every variable has its type; what queries return are assets, also next  *)
(* to keys whose value is none.                                            *)
(***************************************************************************)
TypeOK ==
    /\ state \in [Ids -> Values] /\ version \in [Ids -> Nat] /\ height \in Nat
    /\ tx \in [Txs -> Transaction]

(***************************************************************************)
(* No update is lost: a transaction that takes effect has read the value   *)
(* its key has at that moment, whatever others did between its calls.      *)
(***************************************************************************)
NoLostUpdate ==
    [][\A t \in Txs :
          /\ tx[t].phase = "returned" /\ tx'[t].phase = "valid"
          /\ tx[t].request.op # "InitLedger"
          => state[tx[t].request.id] = tx[t].read]_vars

Outcome ==
    [t \in Txs |-> IF tx[t].phase = "valid"
                     THEN [request |-> tx[t].request, result |-> tx[t].result,
                           event |-> tx[t].event]
                     ELSE NoOutcome]

Registry == INSTANCE AssetRegistry WITH assets <- state, outcome <- Outcome

(***************************************************************************)
(* Concurrent transactions implement the registry: each that takes effect  *)
(* does what its request says in the state at its commit, all of its       *)
(* writes at once, with the old owner and the event a transfer has there.  *)
(***************************************************************************)
ImplementsRegistry == Registry!Spec

=============================================================================
