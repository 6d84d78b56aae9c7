------------------------ MODULE AssetTransferProofs -------------------------
(***************************************************************************)
(* Proofs about AssetTransfer, for any number of transactions, assets,     *)
(* seeds and requests.  The inductive invariant says of a transaction in   *)
(* progress what its read set stands for: as long as the version it has    *)
(* read is the version of the key, the value it has read is the value of   *)
(* the key; and that its write set is what the request makes of that value.*)
(***************************************************************************)
EXTENDS AssetTransfer, TLAPS

Keyed == {"CreateAsset", "UpdateAsset", "DeleteAsset", "TransferAsset"}

NoWrites(x) == \A i \in Ids : x.writes[i] = Unwritten

Quiet(x) == x.event = NoEvent /\ x.result = Unit

SeedsPut(x) ==
    /\ x.puts <= Len(Seeds)
    /\ \A n \in 1 .. Len(Seeds) : n <= x.puts => x.writes[Seeds[n].id] = Seeds[n]
    /\ \A i \in Ids : x.writes[i] # Unwritten =>
          \E n \in 1 .. Len(Seeds) : n <= x.puts /\ Seeds[n].id = i

ReadOK(x) ==
    LET id == x.request.id IN
    /\ x.reads[id] \in Nat /\ x.reads[id] <= height
    /\ x.reads[id] = 0 => x.read = Missing
    /\ x.reads[id] = version[id] => state[id] = x.read
    /\ x.request.op = "CreateAsset" => x.read = Missing
    /\ x.request.op # "CreateAsset" => x.read \in Asset /\ x.read.id = id

ToPut(x) ==
    LET r == x.request IN
    /\ r.op # "TransferAsset" => x.result = Unit
    /\ r.op \in {"CreateAsset", "UpdateAsset"} => x.asset = NewAsset(r)
    /\ r.op = "TransferAsset" =>
          /\ x.asset = [id |-> r.id, owner |-> r.owner, details |-> x.read.details]
          /\ x.result = x.read.owner

Written(x) ==
    LET r == x.request IN
    /\ r.op = "DeleteAsset" => x.writes[r.id] = Missing
    /\ r.op # "DeleteAsset" => x.writes[r.id] = x.asset /\ r.id # EmptyId
    /\ \A i \in Ids \ {r.id} : x.writes[i] = Unwritten
    /\ r.op = "TransferAsset" => x.event = x.asset
    /\ r.op # "TransferAsset" => x.event = NoEvent

TxOK(x) ==
    /\ x.phase = "idle" => x = Idle
    /\ x.phase \notin {"idle", "failed"} => x.request \in Request
    /\ x.phase = "called" =>
          /\ Quiet(x)
          /\ IF x.request.op = "InitLedger" THEN SeedsPut(x) ELSE NoWrites(x)
    /\ x.phase = "writing" =>
          x.request.op \in Keyed /\ ReadOK(x) /\ ToPut(x) /\ NoWrites(x) /\ x.event = NoEvent
    /\ x.phase = "returned" /\ x.request.op \in Keyed =>
          ReadOK(x) /\ ToPut(x) /\ Written(x)
    /\ x.phase = "returned" /\ x.request.op = "InitLedger" =>
          Quiet(x) /\ SeedsPut(x) /\ x.puts = Len(Seeds)

LedgerOK ==
    /\ \A i \in Ids : version[i] <= height /\ (version[i] = 0 <=> state[i] = Missing)
    /\ \A i \in Ids : state[i] \in Asset => state[i].id = i

IInv == TypeOK /\ LedgerOK /\ \A t \in Txs : TxOK(tx[t])

-----------------------------------------------------------------------------
(* Steps of a transaction before its commit *)

(***************************************************************************)
(* The transaction has not taken effect, and does not in this step.        *)
(***************************************************************************)
Pending(t) ==
    /\ tx[t].phase # "valid" /\ state' = state
    /\ \E after : after.phase # "valid" /\ tx' = [tx EXCEPT ![t] = after]

(***************************************************************************)
(* A step that leaves the ledger alone keeps the invariant if the          *)
(* transaction it changes is in order.                                     *)
(***************************************************************************)
LEMMA StepKeepsInv ==
    ASSUME IInv, NEW t \in Txs, NEW after \in Transaction, TxOK(after), UNCHANGED ledger,
           tx' = [tx EXCEPT ![t] = after], tx[t].phase # "valid", after.phase # "valid"
    PROVE  IInv' /\ Pending(t)
<1> USE DEF ledger
<1>1. TypeOK'
  BY DEF IInv, TypeOK
<1>2. LedgerOK'
  BY DEF IInv, LedgerOK
<1>3. ASSUME NEW u \in Txs PROVE TxOK(tx[u])'
  <2>1. tx'[u] = after \/ tx'[u] = tx[u]
    BY DEF IInv, TypeOK
  <2>2. TxOK(tx[u])
    BY DEF IInv
  <2>3. PICK x : x = tx'[u] /\ TxOK(x)
    BY <2>1, <2>2
  <2>4. state' = state /\ version' = version /\ height' = height
    OBVIOUS
  <2>5. ReadOK(x) = ReadOK(tx[u])'
    BY <2>3, <2>4 DEF ReadOK
  <2> QED
    BY <2>3, <2>5 DEF TxOK, ToPut, Written, Quiet, NoWrites, SeedsPut
<1> QED
  BY <1>1, <1>2, <1>3 DEF IInv, Pending

(***************************************************************************)
(* A transaction that fails is in order.                                   *)
(***************************************************************************)
LEMMA FailKeepsInv ==
    ASSUME IInv, NEW t \in Txs, tx[t].phase # "valid", Fails(t)
    PROVE  IInv' /\ Pending(t)
<1>1. tx[t] \in Transaction
  BY DEF IInv, TypeOK
<1>2. PICK after : after = [tx[t] EXCEPT !.phase = "failed"]
  OBVIOUS
<1>3. after \in Transaction
  BY <1>1, <1>2 DEF Transaction, Phases
<1>4. after.phase = "failed"
  BY <1>1, <1>2 DEF Transaction
<1>5. TxOK(after)
  BY <1>4 DEF TxOK
<1>6. tx' = [tx EXCEPT ![t] = after]
  BY <1>2 DEF Fails
<1>7. UNCHANGED ledger
  BY DEF Fails
<1> QED
  BY <1>3, <1>4, <1>5, <1>6, <1>7, StepKeepsInv

(***************************************************************************)
(* What the invariant says of a transaction that was called and has made   *)
(* no call that matters yet.                                               *)
(***************************************************************************)
LEMMA CalledFacts ==
    ASSUME IInv, NEW t \in Txs, tx[t].phase = "called"
    PROVE  /\ tx[t] \in Transaction
           /\ tx[t].request \in Request
           /\ tx[t].request.id \in Ids /\ tx[t].request.op \in Submits \cup Evaluates
           /\ tx[t].event = NoEvent /\ tx[t].result = Unit
           /\ tx[t].request.op # "InitLedger" => NoWrites(tx[t])
           /\ tx[t].request.op = "InitLedger" => SeedsPut(tx[t])
<1>1. tx[t] \in Transaction /\ TxOK(tx[t])
  BY DEF IInv, TypeOK
<1>2. tx[t].request \in Request /\ Quiet(tx[t])
  BY <1>1 DEF TxOK
<1>3. IF tx[t].request.op = "InitLedger" THEN SeedsPut(tx[t]) ELSE NoWrites(tx[t])
  BY <1>1 DEF TxOK
<1>4. tx[t].request.id \in Ids /\ tx[t].request.op \in Submits \cup Evaluates
  BY <1>2 DEF Request
<1> QED
  BY <1>1, <1>2, <1>3, <1>4 DEF Quiet

(***************************************************************************)
(* A transaction that has read its key goes on to write.                   *)
(***************************************************************************)
LEMMA ReadKeepsInv ==
    ASSUME IInv, NEW t \in Txs, tx[t].phase = "called", tx[t].request.op \in Keyed,
           NEW after \in Transaction,
           after.phase = "writing", after.request = tx[t].request,
           after.read = state[tx[t].request.id],
           after.reads[tx[t].request.id] = version[tx[t].request.id],
           after.writes = tx[t].writes, after.event = tx[t].event,
           tx[t].request.op = "CreateAsset" => state[tx[t].request.id] = Missing,
           tx[t].request.op # "CreateAsset" => state[tx[t].request.id] \in Asset,
           ToPut(after), Continues(t, after)
    PROVE  IInv' /\ Pending(t)
<1> DEFINE id == tx[t].request.id
<1>1. /\ tx[t].request \in Request /\ id \in Ids
      /\ NoWrites(tx[t]) /\ tx[t].event = NoEvent
  BY CalledFacts DEF Keyed
<1>2. /\ version[id] \in Nat /\ version[id] <= height
      /\ version[id] = 0 => state[id] = Missing
      /\ state[id] \in Asset => state[id].id = id
  BY <1>1 DEF IInv, TypeOK, LedgerOK
<1>3. ReadOK(after)
  BY <1>2 DEF ReadOK
<1>4. NoWrites(after)
  BY <1>1 DEF NoWrites
<1>5. TxOK(after)
  BY <1>1, <1>3, <1>4 DEF TxOK
<1> QED
  BY <1>5, StepKeepsInv DEF Continues

(***************************************************************************)
(* A query, or a call that reads the transient map, returns.               *)
(***************************************************************************)
LEMMA QueryKeepsInv ==
    ASSUME IInv, NEW t \in Txs, tx[t].phase = "called", tx[t].request.op \in Evaluates,
           NEW after \in Transaction, after.phase = "returned",
           after.request = tx[t].request, Continues(t, after)
    PROVE  IInv' /\ Pending(t)
<1>1. tx[t].request \in Request
  BY CalledFacts
<1>2. tx[t].request.op \notin Keyed /\ tx[t].request.op # "InitLedger"
  BY DEF Evaluates, Keyed
<1>3. TxOK(after)
  BY <1>1, <1>2 DEF TxOK
<1> QED
  BY <1>3, StepKeepsInv DEF Continues

(***************************************************************************)
(* A transaction that starts has written nothing, and keeps the invariant. *)
(***************************************************************************)
LEMMA NewKeepsInv ==
    ASSUME IInv, NEW t \in Txs, new(t)
    PROVE  IInv' /\ Pending(t)
<1>1. PICK r \in Requests, tm \in Transients :
        tx' = [tx EXCEPT ![t].phase = "called", ![t].request = r, ![t].transient = tm]
  BY DEF new
<1>2. tx[t] \in Transaction /\ tx[t] = Idle
  BY DEF IInv, TypeOK, TxOK, new
<1>3. r \in Request
  BY RequestsAssumption
<1>4. PICK after : after = [tx[t] EXCEPT !.phase = "called", !.request = r, !.transient = tm]
  OBVIOUS
<1>5. after \in Transaction
  BY <1>2, <1>3, <1>4 DEF Transaction, Phases
<1>6. after.phase = "called" /\ after.request = r
  BY <1>2, <1>4 DEF Transaction
<1>7. /\ after.puts = Idle.puts /\ after.writes = Idle.writes
      /\ after.event = Idle.event /\ after.result = Idle.result
  BY <1>2, <1>4 DEF Transaction
<1>8. /\ after.puts = 0 /\ \A i \in Ids : after.writes[i] = Unwritten
      /\ after.event = NoEvent /\ after.result = Unit
  BY <1>7 DEF Idle
<1>9. Len(Seeds) \in Nat
  BY SeedsAssumption
<1>10. TxOK(after)
  BY <1>3, <1>6, <1>8, <1>9 DEF TxOK, Quiet, NoWrites, SeedsPut
<1>11. tx' = [tx EXCEPT ![t] = after]
  BY <1>1, <1>4
<1> QED
  BY <1>5, <1>6, <1>10, <1>11, StepKeepsInv DEF new

(***************************************************************************)
(* get_state changes what was read and nothing else.                       *)
(***************************************************************************)
LEMMA GetStateFields ==
    ASSUME IInv, NEW t \in Txs, NEW id \in Ids, NEW g, g = get_state(t, id)
    PROVE  /\ g \in Transaction
           /\ g.read = state[id] /\ g.reads[id] = version[id]
           /\ g.request = tx[t].request /\ g.writes = tx[t].writes
           /\ g.event = tx[t].event /\ g.result = tx[t].result
<1>1. tx[t] \in Transaction /\ state[id] \in Values /\ version[id] \in Nat
  BY DEF IInv, TypeOK
<1>2. tx[t].reads \in [Ids -> Nat \cup {Unread}]
  BY <1>1 DEF Transaction
<1>3. PICK rs : rs = [tx[t].reads EXCEPT ![id] = version[id]]
  OBVIOUS
<1>4. rs \in [Ids -> Nat \cup {Unread}] /\ rs[id] = version[id]
  BY <1>1, <1>2, <1>3
<1>5. g = [tx[t] EXCEPT !.read = state[id], !.reads = rs]
  BY <1>1, <1>3 DEF get_state, Transaction
<1>6. g \in Transaction
  BY <1>1, <1>4, <1>5 DEF Transaction
<1>7. /\ g.read = state[id] /\ g.reads = rs
      /\ g.request = tx[t].request /\ g.writes = tx[t].writes
      /\ g.event = tx[t].event /\ g.result = tx[t].result
  BY <1>1, <1>5 DEF Transaction
<1> QED
  BY <1>4, <1>6, <1>7

(***************************************************************************)
(* The asset a request describes is an asset.                              *)
(***************************************************************************)
LEMMA NewAssetType ==
    ASSUME NEW r \in Request
    PROVE  NewAsset(r) \in Asset
BY DEF NewAsset, Asset, Request

(***************************************************************************)
(* create_asset keeps the invariant: it goes on only if its key was        *)
(* missing.                                                                *)
(***************************************************************************)
LEMMA CreateKeepsInv ==
    ASSUME IInv, NEW t \in Txs, create_asset(t)
    PROVE  IInv' /\ Pending(t)
<1> DEFINE r == tx[t].request
<1>1. tx[t].phase = "called" /\ r.op = "CreateAsset"
  BY DEF create_asset, Runs
<1>2. r \in Request /\ r.id \in Ids /\ tx[t].result = Unit
  BY <1>1, CalledFacts
<1>3. CASE state[r.id] # Missing
  BY <1>1, <1>3, FailKeepsInv DEF create_asset
<1>4. CASE state[r.id] = Missing
  <2>1. PICK g : g = get_state(t, r.id)
    OBVIOUS
  <2>2. PICK after : after = [g EXCEPT !.phase = "writing", !.asset = NewAsset(r)]
    OBVIOUS
  <2>3. Continues(t, after)
    BY <1>4, <2>1, <2>2 DEF create_asset
  <2>4. g \in Transaction
    BY <1>2, <2>1, GetStateFields
  <2>5. after \in Transaction
    BY <1>2, <2>2, <2>4, NewAssetType DEF Transaction, Phases
  <2>6. /\ after.phase = "writing" /\ after.asset = NewAsset(r) /\ after.read = g.read
        /\ after.reads = g.reads /\ after.request = g.request /\ after.writes = g.writes
        /\ after.event = g.event /\ after.result = g.result
    BY <2>2, <2>4 DEF Transaction
  <2>7. /\ after.read = state[r.id] /\ after.reads[r.id] = version[r.id]
        /\ after.request = r /\ after.writes = tx[t].writes
        /\ after.event = tx[t].event /\ after.result = Unit
    BY <1>2, <2>1, <2>6, GetStateFields
  <2>8. ToPut(after)
    BY <1>1, <2>6, <2>7 DEF ToPut
  <2>9. r.op \in Keyed
    BY <1>1 DEF Keyed
  <2> QED
    BY <1>1, <1>4, <2>3, <2>5, <2>6, <2>7, <2>8, <2>9, ReadKeepsInv
<1> QED
  BY <1>3, <1>4

(***************************************************************************)
(* get_asset fails, or there is an asset.                                  *)
(***************************************************************************)
LEMMA GetAsset ==
    ASSUME IInv, NEW t \in Txs, tx[t].request.id \in Ids, NEW after, get_asset(t, after)
    PROVE  \/ Fails(t)
           \/ state[tx[t].request.id] \in Asset /\ Continues(t, after)
<1>1. state[tx[t].request.id] \in Values
  BY DEF IInv, TypeOK
<1> QED
  BY <1>1 DEF get_asset, Values

(***************************************************************************)
(* update_asset keeps the invariant: it goes on only if it has read an     *)
(* asset.                                                                  *)
(***************************************************************************)
LEMMA UpdateKeepsInv ==
    ASSUME IInv, NEW t \in Txs, update_asset(t)
    PROVE  IInv' /\ Pending(t)
<1> DEFINE r == tx[t].request
<1>1. tx[t].phase = "called" /\ r.op = "UpdateAsset"
  BY DEF update_asset, Runs
<1>2. r \in Request /\ r.id \in Ids /\ tx[t].result = Unit
  BY <1>1, CalledFacts
<1>3. PICK g : g = get_state(t, r.id)
  OBVIOUS
<1>4. PICK after : after = [g EXCEPT !.phase = "writing", !.asset = NewAsset(r)]
  OBVIOUS
<1>5. CASE Fails(t)
  BY <1>1, <1>5, FailKeepsInv
<1>6. CASE state[r.id] \in Asset /\ Continues(t, after)
  <2>1. g \in Transaction
    BY <1>2, <1>3, GetStateFields
  <2>2. after \in Transaction
    BY <1>2, <1>4, <2>1, NewAssetType DEF Transaction, Phases
  <2>3. /\ after.phase = "writing" /\ after.asset = NewAsset(r) /\ after.read = g.read
        /\ after.reads = g.reads /\ after.request = g.request /\ after.writes = g.writes
        /\ after.event = g.event /\ after.result = g.result
    BY <1>4, <2>1 DEF Transaction
  <2>4. /\ after.read = state[r.id] /\ after.reads[r.id] = version[r.id]
        /\ after.request = r /\ after.writes = tx[t].writes
        /\ after.event = tx[t].event /\ after.result = Unit
    BY <1>2, <1>3, <2>3, GetStateFields
  <2>5. ToPut(after)
    BY <1>1, <2>3, <2>4 DEF ToPut
  <2>6. r.op \in Keyed
    BY <1>1 DEF Keyed
  <2> QED
    BY <1>1, <1>6, <2>2, <2>3, <2>4, <2>5, <2>6, ReadKeepsInv
<1>7. get_asset(t, after)
  BY <1>3, <1>4 DEF update_asset
<1> QED
  BY <1>2, <1>5, <1>6, <1>7, GetAsset

(***************************************************************************)
(* delete_asset keeps the invariant: it goes on only if it has read an     *)
(* asset.                                                                  *)
(***************************************************************************)
LEMMA DeleteKeepsInv ==
    ASSUME IInv, NEW t \in Txs, delete_asset(t)
    PROVE  IInv' /\ Pending(t)
<1> DEFINE r == tx[t].request
<1>1. tx[t].phase = "called" /\ r.op = "DeleteAsset"
  BY DEF delete_asset, Runs
<1>2. r \in Request /\ r.id \in Ids /\ tx[t].result = Unit
  BY <1>1, CalledFacts
<1>3. PICK g : g = get_state(t, r.id)
  OBVIOUS
<1>4. PICK after : after = [g EXCEPT !.phase = "writing"]
  OBVIOUS
<1>5. CASE Fails(t)
  BY <1>1, <1>5, FailKeepsInv
<1>6. CASE state[r.id] \in Asset /\ Continues(t, after)
  <2>1. g \in Transaction
    BY <1>2, <1>3, GetStateFields
  <2>2. after \in Transaction
    BY <1>4, <2>1 DEF Transaction, Phases
  <2>3. /\ after.phase = "writing" /\ after.read = g.read
        /\ after.reads = g.reads /\ after.request = g.request /\ after.writes = g.writes
        /\ after.event = g.event /\ after.result = g.result
    BY <1>4, <2>1 DEF Transaction
  <2>4. /\ after.read = state[r.id] /\ after.reads[r.id] = version[r.id]
        /\ after.request = r /\ after.writes = tx[t].writes
        /\ after.event = tx[t].event /\ after.result = Unit
    BY <1>2, <1>3, <2>3, GetStateFields
  <2>5. ToPut(after)
    BY <1>1, <2>3, <2>4 DEF ToPut
  <2>6. r.op \in Keyed
    BY <1>1 DEF Keyed
  <2> QED
    BY <1>1, <1>6, <2>2, <2>3, <2>4, <2>5, <2>6, ReadKeepsInv
<1>7. get_asset(t, after)
  BY <1>3, <1>4 DEF delete_asset
<1> QED
  BY <1>2, <1>5, <1>6, <1>7, GetAsset

(***************************************************************************)
(* transfer_asset keeps the invariant: what it will put and return is      *)
(* computed from the asset it has read.                                    *)
(***************************************************************************)
LEMMA TransferKeepsInv ==
    ASSUME IInv, NEW t \in Txs, transfer_asset(t)
    PROVE  IInv' /\ Pending(t)
<1> DEFINE r == tx[t].request
<1>1. tx[t].phase = "called" /\ r.op = "TransferAsset"
  BY DEF transfer_asset, Runs
<1>2. r \in Request /\ r.id \in Ids /\ r.owner \in Owners
  BY <1>1, CalledFacts DEF Request
<1>3. PICK g : g = get_state(t, r.id)
  OBVIOUS
<1>4. PICK asset : asset = [state[r.id] EXCEPT !.owner = r.owner]
  OBVIOUS
<1>5. PICK after : after = [g EXCEPT !.phase = "writing", !.asset = asset,
                                     !.result = state[r.id].owner]
  OBVIOUS
<1>6. CASE Fails(t)
  BY <1>1, <1>6, FailKeepsInv
<1>7. CASE state[r.id] \in Asset /\ Continues(t, after)
  <2>1. g \in Transaction
    BY <1>2, <1>3, GetStateFields
  <2>2. state[r.id].id = r.id
    BY <1>2, <1>7 DEF IInv, LedgerOK
  <2>3. /\ state[r.id].owner \in Owners /\ state[r.id].details \in Details
        /\ asset = [id |-> state[r.id].id, owner |-> r.owner, details |-> state[r.id].details]
    BY <1>4, <1>7 DEF Asset
  <2>4. asset \in Asset
    BY <1>2, <2>2, <2>3 DEF Asset
  <2>5. after \in Transaction
    BY <1>5, <2>1, <2>3, <2>4 DEF Transaction, Phases
  <2>6. /\ after.phase = "writing" /\ after.asset = asset /\ after.read = g.read
        /\ after.reads = g.reads /\ after.request = g.request /\ after.writes = g.writes
        /\ after.event = g.event /\ after.result = state[r.id].owner
    BY <1>5, <2>1 DEF Transaction
  <2>7. /\ after.read = state[r.id] /\ after.reads[r.id] = version[r.id]
        /\ after.request = r /\ after.writes = tx[t].writes /\ after.event = tx[t].event
    BY <1>2, <1>3, <2>6, GetStateFields
  <2>8. ToPut(after)
    BY <1>1, <2>2, <2>3, <2>6, <2>7 DEF ToPut
  <2>9. r.op \in Keyed
    BY <1>1 DEF Keyed
  <2> QED
    BY <1>1, <1>7, <2>5, <2>6, <2>7, <2>8, <2>9, ReadKeepsInv
<1>8. get_asset(t, after)
  BY <1>3, <1>4, <1>5 DEF transfer_asset
<1> QED
  BY <1>2, <1>6, <1>7, <1>8, GetAsset

(***************************************************************************)
(* read_asset keeps the invariant: it writes nothing.                      *)
(***************************************************************************)
LEMMA ReadAssetKeepsInv ==
    ASSUME IInv, NEW t \in Txs, read_asset(t)
    PROVE  IInv' /\ Pending(t)
<1> DEFINE id == tx[t].request.id
<1>1. tx[t].phase = "called" /\ tx[t].request.op = "ReadAsset"
  BY DEF read_asset, Runs
<1>2. id \in Ids
  BY <1>1, CalledFacts
<1>3. PICK g : g = get_state(t, id)
  OBVIOUS
<1>4. PICK rec : rec = {[key |-> id, record |-> state[id]]}
  OBVIOUS
<1>5. PICK after : after = [g EXCEPT !.phase = "returned", !.records = rec]
  OBVIOUS
<1>6. CASE Fails(t)
  BY <1>1, <1>6, FailKeepsInv
<1>7. CASE state[id] \in Asset /\ Continues(t, after)
  <2>1. g \in Transaction /\ g.request = tx[t].request
    BY <1>2, <1>3, GetStateFields
  <2>2. rec \in SUBSET QueryResult
    BY <1>2, <1>4, <1>7 DEF QueryResult
  <2>3. after \in Transaction
    BY <1>5, <2>1, <2>2 DEF Transaction, Phases
  <2>4. after.phase = "returned" /\ after.request = tx[t].request
    BY <1>5, <2>1 DEF Transaction
  <2>5. tx[t].request.op \in Evaluates
    BY <1>1 DEF Evaluates
  <2> QED
    BY <1>1, <1>7, <2>3, <2>4, <2>5, QueryKeepsInv
<1>8. get_asset(t, after)
  BY <1>3, <1>4, <1>5 DEF read_asset
<1> QED
  BY <1>2, <1>6, <1>7, <1>8, GetAsset

(***************************************************************************)
(* asset_exists keeps the invariant: it writes nothing.                    *)
(***************************************************************************)
LEMMA ExistsKeepsInv ==
    ASSUME IInv, NEW t \in Txs, asset_exists(t)
    PROVE  IInv' /\ Pending(t)
<1> DEFINE id == tx[t].request.id
<1>1. tx[t].phase = "called" /\ tx[t].request.op = "AssetExists"
  BY DEF asset_exists, Runs
<1>2. id \in Ids
  BY <1>1, CalledFacts
<1>3. PICK g : g = get_state(t, id)
  OBVIOUS
<1>4. PICK after : after = [g EXCEPT !.phase = "returned", !.exists = state[id] # Missing]
  OBVIOUS
<1>5. Continues(t, after)
  BY <1>3, <1>4 DEF asset_exists
<1>6. g \in Transaction /\ g.request = tx[t].request
  BY <1>2, <1>3, GetStateFields
<1>7. after \in Transaction
  BY <1>4, <1>6 DEF Transaction, Phases
<1>8. after.phase = "returned" /\ after.request = tx[t].request
  BY <1>4, <1>6 DEF Transaction
<1>9. tx[t].request.op \in Evaluates
  BY <1>1 DEF Evaluates
<1> QED
  BY <1>1, <1>5, <1>7, <1>8, <1>9, QueryKeepsInv

(***************************************************************************)
(* get_all_assets keeps the invariant: what it lists are assets.           *)
(***************************************************************************)
LEMMA GetAllKeepsInv ==
    ASSUME IInv, NEW t \in Txs, get_all_assets(t)
    PROVE  IInv' /\ Pending(t)
<1> DEFINE stored == {j \in Ids : state[j] \notin {Missing, Corrupt}}
<1>1. tx[t].phase = "called" /\ tx[t].request.op = "GetAllAssets"
  BY DEF get_all_assets, Runs
<1>2. tx[t] \in Transaction /\ version \in [Ids -> Nat \cup {Unread}]
  BY DEF IInv, TypeOK
<1>3. PICK rec : rec = {[key |-> i, record |-> state[i]] : i \in stored}
  OBVIOUS
<1>4. \A i \in stored : i \in Ids /\ state[i] \in Asset
  BY DEF IInv, TypeOK, Values
<1>5. rec \in SUBSET QueryResult
  BY <1>3, <1>4 DEF QueryResult
<1>6. PICK after : after = [tx[t] EXCEPT !.phase = "returned", !.reads = version,
                                         !.records = rec]
  OBVIOUS
<1>7. Continues(t, after)
  BY <1>3, <1>6 DEF get_all_assets
<1>8. after \in Transaction
  BY <1>2, <1>5, <1>6 DEF Transaction, Phases
<1>9. after.phase = "returned" /\ after.request = tx[t].request
  BY <1>2, <1>6 DEF Transaction
<1>10. tx[t].request.op \in Evaluates
  BY <1>1 DEF Evaluates
<1> QED
  BY <1>1, <1>7, <1>8, <1>9, <1>10, QueryKeepsInv

(***************************************************************************)
(* read_transient keeps the invariant: it does not touch the ledger.       *)
(***************************************************************************)
LEMMA TransientKeepsInv ==
    ASSUME IInv, NEW t \in Txs, read_transient(t)
    PROVE  IInv' /\ Pending(t)
<1>1. tx[t].phase = "called" /\ tx[t].request.op = "ReadTransient"
  BY DEF read_transient, Runs
<1>2. tx[t] \in Transaction
  BY DEF IInv, TypeOK
<1>3. PICK after : after = [tx[t] EXCEPT !.phase = "returned", !.result = "text"]
  OBVIOUS
<1>4. CASE Fails(t)
  BY <1>1, <1>4, FailKeepsInv
<1>5. CASE Continues(t, after)
  <2>1. after \in Transaction
    BY <1>2, <1>3 DEF Transaction, Phases, Transients
  <2>2. after.phase = "returned" /\ after.request = tx[t].request
    BY <1>2, <1>3 DEF Transaction
  <2>3. tx[t].request.op \in Evaluates
    BY <1>1 DEF Evaluates
  <2> QED
    BY <1>1, <1>5, <2>1, <2>2, <2>3, QueryKeepsInv
<1> QED
  BY <1>3, <1>4, <1>5 DEF read_transient

(***************************************************************************)
(* The seeds of init_ledger are assets with identifiers.                   *)
(***************************************************************************)
LEMMA SeedsFacts ==
    Len(Seeds) \in Nat /\ \A n \in 1 .. Len(Seeds) : Seeds[n] \in Asset /\ Seeds[n].id \in Ids
<1>1. Len(Seeds) \in Nat /\ \A n \in 1 .. Len(Seeds) : Seeds[n] \in Asset
  BY SeedsAssumption
<1>2. \A a \in Asset : a.id \in Ids
  BY DEF Asset
<1> QED
  BY <1>1, <1>2

(***************************************************************************)
(* init_ledger puts the seeds one by one; no two have the same key.        *)
(***************************************************************************)
LEMMA InitLedgerKeepsInv ==
    ASSUME IInv, NEW t \in Txs, init_ledger(t)
    PROVE  IInv' /\ Pending(t)
<1> DEFINE p == tx[t].puts
<1>1. tx[t].phase = "called" /\ tx[t].request.op = "InitLedger"
  BY DEF init_ledger, Runs
<1>2. /\ tx[t] \in Transaction /\ tx[t].request \in Request /\ SeedsPut(tx[t])
      /\ tx[t].event = NoEvent /\ tx[t].result = Unit
  BY <1>1, CalledFacts
<1>3. p \in Nat /\ tx[t].writes \in [Ids -> Values \cup {Unwritten}]
  BY <1>2 DEF Transaction
<1>4. Len(Seeds) \in Nat /\ \A n \in 1 .. Len(Seeds) : Seeds[n] \in Asset /\ Seeds[n].id \in Ids
  BY SeedsFacts
<1>5. CASE p < Len(Seeds)
  <2>1. PICK asset : asset = Seeds[p + 1]
    OBVIOUS
  <2>2. asset \in Asset /\ asset.id \in Ids /\ p + 1 \in 1 .. Len(Seeds)
    BY <1>3, <1>4, <1>5, <2>1
  <2>3. PICK ws : ws = [tx[t].writes EXCEPT ![asset.id] = asset]
    OBVIOUS
  <2>4. ws \in [Ids -> Values \cup {Unwritten}] /\ ws[asset.id] = asset
    BY <1>3, <2>2, <2>3 DEF Values
  <2>5. \A i \in Ids : i # asset.id => ws[i] = tx[t].writes[i]
    BY <1>3, <2>3
  <2>6. PICK q : q = p + 1
    OBVIOUS
  <2>7. PICK after : after = [tx[t] EXCEPT !.writes = ws, !.puts = q]
    OBVIOUS
  <2>8. q \in Nat
    BY <1>3, <2>6
  <2>9. after \in Transaction
    BY <1>2, <2>4, <2>7, <2>8 DEF Transaction
  <2>10. /\ after.phase = "called" /\ after.request = tx[t].request
         /\ after.writes = ws /\ after.puts = q
         /\ after.event = tx[t].event /\ after.result = tx[t].result
    BY <1>1, <1>2, <2>7 DEF Transaction
  <2>11. \A n \in 1 .. Len(Seeds) : n <= q => ws[Seeds[n].id] = Seeds[n]
    <3> TAKE n \in 1 .. Len(Seeds)
    <3>1. CASE n = p + 1
      BY <2>1, <2>4, <3>1
    <3>2. CASE n # p + 1 /\ n <= q
      <4>1. n <= p
        BY <1>3, <2>6, <3>2
      <4>2. Seeds[n].id # asset.id
        BY <2>1, <2>2, <3>2, SeedsAssumption
      <4>3. Seeds[n].id \in Ids /\ tx[t].writes[Seeds[n].id] = Seeds[n]
        BY <1>2, <1>4, <4>1 DEF SeedsPut
      <4> QED
        BY <2>5, <4>2, <4>3
    <3> QED
      BY <3>1, <3>2
  <2>12. \A i \in Ids : ws[i] # Unwritten =>
            \E n \in 1 .. Len(Seeds) : n <= q /\ Seeds[n].id = i
    <3> TAKE i \in Ids
    <3>1. CASE i = asset.id
      BY <1>3, <2>1, <2>2, <2>6, <3>1
    <3>2. CASE i # asset.id /\ ws[i] # Unwritten
      <4>1. PICK n \in 1 .. Len(Seeds) : n <= p /\ Seeds[n].id = i
        BY <1>2, <2>5, <3>2 DEF SeedsPut
      <4>2. n <= q
        BY <1>3, <2>6, <4>1
      <4> QED
        BY <4>1, <4>2
    <3> QED
      BY <3>1, <3>2
  <2>13. q <= Len(Seeds)
    BY <1>3, <1>4, <1>5, <2>6
  <2>14. SeedsPut(after)
    BY <2>10, <2>11, <2>12, <2>13 DEF SeedsPut
  <2>15. TxOK(after)
    BY <1>1, <1>2, <2>10, <2>14 DEF TxOK, Quiet
  <2>16. Continues(t, after)
    BY <1>2, <1>5, <2>1, <2>3, <2>6, <2>7 DEF init_ledger, Transaction
  <2> QED
    BY <1>1, <2>9, <2>10, <2>15, <2>16, StepKeepsInv DEF Continues
<1>6. CASE ~(p < Len(Seeds))
  <2>1. PICK after : after = [tx[t] EXCEPT !.phase = "returned"]
    OBVIOUS
  <2>2. after \in Transaction
    BY <1>2, <2>1 DEF Transaction, Phases
  <2>3. /\ after.phase = "returned" /\ after.request = tx[t].request
        /\ after.writes = tx[t].writes /\ after.puts = p
        /\ after.event = tx[t].event /\ after.result = tx[t].result
    BY <1>2, <2>1 DEF Transaction
  <2>4. p = Len(Seeds)
    BY <1>2, <1>3, <1>4, <1>6 DEF SeedsPut
  <2>5. SeedsPut(after)
    BY <1>2, <2>3 DEF SeedsPut
  <2>6. "InitLedger" \notin Keyed
    BY DEF Keyed
  <2>7. TxOK(after)
    BY <1>1, <1>2, <2>3, <2>4, <2>5, <2>6 DEF TxOK, Quiet
  <2>8. Continues(t, after)
    BY <1>6, <2>1 DEF init_ledger
  <2> QED
    BY <1>1, <2>2, <2>3, <2>7, <2>8, StepKeepsInv DEF Continues
<1> QED
  BY <1>5, <1>6

(***************************************************************************)
(* What the invariant says of a transaction that has read its key.         *)
(***************************************************************************)
LEMMA WritingFacts ==
    ASSUME IInv, NEW t \in Txs, tx[t].phase = "writing"
    PROVE  /\ tx[t] \in Transaction
           /\ tx[t].request \in Request /\ tx[t].request.id \in Ids
           /\ tx[t].writes \in [Ids -> Values \cup {Unwritten}]
           /\ tx[t].request.op \in Keyed /\ ReadOK(tx[t]) /\ ToPut(tx[t])
           /\ NoWrites(tx[t]) /\ tx[t].event = NoEvent
<1>1. tx[t] \in Transaction /\ TxOK(tx[t])
  BY DEF IInv, TypeOK
<1>2. tx[t].request \in Request
  BY <1>1 DEF TxOK
<1>3. tx[t].request.id \in Ids
  BY <1>2 DEF Request
<1>4. tx[t].writes \in [Ids -> Values \cup {Unwritten}]
  BY <1>1 DEF Transaction
<1> QED
  BY <1>1, <1>2, <1>3, <1>4 DEF TxOK

(***************************************************************************)
(* A transaction that has written its key returns.                         *)
(***************************************************************************)
LEMMA WriteKeepsInv ==
    ASSUME IInv, NEW t \in Txs, tx[t].phase = "writing",
           NEW after \in Transaction, after.phase = "returned",
           after.request = tx[t].request, after.read = tx[t].read,
           after.reads = tx[t].reads, after.asset = tx[t].asset,
           after.result = tx[t].result, Written(after), Continues(t, after)
    PROVE  IInv' /\ Pending(t)
<1>1. /\ tx[t].request \in Request /\ tx[t].request.op \in Keyed
      /\ ReadOK(tx[t]) /\ ToPut(tx[t])
  BY WritingFacts
<1>2. ReadOK(after)
  BY <1>1 DEF ReadOK
<1>3. ToPut(after)
  BY <1>1 DEF ToPut
<1>4. "InitLedger" \notin Keyed
  BY DEF Keyed
<1>5. TxOK(after)
  BY <1>1, <1>2, <1>3, <1>4 DEF TxOK
<1> QED
  BY <1>5, StepKeepsInv DEF Continues

(***************************************************************************)
(* put_asset keeps the invariant: the write set holds the asset under its  *)
(* own key, and only that.                                                 *)
(***************************************************************************)
LEMMA PutKeepsInv ==
    ASSUME IInv, NEW t \in Txs, put_asset(t)
    PROVE  IInv' /\ Pending(t)
<1> DEFINE r == tx[t].request
           asset == tx[t].asset
<1>1. tx[t].phase = "writing" /\ r.op # "DeleteAsset"
  BY DEF put_asset
<1>2. /\ tx[t] \in Transaction /\ r \in Request /\ r.id \in Ids /\ r.op \in Keyed
      /\ tx[t].writes \in [Ids -> Values \cup {Unwritten}]
      /\ ReadOK(tx[t]) /\ ToPut(tx[t]) /\ NoWrites(tx[t]) /\ tx[t].event = NoEvent
  BY <1>1, WritingFacts
<1>3. r.op \in {"CreateAsset", "UpdateAsset", "TransferAsset"}
  BY <1>1, <1>2 DEF Keyed
<1>4. asset \in Asset /\ asset.id = r.id
  <2>1. CASE r.op = "TransferAsset"
    <3>1. tx[t].read \in Asset
      BY <1>2, <2>1 DEF ReadOK
    <3>2. asset = [id |-> r.id, owner |-> r.owner, details |-> tx[t].read.details]
      BY <1>2, <2>1 DEF ToPut
    <3>3. tx[t].read.details \in Details /\ r.owner \in Owners
      BY <1>2, <3>1 DEF Asset, Request
    <3> QED
      BY <1>2, <3>2, <3>3 DEF Asset
  <2>2. CASE r.op # "TransferAsset"
    <3>1. asset = NewAsset(r)
      BY <1>2, <1>3, <2>2 DEF ToPut
    <3>2. NewAsset(r).id = r.id
      BY DEF NewAsset
    <3> QED
      BY <1>2, <3>1, <3>2, NewAssetType
  <2> QED
    BY <2>1, <2>2
<1>5. CASE asset.id = EmptyId
  BY <1>1, <1>5, FailKeepsInv DEF put_asset
<1>6. CASE asset.id # EmptyId
  <2>1. PICK ws : ws = [tx[t].writes EXCEPT ![asset.id] = asset]
    OBVIOUS
  <2>2. PICK e : e = IF r.op = "TransferAsset" THEN asset ELSE NoEvent
    OBVIOUS
  <2>3. PICK after : after = [tx[t] EXCEPT !.phase = "returned", !.writes = ws, !.event = e]
    OBVIOUS
  <2>4. /\ ws \in [Ids -> Values \cup {Unwritten}] /\ ws[r.id] = asset
        /\ \A i \in Ids \ {r.id} : ws[i] = Unwritten
    BY <1>2, <1>4, <2>1 DEF Values, NoWrites
  <2>5. e \in Asset \cup {NoEvent}
    BY <1>4, <2>2
  <2>6. after \in Transaction
    BY <1>2, <2>3, <2>4, <2>5 DEF Transaction, Phases
  <2>7. /\ after.phase = "returned" /\ after.request = r /\ after.read = tx[t].read
        /\ after.reads = tx[t].reads /\ after.asset = asset
        /\ after.result = tx[t].result /\ after.writes = ws /\ after.event = e
    BY <1>2, <2>3 DEF Transaction
  <2>8. Written(after)
    BY <1>1, <1>4, <1>6, <2>2, <2>4, <2>7 DEF Written
  <2>9. Continues(t, after)
    BY <1>2, <1>6, <2>1, <2>2, <2>3 DEF put_asset, Transaction
  <2> QED
    BY <1>1, <2>6, <2>7, <2>8, <2>9, WriteKeepsInv
<1> QED
  BY <1>5, <1>6

(***************************************************************************)
(* del_state keeps the invariant: the write set deletes the key of the     *)
(* request, and only that.                                                 *)
(***************************************************************************)
LEMMA DelKeepsInv ==
    ASSUME IInv, NEW t \in Txs, del_state(t)
    PROVE  IInv' /\ Pending(t)
<1> DEFINE r == tx[t].request
<1>1. tx[t].phase = "writing" /\ r.op = "DeleteAsset"
  BY DEF del_state
<1>2. /\ tx[t] \in Transaction /\ r.id \in Ids
      /\ tx[t].writes \in [Ids -> Values \cup {Unwritten}]
      /\ NoWrites(tx[t]) /\ tx[t].event = NoEvent
  BY <1>1, WritingFacts
<1>3. PICK ws : ws = [tx[t].writes EXCEPT ![r.id] = Missing]
  OBVIOUS
<1>4. PICK after : after = [tx[t] EXCEPT !.phase = "returned", !.writes = ws]
  OBVIOUS
<1>5. /\ ws \in [Ids -> Values \cup {Unwritten}] /\ ws[r.id] = Missing
      /\ \A i \in Ids \ {r.id} : ws[i] = Unwritten
  BY <1>2, <1>3 DEF Values, NoWrites
<1>6. after \in Transaction
  BY <1>2, <1>4, <1>5 DEF Transaction, Phases
<1>7. /\ after.phase = "returned" /\ after.request = r /\ after.read = tx[t].read
      /\ after.reads = tx[t].reads /\ after.asset = tx[t].asset
      /\ after.result = tx[t].result /\ after.writes = ws /\ after.event = tx[t].event
  BY <1>2, <1>4 DEF Transaction
<1>8. Written(after)
  BY <1>1, <1>2, <1>5, <1>7 DEF Written
<1>9. Continues(t, after)
  BY <1>2, <1>3, <1>4 DEF del_state, Transaction
<1> QED
  BY <1>1, <1>6, <1>7, <1>8, <1>9, WriteKeepsInv

(***************************************************************************)
(* A transaction that is not valid ends and keeps the invariant.           *)
(***************************************************************************)
LEMMA InvalidatedKeepsInv ==
    ASSUME IInv, NEW t \in Txs, Invalidated(t)
    PROVE  IInv' /\ Pending(t)
<1>1. tx[t] \in Transaction /\ TxOK(tx[t]) /\ tx[t].phase = "returned"
  BY DEF IInv, TypeOK, Invalidated, Endorsed
<1>2. PICK after : after = [tx[t] EXCEPT !.phase = "invalid"]
  OBVIOUS
<1>3. after \in Transaction
  BY <1>1, <1>2 DEF Transaction, Phases
<1>4. after.phase = "invalid" /\ after.request = tx[t].request
  BY <1>1, <1>2 DEF Transaction
<1>5. TxOK(after)
  BY <1>1, <1>4 DEF TxOK
<1>6. tx' = [tx EXCEPT ![t] = after] /\ UNCHANGED ledger
  BY <1>2 DEF Invalidated
<1> QED
  BY <1>1, <1>3, <1>4, <1>5, <1>6, StepKeepsInv

-----------------------------------------------------------------------------
(* Commit *)

(***************************************************************************)
(* What the invariant says of a transaction that may take effect.          *)
(***************************************************************************)
LEMMA EndorsedFacts ==
    ASSUME IInv, NEW t \in Txs, Endorsed(t)
    PROVE  /\ tx[t] \in Transaction /\ tx[t].phase = "returned"
           /\ tx[t].request \in Request /\ tx[t].request.id \in Ids
           /\ tx[t].writes \in [Ids -> Values \cup {Unwritten}]
           /\ tx[t].request.op \in Keyed \/ tx[t].request.op = "InitLedger"
           /\ tx[t].request.op \in Keyed => ReadOK(tx[t]) /\ ToPut(tx[t]) /\ Written(tx[t])
           /\ tx[t].request.op = "InitLedger" =>
                 Quiet(tx[t]) /\ SeedsPut(tx[t]) /\ tx[t].puts = Len(Seeds)
<1>1. tx[t] \in Transaction /\ TxOK(tx[t]) /\ tx[t].phase = "returned"
  BY DEF IInv, TypeOK, Endorsed
<1>2. tx[t].request \in Request
  BY <1>1 DEF TxOK
<1>3. tx[t].request.id \in Ids
  BY <1>2 DEF Request
<1>4. tx[t].writes \in [Ids -> Values \cup {Unwritten}]
  BY <1>1 DEF Transaction
<1>5. tx[t].request.op \in Keyed \/ tx[t].request.op = "InitLedger"
  BY DEF Endorsed, Submits, Keyed
<1> QED
  BY <1>1, <1>2, <1>3, <1>4, <1>5 DEF TxOK

(***************************************************************************)
(* An asset is written under its own identifier.                           *)
(***************************************************************************)
LEMMA WritesOwnKey ==
    ASSUME IInv, NEW t \in Txs, Endorsed(t), NEW i \in Ids, tx[t].writes[i] \in Asset
    PROVE  tx[t].writes[i].id = i
<1> DEFINE r == tx[t].request
<1>1. tx[t].writes[i] # Unwritten /\ tx[t].writes[i] # Missing
  BY TxMarkersAssumption, MarkersAssumption DEF Values
<1>2. CASE r.op = "InitLedger"
  <2>1. SeedsPut(tx[t])
    BY <1>2, EndorsedFacts
  <2>2. PICK n \in 1 .. Len(Seeds) : n <= tx[t].puts /\ Seeds[n].id = i
    BY <1>1, <2>1 DEF SeedsPut
  <2> QED
    BY <2>1, <2>2 DEF SeedsPut
<1>3. CASE r.op \in Keyed
  <2>1. ToPut(tx[t]) /\ Written(tx[t])
    BY <1>3, EndorsedFacts
  <2>2. i = r.id
    BY <1>1, <2>1 DEF Written
  <2>3. r.op # "DeleteAsset"
    BY <1>1, <2>1, <2>2 DEF Written
  <2>4. tx[t].writes[i] = tx[t].asset
    BY <2>1, <2>2, <2>3 DEF Written
  <2>5. CASE r.op = "TransferAsset"
    BY <2>1, <2>2, <2>4, <2>5 DEF ToPut
  <2>6. CASE r.op \in {"CreateAsset", "UpdateAsset"}
    BY <2>1, <2>2, <2>4, <2>6 DEF ToPut, NewAsset
  <2> QED
    BY <1>3, <2>3, <2>5, <2>6 DEF Keyed
<1> QED
  BY <1>2, <1>3, EndorsedFacts

(***************************************************************************)
(* The ledger after a commit, key by key.                                  *)
(***************************************************************************)
LEMMA CommittedLedger ==
    ASSUME IInv, NEW t \in Txs, Commits(t)
    PROVE  /\ height' = height + 1 /\ height \in Nat
           /\ state' \in [Ids -> Values] /\ version' \in [Ids -> Nat]
           /\ \A i \in Ids :
                 /\ tx[t].writes[i] = Unwritten => state'[i] = state[i] /\ version'[i] = version[i]
                 /\ tx[t].writes[i] = Missing => state'[i] = Missing /\ version'[i] = 0
                 /\ tx[t].writes[i] \notin {Unwritten, Missing} =>
                       state'[i] = tx[t].writes[i] /\ version'[i] = height + 1
<1>1. /\ state \in [Ids -> Values] /\ version \in [Ids -> Nat] /\ height \in Nat
  BY DEF IInv, TypeOK
<1>2. tx[t].writes \in [Ids -> Values \cup {Unwritten}]
  BY EndorsedFacts DEF Commits
<1>3. Missing # Unwritten
  BY TxMarkersAssumption DEF Values
<1>4. height' = height + 1
  BY DEF Commits
<1>5. \A i \in Ids :
        /\ state'[i] = IF tx[t].writes[i] = Unwritten THEN state[i] ELSE tx[t].writes[i]
        /\ tx[t].writes[i] = Unwritten => version'[i] = version[i]
        /\ tx[t].writes[i] = Missing => version'[i] = 0
        /\ tx[t].writes[i] \notin {Unwritten, Missing} => version'[i] = height + 1
  BY <1>3 DEF Commits
<1>6. \A i \in Ids : state'[i] \in Values /\ version'[i] \in Nat
  BY <1>1, <1>2, <1>5
<1>7. state' = [i \in Ids |-> state'[i]] /\ version' = [i \in Ids |-> version'[i]]
  BY DEF Commits
<1> QED
  BY <1>1, <1>3, <1>4, <1>5, <1>6, <1>7

(***************************************************************************)
(* A commit keeps the invariant, of the ledger and of every other          *)
(* transaction: a key that is written gets a version that none has read.   *)
(***************************************************************************)
LEMMA CommitKeepsInv ==
    ASSUME IInv, NEW t \in Txs, Commits(t)
    PROVE  IInv'
<1> DEFINE writes == tx[t].writes
<1>1. /\ height' = height + 1 /\ height \in Nat
      /\ state' \in [Ids -> Values] /\ version' \in [Ids -> Nat]
  BY CommittedLedger
<1>2. \A i \in Ids :
        /\ writes[i] = Unwritten => state'[i] = state[i] /\ version'[i] = version[i]
        /\ writes[i] = Missing => state'[i] = Missing /\ version'[i] = 0
        /\ writes[i] \notin {Unwritten, Missing} =>
              state'[i] = writes[i] /\ version'[i] = height + 1
  BY CommittedLedger
<1>3. Endorsed(t)
  BY DEF Commits
<1>4. PICK after : after = [tx[t] EXCEPT !.phase = "valid"]
  OBVIOUS
<1>5. tx[t] \in Transaction /\ tx[t].request \in Request
  BY <1>3, EndorsedFacts
<1>6. after \in Transaction
  BY <1>4, <1>5 DEF Transaction, Phases
<1>7. after.phase = "valid" /\ after.request = tx[t].request
  BY <1>4, <1>5 DEF Transaction
<1>8. tx' = [tx EXCEPT ![t] = after]
  BY <1>4 DEF Commits
<1>9. TypeOK'
  BY <1>1, <1>6, <1>8 DEF IInv, TypeOK
<1>10. LedgerOK'
  <2> SUFFICES ASSUME NEW i \in Ids
               PROVE  /\ version'[i] <= height' /\ (version'[i] = 0 <=> state'[i] = Missing)
                      /\ state'[i] \in Asset => state'[i].id = i
    BY DEF LedgerOK
  <2>1. /\ version[i] \in Nat /\ version[i] <= height
        /\ (version[i] = 0 <=> state[i] = Missing)
        /\ state[i] \in Asset => state[i].id = i
    BY DEF IInv, TypeOK, LedgerOK
  <2>2. CASE writes[i] = Unwritten
    BY <1>1, <1>2, <2>1, <2>2
  <2>3. CASE writes[i] = Missing
    BY <1>1, <1>2, <2>3, MarkersAssumption
  <2>4. CASE writes[i] \notin {Unwritten, Missing}
    <3>1. state'[i] = writes[i] /\ version'[i] = height + 1
      BY <1>2, <2>4
    <3>2. writes[i] \in Asset => writes[i].id = i
      BY <1>3, WritesOwnKey
    <3> QED
      BY <1>1, <2>4, <3>1, <3>2
  <2> QED
    BY <2>2, <2>3, <2>4
<1>11. ASSUME NEW u \in Txs PROVE TxOK(tx[u])'
  <2>1. CASE u = t
    <3>1. tx'[u].phase = "valid" /\ tx'[u].request \in Request
      BY <1>5, <1>7, <1>8, <2>1 DEF IInv, TypeOK
    <3> QED
      BY <3>1 DEF TxOK
  <2>2. CASE u # t
    <3>1. PICK x : x = tx[u] /\ x = tx'[u]
      BY <1>8, <2>2 DEF IInv, TypeOK
    <3>2. TxOK(tx[u])
      BY DEF IInv
    <3>3. ASSUME x.request \in Request, ReadOK(tx[u]) PROVE ReadOK(tx[u])'
      <4> DEFINE id == x.request.id
      <4>1. id \in Ids
        BY <3>3 DEF Request
      <4>2. /\ x.reads[id] \in Nat /\ x.reads[id] <= height
            /\ x.reads[id] = 0 => x.read = Missing
            /\ x.reads[id] = version[id] => state[id] = x.read
        BY <3>1, <3>3 DEF ReadOK
      <4>3. x.reads[id] <= height'
        BY <1>1, <4>2
      <4>4. x.reads[id] = version'[id] => state'[id] = x.read
        <5>1. CASE writes[id] = Unwritten
          BY <1>2, <4>1, <4>2, <5>1
        <5>2. CASE writes[id] = Missing
          BY <1>2, <4>1, <4>2, <5>2
        <5>3. CASE writes[id] \notin {Unwritten, Missing}
          BY <1>1, <1>2, <4>1, <4>2, <5>3
        <5> QED
          BY <5>1, <5>2, <5>3
      <4>5. /\ x.request.op = "CreateAsset" => x.read = Missing
            /\ x.request.op # "CreateAsset" => x.read \in Asset /\ x.read.id = id
        BY <3>1, <3>3 DEF ReadOK
      <4> QED
        BY <3>1, <4>2, <4>3, <4>4, <4>5 DEF ReadOK
    <3> QED
      BY <3>1, <3>2, <3>3 DEF TxOK, ToPut, Written, Quiet, NoWrites, SeedsPut
  <2> QED
    BY <2>1, <2>2
<1> QED
  BY <1>9, <1>10, <1>11 DEF IInv

-----------------------------------------------------------------------------
(* The invariant *)

(***************************************************************************)
(* The invariant holds at first.                                           *)
(***************************************************************************)
LEMMA InitInv == Init => IInv
<1> SUFFICES ASSUME Init PROVE IInv
  OBVIOUS
<1>1. state \in [Ids -> Values]
  BY RequestsAssumption DEF Init
<1>2. /\ version \in [Ids -> Nat]
      /\ \A i \in Ids : version[i] = IF state[i] = Missing THEN 0 ELSE 1
  BY DEF Init
<1>3. Idle \in Transaction
  BY DEF Idle, Transaction, Phases, Transients, Values
<1>4. tx \in [Txs -> Transaction] /\ \A t \in Txs : tx[t] = Idle
  BY <1>3 DEF Init
<1>5. TypeOK
  BY <1>1, <1>2, <1>4 DEF TypeOK, Init
<1>6. LedgerOK
  BY <1>2 DEF LedgerOK, Init
<1>7. Idle.phase = "idle"
  BY DEF Idle
<1>8. \A t \in Txs : TxOK(tx[t])
  BY <1>4, <1>7 DEF TxOK
<1> QED
  BY <1>5, <1>6, <1>8 DEF IInv

(***************************************************************************)
(* A step commits one transaction, or leaves it pending.                   *)
(***************************************************************************)
LEMMA StepOf ==
    ASSUME IInv, Next
    PROVE  IInv' /\ \E t \in Txs : Commits(t) \/ Pending(t)
<1>1. PICK t \in Txs : new(t) \/ NewFails(t) \/ Chaincode(t) \/ CallFails(t)
                        \/ Commits(t) \/ Invalidated(t)
  BY DEF Next
<1>2. CASE new(t)
  BY <1>2, NewKeepsInv
<1>3. CASE NewFails(t)
  BY <1>3, FailKeepsInv DEF NewFails
<1>4. CASE CallFails(t)
  BY <1>4, FailKeepsInv DEF CallFails
<1>5. CASE Commits(t)
  BY <1>5, CommitKeepsInv
<1>6. CASE Invalidated(t)
  BY <1>6, InvalidatedKeepsInv
<1>7. CASE Chaincode(t)
  BY <1>7, InitLedgerKeepsInv, CreateKeepsInv, ReadAssetKeepsInv, UpdateKeepsInv,
     DeleteKeepsInv, ExistsKeepsInv, TransferKeepsInv, GetAllKeepsInv, TransientKeepsInv,
     PutKeepsInv, DelKeepsInv DEF Chaincode
<1> QED
  BY <1>1, <1>2, <1>3, <1>4, <1>5, <1>6, <1>7

(***************************************************************************)
(* Stuttering keeps the invariant.                                         *)
(***************************************************************************)
LEMMA StutterKeepsInv ==
    ASSUME IInv, UNCHANGED vars
    PROVE  IInv'
BY DEF IInv, TypeOK, LedgerOK, TxOK, ReadOK, ToPut, Written, Quiet, NoWrites, SeedsPut, vars

(***************************************************************************)
(* The inductive invariant holds in every state.                           *)
(***************************************************************************)
THEOREM Invariance == Spec => []IInv
<1>1. IInv /\ [Next]_vars => IInv'
  BY StepOf, StutterKeepsInv
<1> QED
  BY <1>1, InitInv, PTL DEF Spec

(***************************************************************************)
(* Type correctness, for any number of transactions, keys and seeds.       *)
(***************************************************************************)
THEOREM TypeCorrect == Spec => []TypeOK
<1>1. IInv => TypeOK
  BY DEF IInv
<1> QED
  BY <1>1, Invariance, PTL

-----------------------------------------------------------------------------
(* What a commit does *)

(***************************************************************************)
(* A transaction that takes effect has read the current value of its key:  *)
(* its version is current, and with it the value.                          *)
(***************************************************************************)
LEMMA ReadIsCurrent ==
    ASSUME IInv, NEW t \in Txs, Commits(t), tx[t].request.op \in Keyed
    PROVE  state[tx[t].request.id] = tx[t].read
<1> DEFINE id == tx[t].request.id
<1>1. Endorsed(t) /\ Current(t)
  BY DEF Commits
<1>2. id \in Ids /\ ReadOK(tx[t])
  BY <1>1, EndorsedFacts
<1>3. tx[t].reads[id] \in Nat /\ tx[t].reads[id] \in {Unread, version[id]}
  BY <1>1, <1>2 DEF ReadOK, Current
<1>4. tx[t].reads[id] = version[id]
  BY <1>3, TxMarkersAssumption
<1> QED
  BY <1>2, <1>4 DEF ReadOK

(***************************************************************************)
(* Only a commit makes a transaction valid, and only its own.              *)
(***************************************************************************)
LEMMA TakesEffect ==
    ASSUME IInv, NEW t \in Txs, NEW u \in Txs, Commits(u) \/ Pending(u),
           tx[t].phase # "valid", tx'[t].phase = "valid"
    PROVE  t = u /\ Commits(u)
<1>1. CASE Pending(u)
  <2>1. PICK after : after.phase # "valid" /\ tx' = [tx EXCEPT ![u] = after]
    BY <1>1 DEF Pending
  <2>2. tx'[t] = after \/ tx'[t] = tx[t]
    BY <2>1 DEF IInv, TypeOK
  <2> QED
    BY <2>1, <2>2
<1>2. CASE Commits(u)
  <2>1. t # u => tx'[t] = tx[t]
    BY <1>2 DEF Commits, IInv, TypeOK
  <2> QED
    BY <1>2, <2>1
<1> QED
  BY <1>1, <1>2

(***************************************************************************)
(* No update is lost, whatever transactions run at the same time.          *)
(***************************************************************************)
THEOREM NoUpdateLost == Spec => NoLostUpdate
<1> DEFINE Kept(t) ==
        /\ tx[t].phase = "returned" /\ tx'[t].phase = "valid"
        /\ tx[t].request.op # "InitLedger"
        => state[tx[t].request.id] = tx[t].read
<1>1. IInv /\ [Next]_vars => [\A t \in Txs : Kept(t)]_vars
  <2> SUFFICES ASSUME IInv, Next, NEW t \in Txs,
                      tx[t].phase = "returned", tx'[t].phase = "valid",
                      tx[t].request.op # "InitLedger"
               PROVE  state[tx[t].request.id] = tx[t].read
    OBVIOUS
  <2>1. PICK u \in Txs : Commits(u) \/ Pending(u)
    BY StepOf
  <2>2. Commits(t)
    BY <2>1, TakesEffect
  <2>3. tx[t].request.op \in Keyed
    BY <2>2, EndorsedFacts DEF Commits
  <2> QED
    BY <2>2, <2>3, ReadIsCurrent
<1> QED
  BY <1>1, Invariance, PTL DEF Spec, NoLostUpdate

-----------------------------------------------------------------------------
(* Refinement *)

(***************************************************************************)
(* A pending transaction stays without an outcome, and others keep theirs. *)
(***************************************************************************)
LEMMA PendingStutters ==
    ASSUME IInv, NEW t \in Txs, Pending(t)
    PROVE  state' = state /\ Outcome' = Outcome
<1>1. PICK after : after.phase # "valid" /\ tx' = [tx EXCEPT ![t] = after]
  BY DEF Pending
<1>2. tx[t].phase # "valid" /\ state' = state
  BY DEF Pending
<1>3. tx'[t] = after /\ \A u \in Txs : u # t => tx'[u] = tx[u]
  BY <1>1 DEF IInv, TypeOK
<1>4. \A u \in Txs : Outcome'[u] = Outcome[u]
  BY <1>1, <1>2, <1>3 DEF Outcome
<1> QED
  BY <1>2, <1>4 DEF Outcome

(***************************************************************************)
(* A commit gives its transaction its outcome.                             *)
(***************************************************************************)
LEMMA CommitOutcome ==
    ASSUME IInv, NEW t \in Txs, Commits(t)
    PROVE  Registry!Done(t, tx[t].request, tx[t].result, tx[t].event)
<1>1. tx[t] \in Transaction /\ tx[t].phase = "returned"
  BY EndorsedFacts DEF Commits
<1>2. PICK after : after = [tx[t] EXCEPT !.phase = "valid"]
  OBVIOUS
<1>3. /\ after.phase = "valid" /\ after.request = tx[t].request
      /\ after.result = tx[t].result /\ after.event = tx[t].event
  BY <1>1, <1>2 DEF Transaction
<1>4. tx' = [tx EXCEPT ![t] = after]
  BY <1>2 DEF Commits
<1>5. tx'[t] = after /\ \A u \in Txs : u # t => tx'[u] = tx[u]
  BY <1>4 DEF IInv, TypeOK
<1>6. Outcome[t] = NoOutcome
  BY <1>1 DEF Outcome
<1> DEFINE o == [request |-> tx[t].request, result |-> tx[t].result, event |-> tx[t].event]
<1>7. Outcome'[t] = o /\ \A u \in Txs : u # t => Outcome'[u] = Outcome[u]
  BY <1>3, <1>5 DEF Outcome
<1>8. Outcome' = [Outcome EXCEPT ![t] = o]
  BY <1>7 DEF Outcome
<1> QED
  BY <1>6, <1>8 DEF Registry!Done

(***************************************************************************)
(* The state after the commit of a transaction with one key.               *)
(***************************************************************************)
LEMMA KeyedState ==
    ASSUME IInv, NEW t \in Txs, Commits(t), tx[t].request.op \in Keyed
    PROVE  state' = [state EXCEPT ![tx[t].request.id] =
                        IF tx[t].request.op = "DeleteAsset" THEN Missing ELSE tx[t].asset]
<1> DEFINE r == tx[t].request
           w == IF r.op = "DeleteAsset" THEN Missing ELSE tx[t].asset
<1>1. /\ r.id \in Ids /\ Written(tx[t])
      /\ tx[t].writes \in [Ids -> Values \cup {Unwritten}]
  BY EndorsedFacts DEF Commits
<1>2. state \in [Ids -> Values]
  BY DEF IInv, TypeOK
<1>3. tx[t].writes[r.id] = w /\ \A i \in Ids \ {r.id} : tx[t].writes[i] = Unwritten
  BY <1>1 DEF Written
<1>4. w # Unwritten
  <2>1. CASE r.op = "DeleteAsset"
    BY <2>1, TxMarkersAssumption DEF Values
  <2>2. CASE r.op # "DeleteAsset"
    <3>1. tx[t].asset \in Asset \cup {Missing}
      BY EndorsedFacts DEF Commits, Transaction
    <3> QED
      BY <2>2, <3>1, TxMarkersAssumption DEF Values
  <2> QED
    BY <2>1, <2>2
<1>5. state' = [i \in Ids |-> IF tx[t].writes[i] = Unwritten THEN state[i] ELSE tx[t].writes[i]]
  BY DEF Commits
<1>6. \A i \in Ids : state'[i] = IF i = r.id THEN w ELSE state[i]
  BY <1>3, <1>4, <1>5
<1> QED
  BY <1>2, <1>5, <1>6

(***************************************************************************)
(* A commit is a step of the registry.                                     *)
(***************************************************************************)
LEMMA CommitImplements ==
    ASSUME IInv, NEW t \in Txs, Commits(t)
    PROVE  Registry!Next
<1> DEFINE r == tx[t].request
<1>1. /\ r \in Request /\ r.id \in Ids /\ (r.op \in Keyed \/ r.op = "InitLedger")
      /\ r.op \in Keyed => ReadOK(tx[t]) /\ ToPut(tx[t]) /\ Written(tx[t])
      /\ r.op = "InitLedger" => Quiet(tx[t]) /\ SeedsPut(tx[t]) /\ tx[t].puts = Len(Seeds)
  BY EndorsedFacts DEF Commits
<1>2. Registry!Done(t, r, tx[t].result, tx[t].event)
  BY CommitOutcome
<1>3. r \in Registry!Request
  BY <1>1 DEF Request, Registry!Request, Submits, Evaluates, Registry!Submits, Registry!Evaluates
<1>4. CASE r.op = "InitLedger"
  <2>1. tx[t].result = Unit /\ tx[t].event = NoEvent /\ SeedsPut(tx[t]) /\ tx[t].puts = Len(Seeds)
    BY <1>1, <1>4 DEF Quiet
  <2>2. /\ state' \in [Ids -> Values]
        /\ \A i \in Ids : tx[t].writes[i] = Unwritten => state'[i] = state[i]
        /\ \A i \in Ids : tx[t].writes[i] \notin {Unwritten, Missing} =>
                               state'[i] = tx[t].writes[i]
    BY CommittedLedger
  <2>3. \A n \in 1 .. Len(Seeds) : state'[Seeds[n].id] = Seeds[n]
    <3> TAKE n \in 1 .. Len(Seeds)
    <3>1. Seeds[n] \in Asset /\ Seeds[n].id \in Ids /\ Len(Seeds) \in Nat
      BY SeedsFacts
    <3>2. tx[t].writes[Seeds[n].id] = Seeds[n]
      BY <2>1, <3>1 DEF SeedsPut
    <3>3. Seeds[n] \notin {Unwritten, Missing}
      BY <3>1, TxMarkersAssumption, MarkersAssumption DEF Values
    <3> QED
      BY <2>2, <3>1, <3>2, <3>3
  <2>4. \A i \in Ids : (\A n \in 1 .. Len(Seeds) : Seeds[n].id # i) => state'[i] = state[i]
    BY <2>1, <2>2 DEF SeedsPut
  <2>5. Registry!Values = Values
    BY DEF Registry!Values, Values, Registry!Asset, Asset
  <2>6. Registry!InitLedger(t, r)
    BY <1>2, <2>1, <2>2, <2>3, <2>4, <2>5 DEF Registry!InitLedger
  <2> QED
    BY <1>3, <1>4, <2>6 DEF Registry!Next
<1>5. CASE r.op \in Keyed
  <2>1. state' = [state EXCEPT ![r.id] = IF r.op = "DeleteAsset" THEN Missing ELSE tx[t].asset]
    BY <1>5, KeyedState
  <2>2. state[r.id] = tx[t].read
    BY <1>5, ReadIsCurrent
  <2>3. Registry!Asset = Asset
    BY DEF Registry!Asset, Asset
  <2>4. CASE r.op = "CreateAsset"
    <3>1. state[r.id] = Missing /\ r.id # EmptyId
      BY <1>1, <1>5, <2>2, <2>4 DEF ReadOK, Written
    <3>2. /\ tx[t].asset = [id |-> r.id, owner |-> r.owner, details |-> r.details]
          /\ tx[t].result = Unit /\ tx[t].event = NoEvent
      BY <1>1, <1>5, <2>4 DEF ToPut, Written, NewAsset
    <3>3. Registry!CreateAsset(t, r)
      BY <1>2, <2>1, <2>4, <3>1, <3>2 DEF Registry!CreateAsset
    <3> QED
      BY <1>3, <2>4, <3>3 DEF Registry!Next
  <2>5. CASE r.op = "UpdateAsset"
    <3>1. state[r.id] \in Asset
      BY <1>1, <1>5, <2>2, <2>5 DEF ReadOK
    <3>2. /\ tx[t].asset = [id |-> r.id, owner |-> r.owner, details |-> r.details]
          /\ tx[t].result = Unit /\ tx[t].event = NoEvent
      BY <1>1, <1>5, <2>5 DEF ToPut, Written, NewAsset
    <3>3. Registry!UpdateAsset(t, r)
      BY <1>2, <2>1, <2>3, <2>5, <3>1, <3>2 DEF Registry!UpdateAsset
    <3> QED
      BY <1>3, <2>5, <3>3 DEF Registry!Next
  <2>6. CASE r.op = "DeleteAsset"
    <3>1. state[r.id] \in Asset
      BY <1>1, <1>5, <2>2, <2>6 DEF ReadOK
    <3>2. tx[t].result = Unit /\ tx[t].event = NoEvent
      BY <1>1, <1>5, <2>6 DEF ToPut, Written
    <3>3. Registry!DeleteAsset(t, r)
      BY <1>2, <2>1, <2>3, <2>6, <3>1, <3>2 DEF Registry!DeleteAsset
    <3> QED
      BY <1>3, <2>6, <3>3 DEF Registry!Next
  <2>7. CASE r.op = "TransferAsset"
    <3>1. state[r.id] \in Asset
      BY <1>1, <1>5, <2>2, <2>7 DEF ReadOK
    <3>2. /\ tx[t].asset = [id |-> r.id, owner |-> r.owner, details |-> state[r.id].details]
          /\ tx[t].result = state[r.id].owner /\ tx[t].event = tx[t].asset
      BY <1>1, <1>5, <2>2, <2>7 DEF ToPut, Written
    <3>3. Registry!TransferAsset(t, r)
      BY <1>2, <2>1, <2>3, <2>7, <3>1, <3>2 DEF Registry!TransferAsset
    <3> QED
      BY <1>3, <2>7, <3>3 DEF Registry!Next
  <2> QED
    BY <1>5, <2>4, <2>5, <2>6, <2>7 DEF Keyed
<1> QED
  BY <1>1, <1>4, <1>5

(***************************************************************************)
(* Concurrent transactions implement the registry in which transactions    *)
(* take effect one after the other.                                        *)
(***************************************************************************)
THEOREM Refinement == Spec => ImplementsRegistry
<1>1. Init => Registry!Init
  <2> SUFFICES ASSUME Init PROVE Registry!Init
    OBVIOUS
  <2>1. state \in [Ids -> Values]
    BY InitInv DEF IInv, TypeOK
  <2>2. Registry!Values = Values
    BY DEF Registry!Values, Values, Registry!Asset, Asset
  <2>3. \A t \in Txs : tx[t].phase = "idle"
    BY DEF Init, Idle
  <2>4. Outcome = [t \in Txs |-> NoOutcome]
    BY <2>3 DEF Outcome
  <2> QED
    BY <2>1, <2>2, <2>4 DEF Registry!Init
<1>2. IInv /\ [Next]_vars => [Registry!Next]_(Registry!vars)
  <2> SUFFICES ASSUME IInv, [Next]_vars PROVE Registry!Next \/ UNCHANGED Registry!vars
    OBVIOUS
  <2>1. CASE Next
    <3>1. PICK t \in Txs : Commits(t) \/ Pending(t)
      BY <2>1, StepOf
    <3> QED
      BY <3>1, CommitImplements, PendingStutters DEF Registry!vars
  <2>2. CASE UNCHANGED vars
    BY <2>2 DEF vars, Registry!vars, Outcome
  <2> QED
    BY <2>1, <2>2
<1> QED
  BY <1>1, <1>2, Invariance, PTL DEF Spec, ImplementsRegistry, Registry!Spec

=============================================================================
