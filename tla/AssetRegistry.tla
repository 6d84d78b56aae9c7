--------------------------- MODULE AssetRegistry ----------------------------
(***************************************************************************)
(* What the asset-transfer chaincode promises its clients: a registry of   *)
(* assets on which every transaction that takes effect does so at once, at *)
(* most once, and with the outcome it has in that order.                   *)
(***************************************************************************)
EXTENDS AssetData

CONSTANTS Txs, NoOutcome

VARIABLES
    assets,     \* the registry: the value of an identifier
    outcome     \* what a transaction did

vars == <<assets, outcome>>

Init ==
    /\ assets \in [Ids -> Values]
    /\ outcome = [t \in Txs |-> NoOutcome]

Done(t, r, result, event) ==
    /\ outcome[t] = NoOutcome
    /\ outcome' = [outcome EXCEPT ![t] = [request |-> r, result |-> result, event |-> event]]

InitLedger(t, r) ==
    /\ assets' \in [Ids -> Values]
    /\ \A n \in 1 .. Len(Seeds) : assets'[Seeds[n].id] = Seeds[n]
    /\ \A i \in Ids : (\A n \in 1 .. Len(Seeds) : Seeds[n].id # i) => assets'[i] = assets[i]
    /\ Done(t, r, Unit, NoEvent)

CreateAsset(t, r) ==
    /\ r.id # EmptyId /\ assets[r.id] = Missing
    /\ assets' = [assets EXCEPT ![r.id] =
                    [id |-> r.id, owner |-> r.owner, details |-> r.details]]
    /\ Done(t, r, Unit, NoEvent)

UpdateAsset(t, r) ==
    /\ assets[r.id] \in Asset
    /\ assets' = [assets EXCEPT ![r.id] =
                    [id |-> r.id, owner |-> r.owner, details |-> r.details]]
    /\ Done(t, r, Unit, NoEvent)

DeleteAsset(t, r) ==
    /\ assets[r.id] \in Asset
    /\ assets' = [assets EXCEPT ![r.id] = Missing]
    /\ Done(t, r, Unit, NoEvent)

TransferAsset(t, r) ==
    LET asset == [id |-> r.id, owner |-> r.owner, details |-> assets[r.id].details] IN
    /\ assets[r.id] \in Asset
    /\ assets' = [assets EXCEPT ![r.id] = asset]
    /\ Done(t, r, assets[r.id].owner, asset)

Next ==
    \E t \in Txs, r \in Request :
        \/ r.op = "InitLedger" /\ InitLedger(t, r)
        \/ r.op = "CreateAsset" /\ CreateAsset(t, r)
        \/ r.op = "UpdateAsset" /\ UpdateAsset(t, r)
        \/ r.op = "DeleteAsset" /\ DeleteAsset(t, r)
        \/ r.op = "TransferAsset" /\ TransferAsset(t, r)

Spec == Init /\ [][Next]_vars

=============================================================================
