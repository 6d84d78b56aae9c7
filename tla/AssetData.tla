------------------------------ MODULE AssetData -----------------------------
(***************************************************************************)
(* Assets, the values of the ledger's keys and the requests of clients, as *)
(* the asset-transfer chaincode has them (examples/asset-transfer).        *)
(***************************************************************************)
EXTENDS Naturals, Sequences

CONSTANTS
    Ids,        \* keys and identifiers of assets
    EmptyId,    \* the empty string: an identifier, but no key
    Owners,
    Details,    \* color, size and appraised value
    Seeds,      \* the assets of init_ledger, in order
    Missing,    \* the empty value: no asset
    Corrupt,    \* a value that is no asset, left by other chaincode
    Unit,       \* the result ()
    NoEvent

Asset == [id: Ids, owner: Owners, details: Details]

Values == Asset \cup {Missing, Corrupt}

Submits == {"InitLedger", "CreateAsset", "UpdateAsset", "DeleteAsset", "TransferAsset"}

Evaluates == {"ReadAsset", "AssetExists", "GetAllAssets", "ReadTransient"}

(***************************************************************************)
(* A function name with arguments; an operation ignores those it has not.  *)
(***************************************************************************)
Request == [op: Submits \cup Evaluates, id: Ids, owner: Owners, details: Details]

ASSUME IdsAssumption == EmptyId \in Ids

ASSUME SeedsAssumption ==
    /\ Seeds \in Seq(Asset)
    /\ \A m \in 1 .. Len(Seeds) : Seeds[m].id # EmptyId
    /\ \A m, n \in 1 .. Len(Seeds) : Seeds[m].id = Seeds[n].id => m = n

ASSUME MarkersAssumption ==
    Missing \notin Asset /\ Corrupt \notin Asset /\ Missing # Corrupt

=============================================================================
