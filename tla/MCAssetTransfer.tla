--------------------------- MODULE MCAssetTransfer --------------------------
(***************************************************************************)
(* AssetTransfer for TLC: three transactions on the same asset and one     *)
(* other, which are missing, corrupt or there at first.                    *)
(***************************************************************************)
EXTENDS AssetTransfer, TLC

CONSTANTS empty, asset1, asset2, o1, o2, d1, d2

Of(op, id, owner, details) == [op |-> op, id |-> id, owner |-> owner, details |-> details]

Plain(op, id) == Of(op, id, o1, d1)

MCSeeds ==
    <<[id |-> asset1, owner |-> o1, details |-> d1],
      [id |-> asset2, owner |-> o1, details |-> d1]>>

MCStored == {Missing, Corrupt, MCSeeds[1]}

MCRequests ==
    {Plain("InitLedger", empty), Plain("GetAllAssets", empty),
     Plain("ReadTransient", empty), Plain("ReadAsset", asset1),
     Plain("AssetExists", asset1), Plain("DeleteAsset", asset1),
     Plain("CreateAsset", empty), Of("CreateAsset", asset1, o2, d2),
     Of("UpdateAsset", asset1, o2, d2), Plain("TransferAsset", asset1),
     Of("TransferAsset", asset1, o2, d1)}

Symmetry == Permutations(Txs)

=============================================================================
