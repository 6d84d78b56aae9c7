----------------------------- MODULE TxSession ------------------------------
(***************************************************************************)
(* What a peer connection promises about transactions and their ledger     *)
(* calls, without the receive loop, the channels, the map of pending calls *)
(* and the gate: a transaction asks the peer one thing at a time, only     *)
(* while its chaincode is active; an answer reaches the call that asked or *)
(* nobody; a transaction is answered for once, after its chaincode.        *)
(***************************************************************************)
CONSTANTS TxKeys, Calls, KeyOf(_), NoCall

VARIABLES
    phase,     \* per transaction: idle, active, over
    asked,     \* per transaction: the call whose request is outstanding
    answered,  \* the calls that have received their answer
    verdict    \* the transactions whose outcome was sent

vars == <<phase, asked, answered, verdict>>

Init ==
    /\ phase = [k \in TxKeys |-> "idle"]
    /\ asked = [k \in TxKeys |-> NoCall]
    /\ answered = {}
    /\ verdict = {}

Begin(k) ==
    /\ phase[k] = "idle"
    /\ phase' = [phase EXCEPT ![k] = "active"]
    /\ UNCHANGED <<asked, answered, verdict>>

Ask(c) ==
    /\ phase[KeyOf(c)] = "active"
    /\ asked[KeyOf(c)] = NoCall
    /\ asked' = [asked EXCEPT ![KeyOf(c)] = c]
    /\ UNCHANGED <<phase, answered, verdict>>

(***************************************************************************)
(* The answer arrives; a call that was given up does not receive it.       *)
(***************************************************************************)
Answer(c) ==
    /\ asked[KeyOf(c)] = c
    /\ c \notin answered
    /\ asked' = [asked EXCEPT ![KeyOf(c)] = NoCall]
    /\ answered' \in {answered, answered \cup {c}}
    /\ answered' # answered => phase[KeyOf(c)] = "active"
    /\ UNCHANGED <<phase, verdict>>

(***************************************************************************)
(* The connection fails: outstanding requests and answers are lost.        *)
(***************************************************************************)
Lose(lost) ==
    /\ asked' = [k \in TxKeys |-> IF k \in lost THEN NoCall ELSE asked[k]]
    /\ UNCHANGED <<phase, answered, verdict>>

Finish(k) ==
    /\ phase[k] = "active"
    /\ phase' = [phase EXCEPT ![k] = "over"]
    /\ UNCHANGED <<asked, answered, verdict>>

Publish(k) ==
    /\ phase[k] = "over"
    /\ k \notin verdict
    /\ verdict' = verdict \cup {k}
    /\ UNCHANGED <<phase, asked, answered>>

Next ==
    \/ \E k \in TxKeys : Begin(k) \/ Finish(k) \/ Publish(k)
    \/ \E c \in Calls : Ask(c) \/ Answer(c)
    \/ \E lost \in SUBSET TxKeys : Lose(lost)

Spec == Init /\ [][Next]_vars

=============================================================================
