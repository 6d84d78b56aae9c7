--------------------------- MODULE ShimConnection ---------------------------
(***************************************************************************)
(* One peer connection of the chaincode shim (fabric-shim/src/handler.rs   *)
(* and StubCore::request of stub.rs): the receive loop, the transaction    *)
(* tasks it spawns, the ledger calls the chaincode makes, the map of       *)
(* pending calls that replies are routed through and the bounded channel   *)
(* that carries everything the shim sends.  The peer and the gRPC stream   *)
(* are outside the repository and are modelled from how the code uses      *)
(* them.                                                                   *)
(*                                                                         *)
(* What a message says is left out.  What is kept is its type, the         *)
(* transaction it names, and (as a ghost) the call a request comes from    *)
(* and a reply answers: the real message has no such field, so no shim     *)
(* action reads it.                                                        *)
(*                                                                         *)
(* A definition named Mutant_X is X with a plausible mistake.  No action   *)
(* uses it; put in the place of X it makes a property fail.                *)
(***************************************************************************)
EXTENDS Naturals, Sequences, FiniteSets

CONSTANTS
    Channels, TxIds,     \* channel ids and transaction ids
    CallIds,             \* names the ledger calls one transaction may make
    Events,              \* chaincode events a handler may set
    OutCapacity,         \* capacity of the outbound channel (64 in server.rs)
    MaxKeepalives,       \* bound: keepalives the peer sends
    MaxStrays,           \* bound: out-of-turn messages the peer sends
    Orderly,             \* TRUE: the peer starts transactions after READY only
    MayCancel,           \* chaincode may drop the future of a ledger call
    Detached,            \* chaincode may leave calls running when it returns
    Breakable,           \* the stream may end or break
    NoKey, NoCall, NoEvent

(***************************************************************************)
(* TxKey: replies are correlated by the pair of channel and transaction.   *)
(***************************************************************************)
TxKeys == Channels \X TxIds

Calls == TxKeys \X CallIds

KeyOf(c) == c[1]

ASSUME CapacityAssumption == OutCapacity \in Nat \ {0}
ASSUME BoundsAssumption == MaxKeepalives \in Nat /\ MaxStrays \in Nat
ASSUME FlagsAssumption ==
    {Orderly, MayCancel, Detached, Breakable} \subseteq BOOLEAN
ASSUME NoneAssumption ==
    NoKey \notin TxKeys /\ NoCall \notin Calls /\ NoEvent \notin Events

VARIABLES
    connState,   \* the handshake state of run_connection
    loop,        \* where run_connection is
    held,        \* the message the receive loop is about to send
    inbound,     \* messages of the peer that the loop has not read
    out,         \* the outbound mpsc channel
    stream,      \* the gRPC stream: open, closed (by the peer) or broken
    pending,     \* PeerLink.pending: the call whose oneshot is registered
    task,        \* the task of spawn_transaction, per transaction
    slot,        \* the event slot of the stub
    final,       \* the message a finishing task is about to send
    call,        \* the ledger calls of the chaincode
    reply,       \* the message delivered on the oneshot of a call
    peer,        \* how far the peer is in the handshake
    started,     \* transactions the peer has sent
    atPeer,      \* requests that the peer has read and not answered
    verdicts,    \* the COMPLETED and ERROR messages the peer has read, per tx
    ping, pong,  \* keepalives the peer has sent, echoes it has read
    strays       \* out-of-turn messages the peer has sent

loopVars == <<connState, loop, held>>
taskVars == <<task, slot, final>>
callVars == <<call, reply>>
peerVars == <<peer, started, atPeer, verdicts, ping, pong, strays>>
vars == <<loopVars, inbound, out, stream, pending, taskVars, callVars, peerVars>>

-----------------------------------------------------------------------------
(* Messages *)

TxTypes == {"INIT", "TRANSACTION"}

ReplyTypes == {"RESPONSE", "ERROR"}

StrayTypes == {"REGISTERED", "READY", "OTHER"}

MsgTypes == TxTypes \cup ReplyTypes \cup StrayTypes
            \cup {"NONE", "REGISTER", "KEEPALIVE", "REQUEST", "COMPLETED"}

Message == [type: MsgTypes, key: TxKeys \cup {NoKey},
            call: Calls \cup {NoCall}, event: Events \cup {NoEvent}]

MessageLog == Seq(Message)

new_message(type, key) ==
    [type |-> type, key |-> key, call |-> NoCall, event |-> NoEvent]

NoMsg == new_message("NONE", NoKey)

(***************************************************************************)
(* A request and the replies to it carry the call they belong to.          *)
(***************************************************************************)
CallMessage(type, c) ==
    [type |-> type, key |-> KeyOf(c), call |-> c, event |-> NoEvent]

Completed(k, e) ==
    [type |-> "COMPLETED", key |-> k, call |-> NoCall, event |-> e]

-----------------------------------------------------------------------------
(* States of the parts *)

ConnState == {"Created", "Established", "Ready"}

LoopState == {"register", "recv", "echo", "reject", "ended"}

(***************************************************************************)
(* A task that answers without running the chaincode goes from "spawned"   *)
(* to "answering" and "answered".  One that runs it is "running", then     *)
(* "returned" (the inner task has ended, the outer one has not yet dropped *)
(* the pending entry), "sending" and "done".                               *)
(***************************************************************************)
TaskState == {"none", "spawned", "answering", "answered",
              "running", "returned", "sending", "done"}

(***************************************************************************)
(* "gate": waiting for the mutex of StubCore; "send": registered in        *)
(* pending and waiting for room in out; "wait": waiting for the reply.     *)
(***************************************************************************)
ActiveCall == {"gate", "send", "wait"}

EndedCall == {"ok", "peer_error", "protocol_error", "closed", "cancelled"}

CallState == {"idle"} \cup ActiveCall \cup EndedCall

Init ==
    /\ connState = "Created" /\ loop = "register" /\ held = NoMsg
    /\ inbound = <<>> /\ out = <<>> /\ stream = "open"
    /\ pending = [k \in TxKeys |-> NoCall]
    /\ task = [k \in TxKeys |-> "none"]
    /\ slot = [k \in TxKeys |-> NoEvent]
    /\ final = [k \in TxKeys |-> NoMsg]
    /\ call = [c \in Calls |-> "idle"]
    /\ reply = [c \in Calls |-> NoMsg]
    /\ peer = "new" /\ started = {} /\ atPeer = {}
    /\ verdicts = [k \in TxKeys |-> <<>>]
    /\ ping = 0 /\ pong = 0 /\ strays = 0

-----------------------------------------------------------------------------
(* PeerLink *)

OutAlive == stream # "broken"

(***************************************************************************)
(* out.send(m).await has returned: m is in the channel, or the receiving   *)
(* half is gone and the send failed.  While the channel is full and alive  *)
(* it does not return.                                                     *)
(***************************************************************************)
Mutant_LinkSend(m) ==
    IF OutAlive THEN out' = Append(out, m) ELSE UNCHANGED out

Mutant_LinkSend_Try(m) ==
    out' = IF OutAlive /\ Len(out) < OutCapacity THEN Append(out, m) ELSE out

LinkSend(m) ==
    IF OutAlive THEN Len(out) < OutCapacity /\ out' = Append(out, m)
                ELSE UNCHANGED out

drop_pending(k) == [pending EXCEPT ![k] = NoCall]

(***************************************************************************)
(* route_response: the entry of the message's (channel, txid) is removed   *)
(* and its oneshot gets the message, unless the receiver was dropped (the  *)
(* call was cancelled).  A reply that no entry waits for is dropped.       *)
(***************************************************************************)
Mutant_RouteKey(m) == CHOOSE k \in TxKeys : k[2] = m.key[2]

RouteKey(m) == m.key

Mutant_route_response(m) ==
    LET k == RouteKey(m)
        c == pending[k]
    IN  /\ pending' = drop_pending(k)
        /\ reply' = IF c # NoCall /\ call[c] = "wait" /\ m.type = "RESPONSE"
                      THEN [reply EXCEPT ![c] = m]
                      ELSE reply

route_response(m) ==
    LET k == RouteKey(m)
        c == pending[k]
    IN  /\ pending' = drop_pending(k)
        /\ reply' = IF c # NoCall /\ call[c] \in {"send", "wait"}
                      THEN [reply EXCEPT ![c] = m]
                      ELSE reply

-----------------------------------------------------------------------------
(* run_connection *)

Register ==
    /\ loop = "register"
    /\ LinkSend(new_message("REGISTER", NoKey))
    /\ loop' = IF OutAlive THEN "recv" ELSE "ended"
    /\ UNCHANGED <<connState, held, inbound, stream, pending, taskVars, callVars,
                   peerVars>>

(***************************************************************************)
(* inbound.message() has returned the next message of the peer.            *)
(***************************************************************************)
Reading ==
    /\ loop = "recv"
    /\ inbound # <<>>
    /\ inbound' = Tail(inbound)
    /\ UNCHANGED <<out, stream, peerVars>>

(***************************************************************************)
(* The arms of the match on (state, message type), the last one excepted.  *)
(***************************************************************************)
Expected(state, type) ==
    \/ state = "Created" /\ type = "REGISTERED"
    \/ state = "Established" /\ type = "READY"
    \/ type = "KEEPALIVE"
    \/ state = "Ready" /\ type \in TxTypes \cup ReplyTypes

ReceiveRegistered ==
    /\ Reading
    /\ connState = "Created" /\ Head(inbound).type = "REGISTERED"
    /\ connState' = "Established"
    /\ UNCHANGED <<loop, held, pending, taskVars, callVars>>

ReceiveReady ==
    /\ Reading
    /\ connState = "Established" /\ Head(inbound).type = "READY"
    /\ connState' = "Ready"
    /\ UNCHANGED <<loop, held, pending, taskVars, callVars>>

Mutant_ReceiveKeepalive ==
    /\ Reading
    /\ Head(inbound).type = "KEEPALIVE"
    /\ loop' = IF connState = "Ready" THEN "echo" ELSE "recv"
    /\ held' = new_message("KEEPALIVE", Head(inbound).key)
    /\ UNCHANGED <<connState, pending, taskVars, callVars>>

ReceiveKeepalive ==
    /\ Reading
    /\ Head(inbound).type = "KEEPALIVE"
    /\ loop' = "echo"
    /\ held' = new_message("KEEPALIVE", Head(inbound).key)
    /\ UNCHANGED <<connState, pending, taskVars, callVars>>

Mutant_ReceiveTransaction ==
    /\ Reading
    /\ Head(inbound).type \in TxTypes
    /\ task' = [task EXCEPT ![Head(inbound).key] = "spawned"]
    /\ UNCHANGED <<loopVars, pending, slot, final, callVars>>

ReceiveTransaction ==
    /\ Reading
    /\ connState = "Ready" /\ Head(inbound).type \in TxTypes
    /\ task' = [task EXCEPT ![Head(inbound).key] = "spawned"]
    /\ UNCHANGED <<loopVars, pending, slot, final, callVars>>

Mutant_ReceiveReply ==
    /\ Reading
    /\ connState = "Ready" /\ Head(inbound).type = "RESPONSE"
    /\ route_response(Head(inbound))
    /\ UNCHANGED <<loopVars, taskVars, call>>

ReceiveReply ==
    /\ Reading
    /\ connState = "Ready" /\ Head(inbound).type \in ReplyTypes
    /\ route_response(Head(inbound))
    /\ UNCHANGED <<loopVars, taskVars, call>>

ReceiveInvalid ==
    /\ Reading
    /\ ~Expected(connState, Head(inbound).type)
    /\ loop' = "reject"
    /\ held' = new_message("ERROR", Head(inbound).key)
    /\ UNCHANGED <<connState, pending, taskVars, callVars>>

EchoKeepalive ==
    /\ loop = "echo"
    /\ LinkSend(held)
    /\ loop' = "recv"
    /\ UNCHANGED <<connState, held, inbound, stream, pending, taskVars, callVars,
                   peerVars>>

(***************************************************************************)
(* run_connection returns: the receiving half of the stream is dropped.    *)
(* The pending map is not: every transaction task shares it.               *)
(***************************************************************************)
LoopReturns ==
    /\ loop' = "ended"
    /\ inbound' = <<>>
    /\ UNCHANGED <<connState, held, stream, pending, taskVars, callVars, peerVars>>

RejectAndReturn ==
    /\ loop = "reject"
    /\ LinkSend(held)
    /\ LoopReturns

Mutant_StreamEnded ==
    /\ loop = "recv"
    /\ inbound = <<>>
    /\ stream = "broken"
    /\ UNCHANGED out
    /\ LoopReturns

StreamEnded ==
    /\ loop = "recv"
    /\ inbound = <<>>
    /\ stream # "open"
    /\ UNCHANGED out
    /\ LoopReturns

Loop ==
    \/ Register \/ ReceiveRegistered \/ ReceiveReady \/ ReceiveKeepalive
    \/ ReceiveTransaction \/ ReceiveReply \/ ReceiveInvalid
    \/ EchoKeepalive \/ RejectAndReturn \/ StreamEnded

-----------------------------------------------------------------------------
(* spawn_transaction *)

(***************************************************************************)
(* The input or the proposal does not decode: the task answers ERROR.      *)
(***************************************************************************)
Mutant_TaskRejects_NoReturn(k) ==
    /\ task[k] = "spawned"
    /\ LinkSend(new_message("ERROR", k))
    /\ task' = [task EXCEPT ![k] = "running"]
    /\ UNCHANGED <<loopVars, inbound, stream, pending, slot, final, callVars, peerVars>>

Mutant_TaskRejects_NoAnswer(k) ==
    /\ task[k] = "spawned"
    /\ task' = [task EXCEPT ![k] = "answered"]
    /\ UNCHANGED <<loopVars, inbound, out, stream, pending, slot, final, callVars,
                   peerVars>>

TaskRejects(k) ==
    /\ task[k] = "spawned"
    /\ task' = [task EXCEPT ![k] = "answering"]
    /\ final' = [final EXCEPT ![k] = new_message("ERROR", k)]
    /\ UNCHANGED <<loopVars, inbound, out, stream, pending, slot, callVars, peerVars>>

(***************************************************************************)
(* GetMetadata of a chaincode that declares metadata is answered here.     *)
(***************************************************************************)
TaskDescribes(k) ==
    /\ task[k] = "spawned"
    /\ task' = [task EXCEPT ![k] = "answering"]
    /\ final' = [final EXCEPT ![k] = Completed(k, NoEvent)]
    /\ UNCHANGED <<loopVars, inbound, out, stream, pending, slot, callVars, peerVars>>

TaskRuns(k) ==
    /\ task[k] = "spawned"
    /\ task' = [task EXCEPT ![k] = "running"]
    /\ UNCHANGED <<loopVars, inbound, out, stream, pending, slot, final, callVars,
                   peerVars>>

(***************************************************************************)
(* The stub is used by the running chaincode, or by tasks it has detached. *)
(***************************************************************************)
MayCall(k) ==
    \/ task[k] = "running"
    \/ Detached /\ task[k] \in {"returned", "sending", "done"}

(***************************************************************************)
(* ChaincodeStub::set_event with a name: a second event replaces the first.*)
(***************************************************************************)
SetEvent(k, e) ==
    /\ MayCall(k)
    /\ slot' = [slot EXCEPT ![k] = e]
    /\ UNCHANGED <<loopVars, inbound, out, stream, pending, task, final, callVars,
                   peerVars>>

CallsOf(k) == {c \in Calls : KeyOf(c) = k}

ActiveCalls(k) == {c \in CallsOf(k) : call[c] \in ActiveCall}

(***************************************************************************)
(* The task that runs the chaincode ends, by returning a response or by    *)
(* panicking.  The futures of the calls it was still awaiting are dropped; *)
(* calls it left to other tasks (kept) go on.                              *)
(***************************************************************************)
HandlerEnds(k, kept) ==
    /\ task[k] = "running"
    /\ ~Detached => kept = {}
    /\ task' = [task EXCEPT ![k] = "returned"]
    /\ call' = [c \in Calls |-> IF c \in ActiveCalls(k) \ kept THEN "cancelled"
                                                               ELSE call[c]]
    /\ UNCHANGED <<loopVars, inbound, out, stream, pending, slot, final, reply,
                   peerVars>>

Mutant_TaskFinishes(k) ==
    /\ task[k] = "returned"
    /\ task' = [task EXCEPT ![k] = "sending"]
    /\ slot' = [slot EXCEPT ![k] = NoEvent]
    /\ final' = [final EXCEPT ![k] = Completed(k, slot[k])]
    /\ UNCHANGED <<loopVars, inbound, out, stream, pending, callVars, peerVars>>

TaskFinishes(k) ==
    /\ task[k] = "returned"
    /\ task' = [task EXCEPT ![k] = "sending"]
    /\ pending' = drop_pending(k)
    /\ slot' = [slot EXCEPT ![k] = NoEvent]
    /\ final' = [final EXCEPT ![k] = Completed(k, slot[k])]
    /\ UNCHANGED <<loopVars, inbound, out, stream, callVars, peerVars>>

TaskSends(k) ==
    /\ task[k] \in {"answering", "sending"}
    /\ LinkSend(final[k])
    /\ task' = [task EXCEPT ![k] = IF @ = "sending" THEN "done" ELSE "answered"]
    /\ UNCHANGED <<loopVars, inbound, stream, pending, slot, final, callVars, peerVars>>

Task(k) ==
    \/ TaskRejects(k) \/ TaskDescribes(k) \/ TaskRuns(k)
    \/ TaskFinishes(k) \/ TaskSends(k)

-----------------------------------------------------------------------------
(* StubCore::request and PeerLink::request *)

CallStarts(c) ==
    /\ call[c] = "idle"
    /\ MayCall(KeyOf(c))
    /\ call' = [call EXCEPT ![c] = "gate"]
    /\ UNCHANGED <<loopVars, inbound, out, stream, pending, taskVars, reply, peerVars>>

(***************************************************************************)
(* The gate is held from its acquisition until the request returns.        *)
(***************************************************************************)
Mutant_GateFree(k) == TRUE

GateFree(k) == \A c \in CallsOf(k) : call[c] \notin {"send", "wait"}

(***************************************************************************)
(* c has the gate.  Without an entry of its transaction in pending it adds *)
(* its own; with one it fails and releases the gate.                       *)
(***************************************************************************)
Mutant_InFlight(k) == FALSE

InFlight(k) == pending[k] # NoCall

CallRegisters(c) ==
    /\ call[c] = "gate"
    /\ GateFree(KeyOf(c))
    /\ ~InFlight(KeyOf(c))
    /\ pending' = [pending EXCEPT ![KeyOf(c)] = c]
    /\ call' = [call EXCEPT ![c] = "send"]
    /\ UNCHANGED <<loopVars, inbound, out, stream, taskVars, reply, peerVars>>

CallRefused(c) ==
    /\ call[c] = "gate"
    /\ GateFree(KeyOf(c))
    /\ InFlight(KeyOf(c))
    /\ call' = [call EXCEPT ![c] = "protocol_error"]
    /\ UNCHANGED <<loopVars, inbound, out, stream, pending, taskVars, reply, peerVars>>

CallSends(c) ==
    /\ call[c] = "send"
    /\ LinkSend(CallMessage("REQUEST", c))
    /\ call' = [call EXCEPT ![c] = IF OutAlive THEN "wait" ELSE "closed"]
    /\ pending' = IF OutAlive THEN pending ELSE drop_pending(KeyOf(c))
    /\ UNCHANGED <<loopVars, inbound, stream, taskVars, reply, peerVars>>

CallReturns(c) ==
    /\ call[c] = "wait"
    /\ reply[c] # NoMsg
    /\ call' = [call EXCEPT ![c] = IF reply[c].type = "RESPONSE" THEN "ok"
                                                               ELSE "peer_error"]
    /\ UNCHANGED <<loopVars, inbound, out, stream, pending, taskVars, reply, peerVars>>

(***************************************************************************)
(* The oneshot's sender was dropped unused: rx.await fails.                *)
(***************************************************************************)
SenderGone(c) == reply[c] = NoMsg /\ pending[KeyOf(c)] # c

CallClosed(c) ==
    /\ call[c] = "wait"
    /\ SenderGone(c)
    /\ call' = [call EXCEPT ![c] = "closed"]
    /\ UNCHANGED <<loopVars, inbound, out, stream, pending, taskVars, reply, peerVars>>

(***************************************************************************)
(* The chaincode drops the future of a call (a timeout, a lost select).    *)
(* The gate and the receiver go with it, the pending entry stays.          *)
(***************************************************************************)
Mutant_CallCancelled(c) ==
    /\ MayCancel
    /\ call[c] \in ActiveCall
    /\ call' = [call EXCEPT ![c] = "cancelled"]
    /\ pending' = drop_pending(KeyOf(c))
    /\ UNCHANGED <<loopVars, inbound, out, stream, taskVars, reply, peerVars>>

CallCancelled(c) ==
    /\ MayCancel
    /\ call[c] \in ActiveCall
    /\ call' = [call EXCEPT ![c] = "cancelled"]
    /\ UNCHANGED <<loopVars, inbound, out, stream, pending, taskVars, reply, peerVars>>

Request(c) ==
    \/ CallRegisters(c) \/ CallRefused(c) \/ CallSends(c)
    \/ CallReturns(c) \/ CallClosed(c)

-----------------------------------------------------------------------------
(* The peer and the stream (external) *)

PeerReads ==
    /\ out # <<>>
    /\ out' = Tail(out)
    /\ UNCHANGED <<loopVars, inbound, stream, pending, taskVars, callVars, started,
                   ping, strays>>

PeerReadsRegister ==
    /\ PeerReads
    /\ Head(out).type = "REGISTER"
    /\ peer' = "registering"
    /\ UNCHANGED <<atPeer, verdicts, pong>>

PeerReadsRequest ==
    /\ PeerReads
    /\ Head(out).type = "REQUEST"
    /\ atPeer' = atPeer \cup {Head(out).call}
    /\ UNCHANGED <<peer, verdicts, pong>>

PeerReadsEcho ==
    /\ PeerReads
    /\ Head(out).type = "KEEPALIVE"
    /\ pong' = pong + 1
    /\ UNCHANGED <<peer, atPeer, verdicts>>

PeerReadsVerdict ==
    /\ PeerReads
    /\ Head(out).type \in {"COMPLETED", "ERROR"}
    /\ verdicts' = IF Head(out).key = NoKey THEN verdicts
                   ELSE [verdicts EXCEPT ![Head(out).key] = Append(@, Head(out))]
    /\ UNCHANGED <<peer, atPeer, pong>>

(***************************************************************************)
(* What the peer sends after the loop has ended reaches nobody.            *)
(***************************************************************************)
PeerSends(m) ==
    /\ stream = "open"
    /\ inbound' = IF loop = "ended" THEN inbound ELSE Append(inbound, m)
    /\ UNCHANGED <<loopVars, out, stream, pending, taskVars, callVars, verdicts, pong>>

PeerShakesHands ==
    \/ /\ peer = "registering" /\ peer' = "registered"
       /\ PeerSends(new_message("REGISTERED", NoKey))
       /\ UNCHANGED <<started, atPeer, ping, strays>>
    \/ /\ peer = "registered" /\ peer' = "ready"
       /\ PeerSends(new_message("READY", NoKey))
       /\ UNCHANGED <<started, atPeer, ping, strays>>

(***************************************************************************)
(* A transaction id is used once.                                          *)
(***************************************************************************)
PeerStarts(k, type) ==
    /\ k \notin started
    /\ Orderly => peer = "ready"
    /\ started' = started \cup {k}
    /\ PeerSends(new_message(type, k))
    /\ UNCHANGED <<peer, atPeer, ping, strays>>

PeerAnswers(c, type) ==
    /\ c \in atPeer
    /\ atPeer' = atPeer \ {c}
    /\ PeerSends(CallMessage(type, c))
    /\ UNCHANGED <<peer, started, ping, strays>>

PeerPings ==
    /\ ping < MaxKeepalives
    /\ ping' = ping + 1
    /\ PeerSends(new_message("KEEPALIVE", NoKey))
    /\ UNCHANGED <<peer, started, atPeer, strays>>

(***************************************************************************)
(* A message out of turn names any transaction, started or not, or none.   *)
(***************************************************************************)
PeerStrays(type, k) ==
    /\ strays < MaxStrays
    /\ strays' = strays + 1
    /\ PeerSends(new_message(type, k))
    /\ UNCHANGED <<peer, started, atPeer, ping>>

PeerCloses ==
    /\ Breakable
    /\ stream = "open"
    /\ stream' = "closed"
    /\ UNCHANGED <<loopVars, inbound, out, pending, taskVars, callVars, peerVars>>

(***************************************************************************)
(* The connection is lost: what the shim has sent is gone, and so are the  *)
(* last of the messages it has not read.                                   *)
(***************************************************************************)
StreamBreaks ==
    /\ Breakable
    /\ stream # "broken"
    /\ stream' = "broken"
    /\ out' = <<>>
    /\ \E n \in 0 .. Len(inbound) : inbound' = SubSeq(inbound, 1, n)
    /\ UNCHANGED <<loopVars, pending, taskVars, callVars, peerVars>>

PeerReading ==
    \/ PeerReadsRegister \/ PeerReadsRequest \/ PeerReadsEcho \/ PeerReadsVerdict

Peer ==
    \/ PeerReading \/ PeerShakesHands \/ PeerPings \/ PeerCloses \/ StreamBreaks
    \/ \E k \in TxKeys, type \in TxTypes : PeerStarts(k, type)
    \/ \E c \in Calls, type \in ReplyTypes : PeerAnswers(c, type)
    \/ \E type \in StrayTypes, k \in TxKeys \cup {NoKey} : PeerStrays(type, k)

-----------------------------------------------------------------------------

Chaincode ==
    \/ \E k \in TxKeys, e \in Events : SetEvent(k, e)
    \/ \E k \in TxKeys : \E kept \in SUBSET ActiveCalls(k) : HandlerEnds(k, kept)
    \/ \E c \in Calls : CallStarts(c) \/ CallCancelled(c)

Shim ==
    \/ Loop
    \/ \E k \in TxKeys : Task(k)
    \/ \E c \in Calls : Request(c)

Next == Shim \/ Chaincode \/ Peer

Spec == Init /\ [][Next]_vars

(***************************************************************************)
(* Fairness.  The runtime polls every task that can make progress, and the *)
(* outbound channel and the gate serve their waiters in turn; the peer     *)
(* reads what is sent to it, completes the handshake and answers every     *)
(* request.  A handler that has no call left to wait for returns.  Nothing *)
(* makes the peer start transactions, or the chaincode cancel calls.       *)
(***************************************************************************)
Fairness ==
    /\ WF_vars(Loop)
    /\ \A k \in TxKeys : WF_vars(Task(k))
    /\ \A c \in Calls : WF_vars(Request(c))
    /\ \A k \in TxKeys : WF_vars(ActiveCalls(k) = {} /\ HandlerEnds(k, {}))
    /\ WF_vars(PeerReading)
    /\ WF_vars(PeerShakesHands)
    /\ \A c \in Calls : WF_vars(\E type \in ReplyTypes : PeerAnswers(c, type))

FairSpec == Spec /\ Fairness

-----------------------------------------------------------------------------
(* Properties *)

(***************************************************************************)
(* Every variable of the connection has its type; the outbound channel     *)
(* never exceeds its capacity.                                             *)
(***************************************************************************)
TypeOK ==
    /\ connState \in ConnState /\ loop \in LoopState /\ held \in Message
    /\ inbound \in Seq(Message) /\ out \in Seq(Message) /\ Len(out) <= OutCapacity
    /\ stream \in {"open", "closed", "broken"}
    /\ pending \in [TxKeys -> Calls \cup {NoCall}]
    /\ task \in [TxKeys -> TaskState]
    /\ slot \in [TxKeys -> Events \cup {NoEvent}]
    /\ final \in [TxKeys -> Message]
    /\ call \in [Calls -> CallState]
    /\ reply \in [Calls -> Message]
    /\ peer \in {"new", "registering", "registered", "ready"}
    /\ started \subseteq TxKeys /\ atPeer \subseteq Calls
    /\ verdicts \in [TxKeys -> MessageLog]
    /\ ping \in 0 .. MaxKeepalives /\ pong \in Nat /\ strays \in 0 .. MaxStrays

(***************************************************************************)
(* The request of c is on its way to the peer, at the peer, or its reply   *)
(* is on its way back.                                                     *)
(***************************************************************************)
Requested(c) == \E i \in 1 .. Len(out) : out[i].call = c

Replied(c) == \E i \in 1 .. Len(inbound) : inbound[i].call = c

InTransit(c) == Requested(c) \/ c \in atPeer \/ Replied(c)

(***************************************************************************)
(* The statements about one transaction hold while its chaincode runs and, *)
(* if the chaincode leaves no call behind, for ever.                       *)
(***************************************************************************)
Attended(k) == task[k] = "running" \/ ~Detached

(***************************************************************************)
(* route_response never hands a call the reply to another call: not to one *)
(* of another channel with the same transaction id, not to one that was    *)
(* cancelled and whose reply is late.                                      *)
(***************************************************************************)
NoCrossTalk ==
    \A c \in Calls : Attended(KeyOf(c)) /\ reply[c] # NoMsg => reply[c].call = c

(***************************************************************************)
(* At most one ledger request of a transaction is outstanding between shim *)
(* and peer, whatever is called concurrently and whatever is cancelled.    *)
(***************************************************************************)
OneInFlight ==
    \A c, d \in Calls :
        /\ KeyOf(c) = KeyOf(d) /\ Attended(KeyOf(c))
        /\ InTransit(c) /\ InTransit(d)
        => c = d

(***************************************************************************)
(* spawn_transaction leaves no pending entry behind: once the task is      *)
(* about to answer, the map has no entry of its transaction, and none      *)
(* comes back.                                                             *)
(***************************************************************************)
NoPendingLeak ==
    \A k \in TxKeys :
        ~Detached /\ task[k] \in {"answering", "answered", "sending", "done"}
            => pending[k] = NoCall

(***************************************************************************)
(* A call fails with ConnectionClosed only when the connection is lost, or *)
(* its transaction has finished without it: no reply of a live connection  *)
(* is lost under a caller that waits.                                      *)
(***************************************************************************)
ClosedMeansOver ==
    \A c \in Calls :
        call[c] = "closed" => stream = "broken" \/ task[KeyOf(c)] \in {"sending", "done"}

(***************************************************************************)
(* The gate does its work: a call is refused with "another ledger request  *)
(* is already in flight" only if a call of its transaction was cancelled.  *)
(***************************************************************************)
RefusedAfterCancel ==
    \A c \in Calls :
        call[c] = "protocol_error"
            => \E d \in CallsOf(KeyOf(c)) : call[d] = "cancelled"

(***************************************************************************)
(* The loop has answered, or is about to answer, ERROR to a message out of *)
(* turn that names k; k is interrupted if it has a task at that time: the  *)
(* loop returns, the task does not hear of it and goes on.                 *)
(***************************************************************************)
Rejected(k) == held.type = "ERROR" /\ held.key = k

Interrupted(k) == Rejected(k) /\ task[k] # "none"

(***************************************************************************)
(* Unless it is interrupted, a transaction gets at most one COMPLETED or   *)
(* ERROR, and it is the last message about it: nothing of it is sent after *)
(* it, and a transaction that the loop refuses is not executed as well.    *)
(***************************************************************************)
VerdictIsLast ==
    \A k \in TxKeys : Attended(k) /\ ~Interrupted(k) =>
        /\ Len(verdicts[k]) <= 1
        /\ \A i \in 1 .. Len(out) :
              out[i].key = k =>
                 /\ verdicts[k] = <<>>
                 /\ \A j \in 1 .. i - 1 : out[j].key = k => out[j].type = "REQUEST"

(***************************************************************************)
(* The messages of the sequence s that are in S.                           *)
(***************************************************************************)
Among(s, S) == Cardinality({i \in 1 .. Len(s) : s[i] \in S})

(***************************************************************************)
(* Every COMPLETED and ERROR about a transaction is accounted for, those   *)
(* of interrupted ones included: a task that has ended has said one, the   *)
(* loop that ended by rejecting a message says one about the transaction   *)
(* the message names, and nobody else says any.  None is said twice, and   *)
(* none is lost unless the stream breaks.                                  *)
(***************************************************************************)
VerdictsOf(k) == {m \in Message : m.type \in {"COMPLETED", "ERROR"} /\ m.key = k}

VerdictsSaid(k) == Len(verdicts[k]) + Among(out, VerdictsOf(k))

VerdictsDue(k) == (IF task[k] \in {"answered", "done"} THEN 1 ELSE 0)
                  + (IF loop = "ended" /\ Rejected(k) THEN 1 ELSE 0)

VerdictsAccounted ==
    \A k \in TxKeys :
        /\ VerdictsSaid(k) <= VerdictsDue(k)
        /\ stream # "broken" => VerdictsSaid(k) = VerdictsDue(k)

(***************************************************************************)
(* Chaincode runs only for transactions the peer has started on a          *)
(* connection that has shaken hands: the peer has read REGISTER, or it has *)
(* spoken out of turn.                                                     *)
(***************************************************************************)
RunsAfterHandshake ==
    \A k \in TxKeys :
        task[k] # "none" => /\ k \in started
                            /\ connState = "Ready"
                            /\ peer = "ready" \/ strays > 0

(***************************************************************************)
(* The loop goes on reading, and what the shim sends is not lost.          *)
(***************************************************************************)
Serving == loop \notin {"reject", "ended"} /\ stream # "broken"

(***************************************************************************)
(* No wake-up is lost: a call that waits on its oneshot has been answered, *)
(* or its sender is gone, or its request or reply is on its way and will   *)
(* find the entry of the call: no order of register, send, reply, cancel   *)
(* and drop leaves a call that nothing is going to wake.                   *)
(***************************************************************************)
NoLostWakeup ==
    Serving => \A c \in Calls : call[c] = "wait" =>
        reply[c] # NoMsg \/ pending[KeyOf(c)] # c \/ InTransit(c)

(***************************************************************************)
(* No transaction is lost between the peer, the loop and its task: before  *)
(* it has a task its message is unread, and when its task has ended its    *)
(* COMPLETED or ERROR has been read or is in the channel.                  *)
(***************************************************************************)
Unread(k) == \E i \in 1 .. Len(inbound) : inbound[i].type \in TxTypes /\ inbound[i].key = k

Answered(k) ==
    \/ verdicts[k] # <<>>
    \/ \E i \in 1 .. Len(out) : out[i].type \in {"COMPLETED", "ERROR"} /\ out[i].key = k

NoTxLost ==
    \A k \in started :
        /\ task[k] = "none" /\ Serving => Unread(k)
        /\ task[k] \in {"answered", "done"} /\ stream # "broken" => Answered(k)

(***************************************************************************)
(* Every keepalive is somewhere, once: unread, about to be echoed, echoed  *)
(* but not yet read by the peer, or read.  None is dropped in any state of *)
(* the handshake, and none is echoed twice.                                *)
(***************************************************************************)
Keepalives(s) == Among(s, {m \in Message : m.type = "KEEPALIVE"})

PingsAccounted ==
    Serving => ping = pong + Keepalives(inbound) + Keepalives(out)
                           + (IF loop = "echo" THEN 1 ELSE 0)

(***************************************************************************)
(* Every transaction the peer starts gets its COMPLETED or ERROR, on a     *)
(* stream that stays up.                                                   *)
(***************************************************************************)
EveryTxAnswered ==
    \A k \in TxKeys : k \in started ~> verdicts[k] # <<>> \/ stream # "open"

(***************************************************************************)
(* Every ledger call ends, on a stream that stays up: also the calls of    *)
(* tasks that outlive their handler.                                       *)
(***************************************************************************)
EveryCallEnds ==
    \A c \in Calls :
        call[c] \in ActiveCall ~> call[c] \in EndedCall \/ stream # "open"

(***************************************************************************)
(* Every keepalive is echoed, however full the outbound channel is, on a   *)
(* stream that stays up.                                                   *)
(***************************************************************************)
EveryPingEchoed == ping > pong ~> ping = pong \/ stream # "open"

(***************************************************************************)
(* When the stream ends, the receive loop returns, also when it is blocked *)
(* on a full channel at that time.                                         *)
(***************************************************************************)
LoopEndsWithStream == stream # "open" ~> loop = "ended"

(***************************************************************************)
(* What the documentation of Error::ConnectionClosed says: a request in    *)
(* flight when the stream ends fails with that error.                      *)
(***************************************************************************)
StreamEndFailsCalls ==
    \A c \in Calls : (call[c] = "wait" /\ loop = "ended") ~> call[c] # "wait"

-----------------------------------------------------------------------------
(* Refinement *)

Phase(k) ==
    IF task[k] = "none" THEN "idle"
    ELSE IF task[k] \in {"spawned", "running"} THEN "active" ELSE "over"

Asked(k) ==
    IF \E c \in CallsOf(k) : InTransit(c)
      THEN CHOOSE c \in CallsOf(k) : InTransit(c)
      ELSE NoCall

Session == INSTANCE TxSession WITH
    phase    <- [k \in TxKeys |-> Phase(k)],
    asked    <- [k \in TxKeys |-> Asked(k)],
    answered <- {c \in Calls : reply[c] # NoMsg},
    verdict  <- {k \in TxKeys : task[k] \in {"answered", "done"}}

(***************************************************************************)
(* The connection implements the abstract session: of all its transaction  *)
(* tasks, calls, channels and the routing by key, the peer sees one        *)
(* outstanding request per active transaction, each answered to its call.  *)
(***************************************************************************)
ImplementsSession == Session!Spec

=============================================================================
