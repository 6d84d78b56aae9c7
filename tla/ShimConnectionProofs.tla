------------------------ MODULE ShimConnectionProofs ------------------------
(***************************************************************************)
(* Theorems about ShimConnection, for every set of channels, transactions  *)
(* and calls, every capacity of the outbound channel and every setting of  *)
(* the flags.                                                              *)
(***************************************************************************)
EXTENDS ShimConnection, SequenceTheorems, TLAPS

-----------------------------------------------------------------------------
(* Messages *)

(***************************************************************************)
(* What new_message, CallMessage and Completed build are messages, with    *)
(* the fields they are given.                                              *)
(***************************************************************************)
LEMMA NewMessage ==
    ASSUME NEW type \in MsgTypes, NEW k \in TxKeys \cup {NoKey}
    PROVE  /\ new_message(type, k) \in Message
           /\ new_message(type, k).type = type
           /\ new_message(type, k).key = k
           /\ new_message(type, k).call = NoCall
BY DEF new_message, Message

LEMMA ErrorMessage ==
    ASSUME NEW k \in TxKeys \cup {NoKey}
    PROVE  /\ new_message("ERROR", k) \in Message
           /\ new_message("ERROR", k).type = "ERROR"
           /\ new_message("ERROR", k).key = k
           /\ new_message("ERROR", k).call = NoCall
<1>1. "ERROR" \in MsgTypes
  BY DEF MsgTypes, ReplyTypes
<1> QED BY <1>1, NewMessage

LEMMA KeyOfCall == ASSUME NEW c \in Calls PROVE KeyOf(c) \in TxKeys
BY DEF Calls, KeyOf

LEMMA CallMessages ==
    ASSUME NEW type \in MsgTypes, NEW c \in Calls
    PROVE  /\ CallMessage(type, c) \in Message
           /\ CallMessage(type, c).type = type
           /\ CallMessage(type, c).key = KeyOf(c)
           /\ CallMessage(type, c).call = c
BY KeyOfCall DEF CallMessage, new_message, Message

LEMMA CompletedMessage ==
    ASSUME NEW k \in TxKeys, NEW e \in Events \cup {NoEvent}
    PROVE  /\ Completed(k, e) \in Message
           /\ Completed(k, e).type = "COMPLETED"
           /\ Completed(k, e).key = k
           /\ Completed(k, e).call = NoCall
BY DEF Completed, new_message, Message, MsgTypes

LEMMA NoMsgMessage == NoMsg \in Message /\ NoMsg.call = NoCall /\ NoMsg.type = "NONE"
BY NewMessage DEF NoMsg, MsgTypes

-----------------------------------------------------------------------------
(* The inductive invariant *)

(***************************************************************************)
(* Messages say what their type promises: the ones that carry a call are   *)
(* the requests on the way out and the replies on the way in, and a reply  *)
(* names the transaction of its call.                                      *)
(***************************************************************************)
OutboundMessage(m) == m.call # NoCall <=> m.type = "REQUEST"

InboundMessage(m) ==
    /\ m.call # NoCall <=> m.type \in ReplyTypes
    /\ m.call # NoCall => m.key = KeyOf(m.call)
    /\ m.type \in TxTypes => m.key \in TxKeys

WellFormed ==
    /\ \A i \in 1 .. Len(out) : OutboundMessage(out[i])
    /\ \A i \in 1 .. Len(inbound) : InboundMessage(inbound[i])
    /\ OutboundMessage(held) /\ held.call = NoCall
    /\ \A k \in TxKeys : OutboundMessage(final[k]) /\ final[k].call = NoCall

(***************************************************************************)
(* A transaction is dispatched once: while its message is unread there is  *)
(* one such message and no task.                                           *)
(***************************************************************************)
DispatchedOnce ==
    /\ \A k \in TxKeys : k \notin started => task[k] = "none"
    /\ \A i \in 1 .. Len(inbound) : inbound[i].type \in TxTypes =>
          /\ inbound[i].key \in started
          /\ task[inbound[i].key] = "none"
          /\ \A j \in 1 .. Len(inbound) :
                inbound[j].type \in TxTypes /\ inbound[j].key = inbound[i].key => i = j

(***************************************************************************)
(* A request exists in one copy.                                           *)
(***************************************************************************)
Carries(s, c) == \E i \in 1 .. Len(s) : s[i].call = c

Distinct(s) ==
    \A i, j \in 1 .. Len(s) : s[i].call = s[j].call /\ s[i].call # NoCall => i = j

OneCopy ==
    /\ Distinct(out)
    /\ Distinct(inbound)
    /\ \A c \in Calls :
          /\ ~(Carries(out, c) /\ c \in atPeer)
          /\ ~(Carries(out, c) /\ Carries(inbound, c))
          /\ ~(c \in atPeer /\ Carries(inbound, c))

(***************************************************************************)
(* The heart of the argument.  While the chaincode of a transaction runs   *)
(* (and until the pending entry is dropped, if it left no call behind),    *)
(* what is in transit is the request of the pending call.  A cancelled     *)
(* call keeps its entry until its reply comes, so that reply cannot meet   *)
(* another call.                                                           *)
(***************************************************************************)
Live(k) == task[k] = "running" \/ (task[k] = "returned" /\ ~Detached)

TransitIsPending ==
    \A c \in Calls : Live(KeyOf(c)) /\ InTransit(c) => pending[KeyOf(c)] = c

(***************************************************************************)
(* What the state of a call says about its request, its reply and its      *)
(* pending entry.                                                          *)
(***************************************************************************)
CallHistory ==
    \A c \in Calls :
        /\ call[c] \in {"idle", "gate", "send"} => ~InTransit(c)
        /\ call[c] \in {"idle", "gate"} => reply[c] = NoMsg
        /\ call[c] = "send" /\ Live(KeyOf(c)) => pending[KeyOf(c)] = c
        /\ reply[c] # NoMsg => pending[KeyOf(c)] # c

PendingEntries ==
    \A k \in TxKeys : pending[k] # NoCall =>
        KeyOf(pending[k]) = k /\ call[pending[k]] \in {"send", "wait", "cancelled"}

(***************************************************************************)
(* The calls of a transaction whose chaincode is not running: none before  *)
(* it runs, and none active after it if it left none behind.               *)
(***************************************************************************)
CallsFollowTask ==
    \A c \in Calls :
        /\ task[KeyOf(c)] \in {"none", "spawned", "answering", "answered"}
              => call[c] = "idle"
        /\ ~Detached /\ task[KeyOf(c)] # "running" => call[c] \notin ActiveCall

(***************************************************************************)
(* The gate: one call of a transaction at a time is between its            *)
(* registration and its end.                                               *)
(***************************************************************************)
GateExclusive ==
    \A c, d \in Calls :
        /\ KeyOf(c) = KeyOf(d)
        /\ call[c] \in {"send", "wait"} /\ call[d] \in {"send", "wait"}
        => c = d

(***************************************************************************)
(* A waiting call without a reply has its pending entry until its          *)
(* transaction drops it.                                                   *)
(***************************************************************************)
WaitingIsPending ==
    \A c \in Calls :
        call[c] \in {"send", "wait"} /\ reply[c] = NoMsg /\ pending[KeyOf(c)] # c
            => task[KeyOf(c)] \in {"sending", "done"}

ControlInv ==
    /\ TransitIsPending /\ CallHistory /\ PendingEntries /\ CallsFollowTask
    /\ GateExclusive /\ WaitingIsPending
    /\ NoCrossTalk /\ OneInFlight /\ NoPendingLeak
    /\ ClosedMeansOver /\ RefusedAfterCancel

Inv == TypeOK /\ WellFormed /\ DispatchedOnce /\ OneCopy /\ ControlInv

-----------------------------------------------------------------------------
(* Sequences *)

(***************************************************************************)
(* The elements of a sequence after an append, a read and a truncation.    *)
(***************************************************************************)
LEMMA AppendElements ==
    ASSUME NEW S, NEW s \in Seq(S), NEW e \in S
    PROVE  /\ Append(s, e) \in Seq(S)
           /\ Len(Append(s, e)) = Len(s) + 1
           /\ \A i \in 1 .. Len(Append(s, e)) :
                 Append(s, e)[i] = IF i <= Len(s) THEN s[i] ELSE e
BY AppendProperties

LEMMA TailElements ==
    ASSUME NEW S, NEW s \in Seq(S), s # <<>>
    PROVE  /\ Head(s) \in S /\ Head(s) = s[1] /\ 1 \in 1 .. Len(s)
           /\ Tail(s) \in Seq(S)
           /\ Len(Tail(s)) = Len(s) - 1
           /\ \A i \in 1 .. Len(Tail(s)) : i + 1 \in 1 .. Len(s) /\ Tail(s)[i] = s[i + 1]
BY HeadTailProperties

LEMMA PrefixElements ==
    ASSUME NEW S, NEW s \in Seq(S), NEW n \in 0 .. Len(s)
    PROVE  /\ SubSeq(s, 1, n) \in Seq(S)
           /\ Len(SubSeq(s, 1, n)) = n
           /\ \A i \in 1 .. n : i \in 1 .. Len(s) /\ SubSeq(s, 1, n)[i] = s[i]
<1>1. \A i \in 1 .. n : s[i] \in S
  OBVIOUS
<1> QED BY <1>1, SubSeqProperties

LEMMA EmptyElements ==
    ASSUME NEW S PROVE <<>> \in Seq(S) /\ Len(<<>>) = 0 /\ \A i \in 1 .. Len(<<>>) : FALSE
OBVIOUS

-----------------------------------------------------------------------------
(* Types and message formats *)

LEMMA TypeInit == Init => TypeOK /\ WellFormed
<1> SUFFICES ASSUME Init PROVE TypeOK /\ WellFormed
  OBVIOUS
<1>1. TypeOK
  BY NoMsgMessage, CapacityAssumption, BoundsAssumption
  DEF Init, TypeOK, ConnState, LoopState, TaskState, CallState, MessageLog
<1>2. OutboundMessage(NoMsg) /\ NoMsg.call = NoCall
  BY NoMsgMessage DEF OutboundMessage
<1>3. WellFormed
  BY <1>2, EmptyElements DEF Init, WellFormed
<1> QED BY <1>1, <1>3

(***************************************************************************)
(* A send of a well-formed message keeps the outbound channel within its   *)
(* capacity and well-formed.                                               *)
(***************************************************************************)
LEMMA LinkSendOut ==
    ASSUME TypeOK, NEW m \in Message, LinkSend(m)
    PROVE  /\ out' \in Seq(Message) /\ Len(out') <= OutCapacity
           /\ out' = out \/ out' = Append(out, m)
<1>1. CASE OutAlive
  <2>1. Append(out, m) \in Seq(Message) /\ Len(Append(out, m)) = Len(out) + 1
    BY AppendElements DEF TypeOK
  <2>2. Len(out) \in Nat
    BY DEF TypeOK
  <2>3. Len(out) < OutCapacity /\ out' = Append(out, m)
    BY <1>1 DEF LinkSend
  <2> QED BY <2>1, <2>2, <2>3, CapacityAssumption
<1>2. CASE ~OutAlive
  BY <1>2 DEF LinkSend, TypeOK
<1> QED BY <1>1, <1>2

LEMMA LinkSendFormat ==
    ASSUME TypeOK, WellFormed, NEW m \in Message, OutboundMessage(m), LinkSend(m)
    PROVE  \A i \in 1 .. Len(out') : OutboundMessage(out'[i])
<1>1. CASE out' = out
  BY <1>1 DEF WellFormed
<1>2. CASE out' = Append(out, m)
  <2>1. /\ Len(out') = Len(out) + 1
        /\ \A i \in 1 .. Len(out') : out'[i] = IF i <= Len(out) THEN out[i] ELSE m
    BY <1>2, AppendElements DEF TypeOK
  <2>2. Len(out) \in Nat
    BY DEF TypeOK
  <2> SUFFICES ASSUME NEW i \in 1 .. Len(out') PROVE OutboundMessage(out'[i])
    OBVIOUS
  <2>3. CASE i <= Len(out)
    BY <2>1, <2>2, <2>3 DEF WellFormed
  <2>4. CASE ~(i <= Len(out))
    BY <2>1, <2>4
  <2> QED BY <2>3, <2>4
<1> QED BY <1>1, <1>2, LinkSendOut

(***************************************************************************)
(* Reading the next message of the peer.                                   *)
(***************************************************************************)
LEMMA ReadingIn ==
    ASSUME TypeOK, WellFormed, Reading
    PROVE  /\ Head(inbound) \in Message /\ Head(inbound) = inbound[1]
           /\ 1 \in 1 .. Len(inbound)
           /\ Head(inbound).key \in TxKeys \cup {NoKey}
           /\ Head(inbound).call \in Calls \cup {NoCall}
           /\ InboundMessage(Head(inbound))
           /\ inbound' \in Seq(Message)
           /\ \A i \in 1 .. Len(inbound') :
                 i + 1 \in 1 .. Len(inbound) /\ inbound'[i] = inbound[i + 1]
           /\ \A i \in 1 .. Len(inbound') : InboundMessage(inbound'[i])
<1>1. inbound \in Seq(Message) /\ inbound # <<>> /\ inbound' = Tail(inbound)
  BY DEF Reading, TypeOK
<1>2. /\ Head(inbound) \in Message /\ Head(inbound) = inbound[1] /\ 1 \in 1 .. Len(inbound)
      /\ inbound' \in Seq(Message)
      /\ \A i \in 1 .. Len(inbound') :
            i + 1 \in 1 .. Len(inbound) /\ inbound'[i] = inbound[i + 1]
  BY <1>1, TailElements
<1>3. /\ Head(inbound).key \in TxKeys \cup {NoKey}
      /\ Head(inbound).call \in Calls \cup {NoCall}
  BY <1>2 DEF Message
<1>4. /\ InboundMessage(Head(inbound))
      /\ \A i \in 1 .. Len(inbound') : InboundMessage(inbound'[i])
  BY <1>2 DEF WellFormed
<1> QED BY <1>1, <1>2, <1>3, <1>4

LEMMA LoopType == ASSUME TypeOK, WellFormed, Loop PROVE TypeOK' /\ WellFormed'
<1> USE DEF loopVars, taskVars, callVars, peerVars
<1>1. CASE Register
  <2> DEFINE m == new_message("REGISTER", NoKey)
  <2>1. m \in Message /\ OutboundMessage(m)
    BY NewMessage DEF MsgTypes, OutboundMessage
  <2>2. LinkSend(m)
    BY <1>1 DEF Register
  <2> HIDE DEF m
  <2>3. out' \in Seq(Message) /\ Len(out') <= OutCapacity
    BY <2>1, <2>2, LinkSendOut
  <2>4. \A i \in 1 .. Len(out') : OutboundMessage(out'[i])
    BY <2>1, <2>2, LinkSendFormat
  <2>5. TypeOK'
    BY <1>1, <2>3 DEF Register, TypeOK, LoopState
  <2>6. WellFormed'
    BY <1>1, <2>4 DEF Register, WellFormed
  <2> QED BY <2>5, <2>6
<1>2. CASE ReceiveRegistered
  <2>1. Reading
    BY <1>2 DEF ReceiveRegistered
  <2>2. TypeOK'
    BY <1>2, <2>1, ReadingIn DEF ReceiveRegistered, Reading, TypeOK, ConnState
  <2>3. WellFormed'
    BY <1>2, <2>1, ReadingIn DEF ReceiveRegistered, Reading, WellFormed
  <2> QED BY <2>2, <2>3
<1>3. CASE ReceiveReady
  <2>1. Reading
    BY <1>3 DEF ReceiveReady
  <2>2. TypeOK'
    BY <1>3, <2>1, ReadingIn DEF ReceiveReady, Reading, TypeOK, ConnState
  <2>3. WellFormed'
    BY <1>3, <2>1, ReadingIn DEF ReceiveReady, Reading, WellFormed
  <2> QED BY <2>2, <2>3
<1>4. CASE ReceiveKeepalive
  <2>1. Reading
    BY <1>4 DEF ReceiveKeepalive
  <2>2. held' \in Message /\ OutboundMessage(held') /\ held'.call = NoCall
    BY <1>4, <2>1, ReadingIn, NewMessage DEF ReceiveKeepalive, MsgTypes, OutboundMessage
  <2>3. TypeOK'
    BY <1>4, <2>1, <2>2, ReadingIn DEF ReceiveKeepalive, Reading, TypeOK, LoopState
  <2>4. WellFormed'
    BY <1>4, <2>1, <2>2, ReadingIn DEF ReceiveKeepalive, Reading, WellFormed
  <2> QED BY <2>3, <2>4
<1>5. CASE ReceiveTransaction
  <2>1. Reading
    BY <1>5 DEF ReceiveTransaction
  <2>2. TypeOK'
    BY <1>5, <2>1, ReadingIn DEF ReceiveTransaction, Reading, TypeOK, TaskState
  <2>3. WellFormed'
    BY <1>5, <2>1, ReadingIn DEF ReceiveTransaction, Reading, WellFormed
  <2> QED BY <2>2, <2>3
<1>6. CASE ReceiveReply
  <2>1. Reading
    BY <1>6 DEF ReceiveReply
  <2>2. pending' \in [TxKeys -> Calls \cup {NoCall}]
    BY <1>6 DEF ReceiveReply, route_response, drop_pending, TypeOK
  <2>3. reply' \in [Calls -> Message]
    BY <1>6, <2>1, ReadingIn DEF ReceiveReply, route_response, TypeOK
  <2>4. TypeOK'
    BY <1>6, <2>1, <2>2, <2>3, ReadingIn DEF ReceiveReply, Reading, TypeOK
  <2>5. WellFormed'
    BY <1>6, <2>1, ReadingIn DEF ReceiveReply, Reading, WellFormed
  <2> QED BY <2>4, <2>5
<1>7. CASE ReceiveInvalid
  <2>1. Reading
    BY <1>7 DEF ReceiveInvalid
  <2>2. held' \in Message /\ OutboundMessage(held') /\ held'.call = NoCall
    BY <1>7, <2>1, ReadingIn, ErrorMessage DEF ReceiveInvalid, OutboundMessage
  <2>3. TypeOK'
    BY <1>7, <2>1, <2>2, ReadingIn DEF ReceiveInvalid, Reading, TypeOK, LoopState
  <2>4. WellFormed'
    BY <1>7, <2>1, <2>2, ReadingIn DEF ReceiveInvalid, Reading, WellFormed
  <2> QED BY <2>3, <2>4
<1>8. ASSUME LinkSend(held)
      PROVE  /\ out' \in Seq(Message) /\ Len(out') <= OutCapacity
             /\ \A i \in 1 .. Len(out') : OutboundMessage(out'[i])
  <2>1. held \in Message /\ OutboundMessage(held)
    BY DEF TypeOK, WellFormed
  <2> QED BY <1>8, <2>1, LinkSendOut, LinkSendFormat
<1>9. CASE EchoKeepalive
  <2>1. TypeOK'
    BY <1>8, <1>9 DEF EchoKeepalive, TypeOK, LoopState
  <2>2. WellFormed'
    BY <1>8, <1>9 DEF EchoKeepalive, WellFormed
  <2> QED BY <2>1, <2>2
<1>10. CASE RejectAndReturn
  <2>1. TypeOK'
    BY <1>8, <1>10 DEF RejectAndReturn, LoopReturns, TypeOK, LoopState
  <2>2. WellFormed'
    BY <1>8, <1>10, EmptyElements DEF RejectAndReturn, LoopReturns, WellFormed
  <2> QED BY <2>1, <2>2
<1>11. CASE StreamEnded
  <2>1. TypeOK'
    BY <1>11 DEF StreamEnded, LoopReturns, TypeOK, LoopState
  <2>2. WellFormed'
    BY <1>11, EmptyElements DEF StreamEnded, LoopReturns, WellFormed
  <2> QED BY <2>1, <2>2
<1> QED
  BY <1>1, <1>2, <1>3, <1>4, <1>5, <1>6, <1>7, <1>9, <1>10, <1>11 DEF Loop

LEMMA TaskType ==
    ASSUME TypeOK, WellFormed, NEW k \in TxKeys, Task(k)
    PROVE  TypeOK' /\ WellFormed'
<1> USE DEF loopVars, taskVars, callVars, peerVars
<1>1. CASE TaskRejects(k)
  <2>1. /\ new_message("ERROR", k) \in Message /\ OutboundMessage(new_message("ERROR", k))
        /\ new_message("ERROR", k).call = NoCall
    BY ErrorMessage DEF OutboundMessage
  <2>2. TypeOK'
    BY <1>1, <2>1 DEF TaskRejects, TypeOK, TaskState
  <2>3. WellFormed'
    BY <1>1, <2>1 DEF TaskRejects, WellFormed, TypeOK
  <2> QED BY <2>2, <2>3
<1>2. CASE TaskDescribes(k)
  <2>1. /\ Completed(k, NoEvent) \in Message /\ OutboundMessage(Completed(k, NoEvent))
        /\ Completed(k, NoEvent).call = NoCall
    BY CompletedMessage DEF OutboundMessage
  <2>2. TypeOK'
    BY <1>2, <2>1 DEF TaskDescribes, TypeOK, TaskState
  <2>3. WellFormed'
    BY <1>2, <2>1 DEF TaskDescribes, WellFormed, TypeOK
  <2> QED BY <2>2, <2>3
<1>3. CASE TaskRuns(k)
  BY <1>3 DEF TaskRuns, TypeOK, TaskState, WellFormed
<1>4. CASE TaskFinishes(k)
  <2>1. /\ Completed(k, slot[k]) \in Message /\ OutboundMessage(Completed(k, slot[k]))
        /\ Completed(k, slot[k]).call = NoCall
    BY CompletedMessage DEF OutboundMessage, TypeOK
  <2>2. TypeOK'
    BY <1>4, <2>1 DEF TaskFinishes, drop_pending, TypeOK, TaskState
  <2>3. WellFormed'
    BY <1>4, <2>1 DEF TaskFinishes, WellFormed, TypeOK
  <2> QED BY <2>2, <2>3
<1>5. CASE TaskSends(k)
  <2>1. final[k] \in Message /\ OutboundMessage(final[k])
    BY DEF TypeOK, WellFormed
  <2>2. /\ out' \in Seq(Message) /\ Len(out') <= OutCapacity
        /\ \A i \in 1 .. Len(out') : OutboundMessage(out'[i])
    BY <1>5, <2>1, LinkSendOut, LinkSendFormat DEF TaskSends
  <2>3. TypeOK'
    BY <1>5, <2>2 DEF TaskSends, TypeOK, TaskState
  <2>4. WellFormed'
    BY <1>5, <2>2 DEF TaskSends, WellFormed
  <2> QED BY <2>3, <2>4
<1> QED BY <1>1, <1>2, <1>3, <1>4, <1>5 DEF Task

LEMMA RequestType ==
    ASSUME TypeOK, WellFormed, NEW c \in Calls, Request(c)
    PROVE  TypeOK' /\ WellFormed'
<1> USE KeyOfCall DEF loopVars, taskVars, callVars, peerVars
<1>1. CASE CallRegisters(c)
  BY <1>1 DEF CallRegisters, TypeOK, CallState, ActiveCall, WellFormed
<1>2. CASE CallRefused(c)
  BY <1>2 DEF CallRefused, TypeOK, CallState, EndedCall, WellFormed
<1>3. CASE CallSends(c)
  <2> DEFINE m == CallMessage("REQUEST", c)
  <2>1. m \in Message /\ OutboundMessage(m)
    BY CallMessages, NoneAssumption DEF MsgTypes, OutboundMessage
  <2>2. LinkSend(m)
    BY <1>3 DEF CallSends
  <2> HIDE DEF m
  <2>3. /\ out' \in Seq(Message) /\ Len(out') <= OutCapacity
        /\ \A i \in 1 .. Len(out') : OutboundMessage(out'[i])
    BY <2>1, <2>2, LinkSendOut, LinkSendFormat
  <2>4. TypeOK'
    BY <1>3, <2>3 DEF CallSends, drop_pending, TypeOK, CallState, ActiveCall, EndedCall
  <2>5. WellFormed'
    BY <1>3, <2>3 DEF CallSends, WellFormed
  <2> QED BY <2>4, <2>5
<1>4. CASE CallReturns(c)
  BY <1>4 DEF CallReturns, TypeOK, CallState, EndedCall, WellFormed
<1>5. CASE CallClosed(c)
  BY <1>5 DEF CallClosed, TypeOK, CallState, EndedCall, WellFormed
<1> QED BY <1>1, <1>2, <1>3, <1>4, <1>5 DEF Request

LEMMA ChaincodeType == ASSUME TypeOK, WellFormed, Chaincode PROVE TypeOK' /\ WellFormed'
<1> USE DEF loopVars, taskVars, callVars, peerVars
<1>1. ASSUME NEW k \in TxKeys, NEW e \in Events, SetEvent(k, e)
      PROVE  TypeOK' /\ WellFormed'
  BY <1>1 DEF SetEvent, TypeOK, WellFormed
<1>2. ASSUME NEW k \in TxKeys, NEW kept \in SUBSET ActiveCalls(k), HandlerEnds(k, kept)
      PROVE  TypeOK' /\ WellFormed'
  BY <1>2 DEF HandlerEnds, TypeOK, TaskState, CallState, EndedCall, WellFormed
<1>3. ASSUME NEW c \in Calls, CallStarts(c) PROVE TypeOK' /\ WellFormed'
  BY <1>3 DEF CallStarts, TypeOK, CallState, ActiveCall, WellFormed
<1>4. ASSUME NEW c \in Calls, CallCancelled(c) PROVE TypeOK' /\ WellFormed'
  BY <1>4 DEF CallCancelled, TypeOK, CallState, EndedCall, WellFormed
<1> QED BY <1>1, <1>2, <1>3, <1>4 DEF Chaincode

(***************************************************************************)
(* What the peer sends is queued behind what it sent before, or lost.      *)
(***************************************************************************)
LEMMA PeerSendsIn ==
    ASSUME TypeOK, NEW m \in Message, PeerSends(m)
    PROVE  /\ inbound' \in Seq(Message)
           /\ inbound' = inbound \/ inbound' = Append(inbound, m)
BY AppendElements DEF PeerSends, TypeOK

LEMMA PeerSendsFormat ==
    ASSUME TypeOK, WellFormed, NEW m \in Message, InboundMessage(m), PeerSends(m)
    PROVE  \A i \in 1 .. Len(inbound') : InboundMessage(inbound'[i])
<1>1. CASE inbound' = inbound
  BY <1>1 DEF WellFormed
<1>2. CASE inbound' = Append(inbound, m)
  <2>1. /\ Len(inbound') = Len(inbound) + 1 /\ Len(inbound) \in Nat
        /\ \A i \in 1 .. Len(inbound') :
              inbound'[i] = IF i <= Len(inbound) THEN inbound[i] ELSE m
    BY <1>2, AppendElements DEF TypeOK
  <2> SUFFICES ASSUME NEW i \in 1 .. Len(inbound') PROVE InboundMessage(inbound'[i])
    OBVIOUS
  <2>2. CASE i <= Len(inbound)
    BY <2>1, <2>2 DEF WellFormed
  <2>3. CASE ~(i <= Len(inbound))
    BY <2>1, <2>3
  <2> QED BY <2>2, <2>3
<1> QED BY <1>1, <1>2, PeerSendsIn

(***************************************************************************)
(* The messages the peer sends are well-formed.                            *)
(***************************************************************************)
LEMMA PeerMessages ==
    /\ \A type \in StrayTypes \cup {"KEEPALIVE"}, k \in TxKeys \cup {NoKey} :
          /\ new_message(type, k) \in Message
          /\ InboundMessage(new_message(type, k))
          /\ new_message(type, k).call = NoCall
          /\ new_message(type, k).type \notin TxTypes
    /\ \A type \in TxTypes, k \in TxKeys :
          /\ new_message(type, k) \in Message
          /\ InboundMessage(new_message(type, k))
          /\ new_message(type, k).call = NoCall
          /\ new_message(type, k).key = k
    /\ \A type \in ReplyTypes, c \in Calls :
          /\ CallMessage(type, c) \in Message
          /\ InboundMessage(CallMessage(type, c))
          /\ CallMessage(type, c).type \notin TxTypes
<1>1. ASSUME NEW type \in StrayTypes \cup {"KEEPALIVE"}, NEW k \in TxKeys \cup {NoKey}
      PROVE  /\ new_message(type, k) \in Message
             /\ InboundMessage(new_message(type, k))
             /\ new_message(type, k).call = NoCall
             /\ new_message(type, k).type \notin TxTypes
  <2>1. type \in MsgTypes BY DEF MsgTypes
  <2>2. type \notin TxTypes /\ type \notin ReplyTypes
    BY DEF StrayTypes, TxTypes, ReplyTypes
  <2> QED BY <2>1, <2>2, NewMessage DEF InboundMessage
<1>2. ASSUME NEW type \in TxTypes, NEW k \in TxKeys
      PROVE  /\ new_message(type, k) \in Message
             /\ InboundMessage(new_message(type, k))
             /\ new_message(type, k).call = NoCall
             /\ new_message(type, k).key = k
  <2>1. type \in MsgTypes BY DEF MsgTypes
  <2>2. type \notin ReplyTypes
    BY DEF TxTypes, ReplyTypes
  <2> QED BY <2>1, <2>2, NewMessage DEF InboundMessage
<1>3. ASSUME NEW type \in ReplyTypes, NEW c \in Calls
      PROVE  /\ CallMessage(type, c) \in Message
             /\ InboundMessage(CallMessage(type, c))
             /\ CallMessage(type, c).type \notin TxTypes
  <2>1. type \in MsgTypes BY DEF MsgTypes
  <2>2. type \notin TxTypes
    BY DEF TxTypes, ReplyTypes
  <2> QED BY <2>1, <2>2, CallMessages, NoneAssumption DEF InboundMessage
<1> QED BY <1>1, <1>2, <1>3

LEMMA PeerReadsOut ==
    ASSUME TypeOK, WellFormed, PeerReads
    PROVE  /\ Head(out) \in Message /\ Head(out) = out[1] /\ 1 \in 1 .. Len(out)
           /\ OutboundMessage(Head(out))
           /\ Head(out).key \in TxKeys \cup {NoKey}
           /\ Head(out).call \in Calls \cup {NoCall}
           /\ out' \in Seq(Message) /\ Len(out') <= OutCapacity
           /\ \A i \in 1 .. Len(out') : i + 1 \in 1 .. Len(out) /\ out'[i] = out[i + 1]
           /\ \A i \in 1 .. Len(out') : OutboundMessage(out'[i])
<1>1. out \in Seq(Message) /\ out # <<>> /\ out' = Tail(out) /\ Len(out) <= OutCapacity
  BY DEF PeerReads, TypeOK
<1>2. /\ Head(out) \in Message /\ Head(out) = out[1] /\ 1 \in 1 .. Len(out)
      /\ out' \in Seq(Message) /\ Len(out') = Len(out) - 1
      /\ \A i \in 1 .. Len(out') : i + 1 \in 1 .. Len(out) /\ out'[i] = out[i + 1]
  BY <1>1, TailElements
<1>3. Head(out).key \in TxKeys \cup {NoKey} /\ Head(out).call \in Calls \cup {NoCall}
  BY <1>2 DEF Message
<1>4. Len(out') <= OutCapacity
  <2>1. Len(out) \in Nat BY <1>1
  <2> QED BY <1>1, <1>2, <2>1, CapacityAssumption
<1>5. OutboundMessage(Head(out)) /\ \A i \in 1 .. Len(out') : OutboundMessage(out'[i])
  BY <1>2 DEF WellFormed
<1> QED BY <1>2, <1>3, <1>4, <1>5

LEMMA PeerType == ASSUME TypeOK, WellFormed, Peer PROVE TypeOK' /\ WellFormed'
<1> USE DEF loopVars, taskVars, callVars, peerVars
<1>1. ASSUME PeerReads PROVE WellFormed'
  BY <1>1, PeerReadsOut DEF PeerReads, WellFormed
<1>2. CASE PeerReading
  <2>1. PeerReads
    BY <1>2 DEF PeerReading, PeerReadsRegister, PeerReadsRequest, PeerReadsEcho,
                PeerReadsVerdict
  <2> DEFINE m == Head(out)
  <2>2. out' \in Seq(Message) /\ Len(out') <= OutCapacity
    BY <2>1, PeerReadsOut
  <2>3. /\ m \in Message /\ OutboundMessage(m)
        /\ m.key \in TxKeys \cup {NoKey} /\ m.call \in Calls \cup {NoCall}
    BY <2>1, PeerReadsOut
  <2>4. UNCHANGED <<loopVars, inbound, stream, pending, taskVars, callVars, started, ping,
                    strays>>
    BY <2>1 DEF PeerReads
  <2>5. \/ peer' = "registering" /\ UNCHANGED <<atPeer, verdicts, pong>>
        \/ /\ m.type = "REQUEST" /\ atPeer' = atPeer \cup {m.call}
           /\ UNCHANGED <<peer, verdicts, pong>>
        \/ pong' = pong + 1 /\ UNCHANGED <<peer, atPeer, verdicts>>
        \/ /\ verdicts' = IF m.key = NoKey THEN verdicts
                          ELSE [verdicts EXCEPT ![m.key] = Append(@, m)]
           /\ UNCHANGED <<peer, atPeer, pong>>
    BY <1>2 DEF PeerReading, PeerReadsRegister, PeerReadsRequest, PeerReadsEcho,
                PeerReadsVerdict
  <2> HIDE DEF m
  <2>6. peer' \in {"new", "registering", "registered", "ready"} /\ pong' \in Nat
    BY <2>5 DEF TypeOK
  <2>7. atPeer' \subseteq Calls
    BY <2>3, <2>5 DEF TypeOK, OutboundMessage
  <2>8. verdicts' \in [TxKeys -> MessageLog]
    <3>1. verdicts \in [TxKeys -> MessageLog]
      BY DEF TypeOK
    <3>2. CASE verdicts' = verdicts
      BY <3>1, <3>2
    <3>3. CASE m.key \in TxKeys /\ verdicts' = [verdicts EXCEPT ![m.key] = Append(@, m)]
      <4> DEFINE log == Append(verdicts[m.key], m)
      <4>1. log \in MessageLog
        BY <2>3, <3>1, <3>3, AppendElements DEF MessageLog
      <4>2. verdicts' = [verdicts EXCEPT ![m.key] = log]
        BY <3>3
      <4> HIDE DEF log
      <4> QED BY <3>1, <3>3, <4>1, <4>2
    <3> QED BY <2>3, <2>5, <3>2, <3>3
  <2>9. TypeOK'
    BY <2>2, <2>4, <2>6, <2>7, <2>8 DEF TypeOK
  <2> QED BY <1>1, <2>1, <2>9
<1>3. ASSUME NEW m \in Message, InboundMessage(m), PeerSends(m)
      PROVE  inbound' \in Seq(Message) /\ WellFormed'
  <2>1. WellFormed'
    BY <1>3, PeerSendsFormat DEF PeerSends, WellFormed
  <2> QED BY <1>3, <2>1, PeerSendsIn
<1>4. CASE PeerShakesHands
  <2>1. PICK type \in StrayTypes : PeerSends(new_message(type, NoKey))
    BY <1>4 DEF PeerShakesHands, StrayTypes
  <2>2. inbound' \in Seq(Message) /\ WellFormed'
    BY <1>3, <2>1, PeerMessages
  <2>3. TypeOK'
    BY <1>4, <2>2 DEF PeerShakesHands, PeerSends, TypeOK
  <2> QED BY <2>2, <2>3
<1>5. CASE PeerPings
  <2>1. inbound' \in Seq(Message) /\ WellFormed'
    BY <1>3, <1>5, PeerMessages DEF PeerPings
  <2>2. TypeOK'
    BY <1>5, <2>1, BoundsAssumption DEF PeerPings, PeerSends, TypeOK
  <2> QED BY <2>1, <2>2
<1>6. CASE PeerCloses
  BY <1>6 DEF PeerCloses, TypeOK, WellFormed
<1>7. CASE StreamBreaks
  <2>1. PICK n \in 0 .. Len(inbound) : inbound' = SubSeq(inbound, 1, n)
    BY <1>7 DEF StreamBreaks
  <2>2. /\ inbound' \in Seq(Message) /\ Len(inbound') = n
        /\ \A i \in 1 .. n : i \in 1 .. Len(inbound) /\ inbound'[i] = inbound[i]
    BY <2>1, PrefixElements DEF TypeOK
  <2>3. TypeOK'
    BY <1>7, <2>2, CapacityAssumption DEF StreamBreaks, TypeOK
  <2>4. WellFormed'
    BY <1>7, <2>2, EmptyElements DEF StreamBreaks, WellFormed
  <2> QED BY <2>3, <2>4
<1>8. ASSUME NEW k \in TxKeys, NEW type \in TxTypes, PeerStarts(k, type)
      PROVE  TypeOK' /\ WellFormed'
  <2>1. inbound' \in Seq(Message) /\ WellFormed'
    BY <1>3, <1>8, PeerMessages DEF PeerStarts
  <2>2. TypeOK'
    BY <1>8, <2>1 DEF PeerStarts, PeerSends, TypeOK
  <2> QED BY <2>1, <2>2
<1>9. ASSUME NEW c \in Calls, NEW type \in ReplyTypes, PeerAnswers(c, type)
      PROVE  TypeOK' /\ WellFormed'
  <2>1. inbound' \in Seq(Message) /\ WellFormed'
    BY <1>3, <1>9, PeerMessages DEF PeerAnswers
  <2>2. TypeOK'
    BY <1>9, <2>1 DEF PeerAnswers, PeerSends, TypeOK
  <2> QED BY <2>1, <2>2
<1>10. ASSUME NEW type \in StrayTypes, NEW k \in TxKeys \cup {NoKey}, PeerStrays(type, k)
      PROVE TypeOK' /\ WellFormed'
  <2>1. inbound' \in Seq(Message) /\ WellFormed'
    BY <1>3, <1>10, PeerMessages DEF PeerStrays
  <2>2. TypeOK'
    BY <1>10, <2>1, BoundsAssumption DEF PeerStrays, PeerSends, TypeOK
  <2> QED BY <2>1, <2>2
<1> QED BY <1>2, <1>4, <1>5, <1>6, <1>7, <1>8, <1>9, <1>10 DEF Peer

LEMMA TypeStep == TypeOK /\ WellFormed /\ [Next]_vars => TypeOK' /\ WellFormed'
<1> SUFFICES ASSUME TypeOK, WellFormed, [Next]_vars PROVE TypeOK' /\ WellFormed'
  OBVIOUS
<1>1. CASE Shim
  BY <1>1, LoopType, TaskType, RequestType DEF Shim
<1>2. CASE Chaincode
  BY <1>2, ChaincodeType
<1>3. CASE Peer
  BY <1>3, PeerType
<1>4. CASE UNCHANGED vars
  BY <1>4 DEF vars, loopVars, taskVars, callVars, peerVars, TypeOK, WellFormed
<1> QED BY <1>1, <1>2, <1>3, <1>4 DEF Next

(***************************************************************************)
(* Every variable keeps its type, and the outbound channel its capacity,   *)
(* in every behaviour of the connection.                                   *)
(***************************************************************************)
THEOREM TypeCorrect == Spec => []TypeOK
<1>1. Init => TypeOK /\ WellFormed
  BY TypeInit
<1>2. TypeOK /\ WellFormed /\ [Next]_vars => (TypeOK /\ WellFormed)'
  BY TypeStep
<1> QED BY <1>1, <1>2, PTL DEF Spec

-----------------------------------------------------------------------------
(* Requests and replies in transit *)

(***************************************************************************)
(* How appending, reading and truncating change which calls a queue        *)
(* carries, and that they keep its messages distinct.                      *)
(***************************************************************************)
LEMMA CarryAppend ==
    ASSUME NEW s \in Seq(Message), NEW m \in Message
    PROVE  /\ \A c : Carries(Append(s, m), c) <=> Carries(s, c) \/ m.call = c
           /\ Distinct(s) /\ (m.call = NoCall \/ ~Carries(s, m.call)) => Distinct(Append(s, m))
<1> DEFINE t == Append(s, m)
<1>1. /\ Len(t) = Len(s) + 1 /\ Len(s) \in Nat
      /\ \A i \in 1 .. Len(t) : t[i] = IF i <= Len(s) THEN s[i] ELSE m
  BY AppendElements
<1> HIDE DEF t
<1>2. \A i \in 1 .. Len(s) : i \in 1 .. Len(t) /\ t[i] = s[i]
  BY <1>1
<1>3. Len(t) \in 1 .. Len(t) /\ t[Len(t)] = m
  BY <1>1
<1>4. \A i \in 1 .. Len(t) : (i \in 1 .. Len(s) /\ t[i] = s[i]) \/ (i = Len(t) /\ t[i] = m)
  BY <1>1
<1>5. \A c : Carries(t, c) <=> Carries(s, c) \/ m.call = c
  BY <1>2, <1>3, <1>4 DEF Carries
<1>6. Distinct(s) /\ (m.call = NoCall \/ ~Carries(s, m.call)) => Distinct(t)
  BY <1>4 DEF Distinct, Carries
<1> QED BY <1>5, <1>6 DEF t

LEMMA CarryTail ==
    ASSUME NEW s \in Seq(Message), s # <<>>
    PROVE  /\ \A c : Carries(s, c) <=> Head(s).call = c \/ Carries(Tail(s), c)
           /\ Distinct(s) => Distinct(Tail(s))
           /\ Distinct(s) /\ Head(s).call # NoCall => ~Carries(Tail(s), Head(s).call)
<1> DEFINE h == Head(s)
           t == Tail(s)
<1>1. /\ h = s[1] /\ 1 \in 1 .. Len(s) /\ Len(s) \in Nat
      /\ Len(t) = Len(s) - 1
      /\ \A i \in 1 .. Len(t) : i + 1 \in 1 .. Len(s) /\ t[i] = s[i + 1]
  BY TailElements
<1> HIDE DEF h, t
<1>2. \A i \in 1 .. Len(s) : i = 1 \/ (i - 1 \in 1 .. Len(t) /\ s[i] = t[i - 1])
  BY <1>1
<1>3. \A c : Carries(s, c) <=> h.call = c \/ Carries(t, c)
  BY <1>1, <1>2 DEF Carries
<1>4. Distinct(s) => Distinct(t)
  <2> SUFFICES ASSUME Distinct(s), NEW i \in 1 .. Len(t), NEW j \in 1 .. Len(t),
                      t[i].call = t[j].call, t[i].call # NoCall
               PROVE  i = j
    BY DEF Distinct
  <2>1. i + 1 \in 1 .. Len(s) /\ j + 1 \in 1 .. Len(s) /\ t[i] = s[i + 1] /\ t[j] = s[j + 1]
    BY <1>1
  <2>2. i + 1 = j + 1
    BY <2>1 DEF Distinct
  <2> QED BY <2>2
<1>5. Distinct(s) /\ h.call # NoCall => ~Carries(t, h.call)
  <2> SUFFICES ASSUME Distinct(s), h.call # NoCall, NEW i \in 1 .. Len(t), t[i].call = h.call
               PROVE  FALSE
    BY DEF Carries
  <2>1. i + 1 \in 1 .. Len(s) /\ s[i + 1].call = s[1].call /\ s[1].call # NoCall
    BY <1>1
  <2>2. i + 1 = 1
    BY <1>1, <2>1 DEF Distinct
  <2> QED BY <2>2
<1> QED BY <1>3, <1>4, <1>5 DEF h, t

LEMMA CarryPrefix ==
    ASSUME NEW s \in Seq(Message), NEW n \in 0 .. Len(s)
    PROVE  /\ \A c : Carries(SubSeq(s, 1, n), c) => Carries(s, c)
           /\ Distinct(s) => Distinct(SubSeq(s, 1, n))
<1> DEFINE t == SubSeq(s, 1, n)
<1>1. Len(t) = n /\ \A i \in 1 .. n : i \in 1 .. Len(s) /\ t[i] = s[i]
  BY PrefixElements
<1> HIDE DEF t
<1>2. \A c : Carries(t, c) => Carries(s, c)
  BY <1>1 DEF Carries
<1>3. Distinct(s) => Distinct(t)
  BY <1>1 DEF Distinct
<1> QED BY <1>2, <1>3 DEF t

LEMMA CarryEmpty == Distinct(<<>>) /\ \A c : ~Carries(<<>>, c)
BY EmptyElements DEF Distinct, Carries

LEMMA TransitCarries ==
    ASSUME NEW c
    PROVE  InTransit(c) <=> Carries(out, c) \/ c \in atPeer \/ Carries(inbound, c)
BY DEF InTransit, Requested, Replied, Carries

LEMMA TransitCarriesPrime ==
    ASSUME NEW c
    PROVE  InTransit(c)' <=> Carries(out', c) \/ c \in atPeer' \/ Carries(inbound', c)
BY DEF InTransit, Requested, Replied, Carries

(***************************************************************************)
(* A step that puts no call on its way keeps one copy of each.             *)
(***************************************************************************)
NoNewTransit == \A d \in Calls : InTransit(d)' => InTransit(d)

LEMMA WireShrinks ==
    ASSUME OneCopy, Distinct(out'), Distinct(inbound'), atPeer' \subseteq atPeer,
           \A c \in Calls : Carries(out', c) => Carries(out, c),
           \A c \in Calls : Carries(inbound', c) => Carries(inbound, c)
    PROVE  OneCopy' /\ NoNewTransit
BY TransitCarries, TransitCarriesPrime DEF OneCopy, NoNewTransit

(***************************************************************************)
(* A send of a message that is not a request.                              *)
(***************************************************************************)
LEMMA LinkSendCarries ==
    ASSUME TypeOK, OneCopy, NEW m \in Message, m.call = NoCall, LinkSend(m)
    PROVE  Distinct(out') /\ \A c \in Calls : Carries(out', c) => Carries(out, c)
<1>1. out \in Seq(Message)
  BY DEF TypeOK
<1>2. CASE out' = out
  BY <1>2 DEF OneCopy
<1>3. CASE out' = Append(out, m)
  BY <1>1, <1>3, CarryAppend, NoneAssumption DEF OneCopy
<1> QED BY <1>2, <1>3, LinkSendOut

LEMMA LoopWire == ASSUME TypeOK, WellFormed, OneCopy, Loop PROVE OneCopy' /\ NoNewTransit
<1> USE DEF loopVars, taskVars, callVars, peerVars
<1>1. ASSUME Reading PROVE OneCopy' /\ NoNewTransit
  <2>1. inbound \in Seq(Message) /\ inbound # <<>> /\ inbound' = Tail(inbound)
    BY <1>1 DEF Reading, TypeOK
  <2>2. out' = out /\ atPeer' = atPeer
    BY <1>1 DEF Reading
  <2>3. Distinct(inbound') /\ \A c \in Calls : Carries(inbound', c) => Carries(inbound, c)
    BY <2>1, CarryTail DEF OneCopy
  <2> QED BY <2>2, <2>3, WireShrinks DEF OneCopy
<1>2. CASE Register
  <2>1. /\ LinkSend(new_message("REGISTER", NoKey)) /\ inbound' = inbound
        /\ atPeer' = atPeer
    BY <1>2 DEF Register
  <2>2. /\ new_message("REGISTER", NoKey) \in Message
        /\ new_message("REGISTER", NoKey).call = NoCall
    BY NewMessage DEF MsgTypes
  <2>3. Distinct(out') /\ \A c \in Calls : Carries(out', c) => Carries(out, c)
    BY <2>1, <2>2, LinkSendCarries
  <2> QED BY <2>1, <2>3, WireShrinks DEF OneCopy
<1>3. CASE ReceiveRegistered \/ ReceiveReady \/ ReceiveKeepalive \/ ReceiveTransaction
           \/ ReceiveReply \/ ReceiveInvalid
  <2>1. Reading
    BY <1>3 DEF ReceiveRegistered, ReceiveReady, ReceiveKeepalive, ReceiveTransaction,
                ReceiveReply, ReceiveInvalid
  <2> QED BY <1>1, <2>1
<1>4. CASE EchoKeepalive \/ RejectAndReturn
  <2>1. LinkSend(held) /\ inbound' \in {inbound, <<>>} /\ atPeer' = atPeer
    BY <1>4 DEF EchoKeepalive, RejectAndReturn, LoopReturns
  <2>2. held \in Message /\ held.call = NoCall
    BY DEF TypeOK, WellFormed
  <2>3. Distinct(out') /\ \A c \in Calls : Carries(out', c) => Carries(out, c)
    BY <2>1, <2>2, LinkSendCarries
  <2>4. Distinct(inbound') /\ \A c \in Calls : Carries(inbound', c) => Carries(inbound, c)
    BY <2>1, CarryEmpty DEF OneCopy
  <2> QED BY <2>1, <2>3, <2>4, WireShrinks
<1>5. CASE StreamEnded
  <2>1. out' = out /\ inbound' = <<>> /\ atPeer' = atPeer
    BY <1>5 DEF StreamEnded, LoopReturns
  <2> QED BY <2>1, CarryEmpty, WireShrinks DEF OneCopy
<1> QED BY <1>2, <1>3, <1>4, <1>5 DEF Loop

(***************************************************************************)
(* Steps that leave both channels and the peer's requests alone.           *)
(***************************************************************************)
LEMMA WireUnchanged ==
    ASSUME OneCopy, UNCHANGED <<out, inbound, atPeer>> PROVE OneCopy' /\ NoNewTransit
BY WireShrinks DEF OneCopy

LEMMA TaskWire ==
    ASSUME TypeOK, WellFormed, OneCopy, NEW k \in TxKeys, Task(k)
    PROVE  OneCopy' /\ NoNewTransit
<1> USE DEF loopVars, taskVars, callVars, peerVars
<1>1. CASE TaskSends(k)
  <2>1. LinkSend(final[k]) /\ inbound' = inbound /\ atPeer' = atPeer
    BY <1>1 DEF TaskSends
  <2>2. final[k] \in Message /\ final[k].call = NoCall
    BY DEF TypeOK, WellFormed
  <2>3. Distinct(out') /\ \A c \in Calls : Carries(out', c) => Carries(out, c)
    BY <2>1, <2>2, LinkSendCarries
  <2> QED BY <2>1, <2>3, WireShrinks DEF OneCopy
<1>2. CASE TaskRejects(k) \/ TaskDescribes(k) \/ TaskRuns(k) \/ TaskFinishes(k)
  <2>1. UNCHANGED <<out, inbound, atPeer>>
    BY <1>2 DEF TaskRejects, TaskDescribes, TaskRuns, TaskFinishes
  <2> QED BY <2>1, WireUnchanged
<1> QED BY <1>1, <1>2 DEF Task

(***************************************************************************)
(* CallSends puts the request of c, and nothing else, on its way.          *)
(***************************************************************************)
LEMMA SendWire ==
    ASSUME TypeOK, WellFormed, OneCopy, NEW c \in Calls, ~InTransit(c), CallSends(c)
    PROVE  /\ OneCopy'
           /\ \A d \in Calls : InTransit(d)' => InTransit(d) \/ d = c
           /\ ~OutAlive => NoNewTransit
<1> USE DEF loopVars, taskVars, callVars, peerVars
<1> DEFINE m == CallMessage("REQUEST", c)
<1>1. m \in Message /\ m.call = c
  BY CallMessages DEF MsgTypes
<1>2. LinkSend(m) /\ inbound' = inbound /\ atPeer' = atPeer
  BY DEF CallSends
<1>3. ~Carries(out, c) /\ c \notin atPeer /\ ~Carries(inbound, c)
  BY TransitCarries
<1> HIDE DEF m
<1>4. out \in Seq(Message)
  BY DEF TypeOK
<1>5. CASE out' = out
  BY <1>2, <1>5, WireUnchanged DEF NoNewTransit
<1>6. CASE out' = Append(out, m)
  <2>1. \A d : Carries(out', d) <=> Carries(out, d) \/ d = c
    BY <1>1, <1>4, <1>6, CarryAppend
  <2>2. Distinct(out')
    BY <1>1, <1>3, <1>4, <1>6, CarryAppend DEF OneCopy
  <2>3. OneCopy'
    BY <1>2, <1>3, <2>1, <2>2 DEF OneCopy
  <2>4. \A d \in Calls : InTransit(d)' => InTransit(d) \/ d = c
    BY <1>2, <2>1, TransitCarries, TransitCarriesPrime
  <2>5. ~OutAlive => out' = out
    BY <1>2 DEF LinkSend
  <2> QED BY <1>2, <2>3, <2>4, <2>5, WireUnchanged
<1> QED BY <1>1, <1>2, <1>5, <1>6, LinkSendOut

LEMMA RequestWire ==
    ASSUME OneCopy, NEW c \in Calls, Request(c), ~CallSends(c)
    PROVE  OneCopy' /\ NoNewTransit
<1>1. UNCHANGED <<out, inbound, atPeer>>
  BY DEF Request, CallRegisters, CallRefused, CallReturns, CallClosed, peerVars
<1> QED BY <1>1, WireUnchanged

LEMMA ChaincodeWire == ASSUME OneCopy, Chaincode PROVE OneCopy' /\ NoNewTransit
<1>1. UNCHANGED <<out, inbound, atPeer>>
  BY DEF Chaincode, SetEvent, HandlerEnds, CallStarts, CallCancelled, peerVars
<1> QED BY <1>1, WireUnchanged

LEMMA PeerSendsCarries ==
    ASSUME TypeOK, OneCopy, NEW m \in Message, PeerSends(m),
           m.call = NoCall \/ ~Carries(inbound, m.call)
    PROVE  /\ Distinct(inbound')
           /\ \A c \in Calls : Carries(inbound', c) => Carries(inbound, c) \/ m.call = c
<1>1. inbound \in Seq(Message)
  BY DEF TypeOK
<1>2. CASE inbound' = inbound
  BY <1>2 DEF OneCopy
<1>3. CASE inbound' = Append(inbound, m)
  BY <1>1, <1>3, CarryAppend DEF OneCopy
<1> QED BY <1>2, <1>3, PeerSendsIn

LEMMA PeerWire == ASSUME TypeOK, WellFormed, OneCopy, Peer PROVE OneCopy' /\ NoNewTransit
<1> USE DEF loopVars, taskVars, callVars, peerVars
<1>1. CASE PeerReading
  <2> DEFINE m == Head(out)
  <2>1. out \in Seq(Message) /\ out # <<>> /\ out' = Tail(out) /\ inbound' = inbound
    BY <1>1 DEF PeerReading, PeerReadsRegister, PeerReadsRequest, PeerReadsEcho,
                PeerReadsVerdict, PeerReads, TypeOK
  <2>2. PeerReads
    BY <1>1 DEF PeerReading, PeerReadsRegister, PeerReadsRequest, PeerReadsEcho,
                PeerReadsVerdict
  <2>3. m.call \in Calls \cup {NoCall} /\ (m.call # NoCall <=> m.type = "REQUEST")
    BY <2>2, PeerReadsOut DEF OutboundMessage
  <2>4. \/ atPeer' = atPeer
        \/ m.type = "REQUEST" /\ atPeer' = atPeer \cup {m.call}
    BY <1>1 DEF PeerReading, PeerReadsRegister, PeerReadsRequest, PeerReadsEcho,
                PeerReadsVerdict
  <2>5. /\ Distinct(out')
        /\ \A c : Carries(out, c) <=> m.call = c \/ Carries(out', c)
        /\ m.call # NoCall => ~Carries(out', m.call)
    BY <2>1, CarryTail DEF OneCopy
  <2> HIDE DEF m
  <2>6. CASE atPeer' = atPeer
    BY <2>1, <2>5, <2>6, WireShrinks DEF OneCopy
  <2>7. CASE m.type = "REQUEST" /\ atPeer' = atPeer \cup {m.call}
    <3>1. m.call \in Calls /\ Carries(out, m.call) /\ ~Carries(out', m.call)
      BY <2>3, <2>5, <2>7
    <3>2. OneCopy'
      BY <2>1, <2>5, <2>7, <3>1 DEF OneCopy
    <3>3. NoNewTransit
      BY <2>1, <2>5, <2>7, <3>1, TransitCarries, TransitCarriesPrime DEF NoNewTransit
    <3> QED BY <3>2, <3>3
  <2> QED BY <2>4, <2>6, <2>7
<1>2. ASSUME NEW m \in Message, m.call = NoCall, PeerSends(m), atPeer' = atPeer
      PROVE  OneCopy' /\ NoNewTransit
  <2>1. out' = out
    BY <1>2 DEF PeerSends
  <2>2. Distinct(inbound') /\ \A c \in Calls : Carries(inbound', c) => Carries(inbound, c)
    BY <1>2, PeerSendsCarries, NoneAssumption
  <2> QED BY <1>2, <2>1, <2>2, WireShrinks DEF OneCopy
<1>3. CASE PeerShakesHands
  <2>1. PICK type \in StrayTypes : PeerSends(new_message(type, NoKey))
    BY <1>3 DEF PeerShakesHands, StrayTypes
  <2>2. atPeer' = atPeer
    BY <1>3 DEF PeerShakesHands
  <2> QED BY <1>2, <2>1, <2>2, PeerMessages
<1>4. CASE PeerPings
  BY <1>2, <1>4, PeerMessages DEF PeerPings
<1>5. CASE PeerCloses
  <2>1. UNCHANGED <<out, inbound, atPeer>>
    BY <1>5 DEF PeerCloses
  <2> QED BY <2>1, WireUnchanged
<1>6. CASE StreamBreaks
  <2>1. PICK n \in 0 .. Len(inbound) : inbound' = SubSeq(inbound, 1, n)
    BY <1>6 DEF StreamBreaks
  <2>2. out' = <<>> /\ atPeer' = atPeer /\ inbound \in Seq(Message)
    BY <1>6 DEF StreamBreaks, TypeOK
  <2>3. Distinct(inbound') /\ \A c \in Calls : Carries(inbound', c) => Carries(inbound, c)
    BY <2>1, <2>2, CarryPrefix DEF OneCopy
  <2> QED BY <2>2, <2>3, CarryEmpty, WireShrinks
<1>7. ASSUME NEW k \in TxKeys, NEW type \in TxTypes, PeerStarts(k, type)
      PROVE  OneCopy' /\ NoNewTransit
  BY <1>2, <1>7, PeerMessages DEF PeerStarts
<1>8. ASSUME NEW c \in Calls, NEW type \in ReplyTypes, PeerAnswers(c, type)
      PROVE  OneCopy' /\ NoNewTransit
  <2> DEFINE m == CallMessage(type, c)
  <2>1. m \in Message /\ m.call = c
    BY CallMessages DEF MsgTypes
  <2>2. PeerSends(m) /\ c \in atPeer /\ atPeer' = atPeer \ {c} /\ out' = out
    BY <1>8 DEF PeerAnswers, PeerSends
  <2> HIDE DEF m
  <2>3. ~Carries(inbound, c) /\ ~Carries(out, c)
    BY <2>2 DEF OneCopy
  <2>4. /\ Distinct(inbound')
        /\ \A d \in Calls : Carries(inbound', d) => Carries(inbound, d) \/ d = c
    BY <2>1, <2>2, <2>3, PeerSendsCarries
  <2>5. OneCopy'
    BY <2>2, <2>3, <2>4 DEF OneCopy
  <2>6. NoNewTransit
    BY <2>2, <2>4, TransitCarries, TransitCarriesPrime DEF NoNewTransit
  <2> QED BY <2>5, <2>6
<1>9. ASSUME NEW type \in StrayTypes, NEW k \in TxKeys \cup {NoKey}, PeerStrays(type, k)
      PROVE OneCopy' /\ NoNewTransit
  BY <1>2, <1>9, PeerMessages DEF PeerStrays
<1> QED BY <1>1, <1>3, <1>4, <1>5, <1>6, <1>7, <1>8, <1>9 DEF Peer

-----------------------------------------------------------------------------
(* A transaction is dispatched once *)

(***************************************************************************)
(* Steps that take messages from the front (d = 1) or the back (d = 0) of  *)
(* inbound, or none, and start no task.                                    *)
(***************************************************************************)
LEMMA DispatchShrinks ==
    ASSUME TypeOK, WellFormed, DispatchedOnce, NEW d \in {0, 1}, started' = started,
           Len(inbound') \in Nat,
           \A i \in 1 .. Len(inbound') :
              i + d \in 1 .. Len(inbound) /\ inbound'[i] = inbound[i + d],
           \A k \in TxKeys : task[k] = "none" => task'[k] = "none"
    PROVE  DispatchedOnce'
<1>1. \A k \in TxKeys : k \notin started' => task'[k] = "none"
  BY DEF DispatchedOnce
<1>2. ASSUME NEW i \in 1 .. Len(inbound'), inbound'[i].type \in TxTypes
      PROVE  /\ inbound'[i].key \in started'
             /\ task'[inbound'[i].key] = "none"
             /\ \A j \in 1 .. Len(inbound') :
                   inbound'[j].type \in TxTypes /\ inbound'[j].key = inbound'[i].key => i = j
  <2>1. i + d \in 1 .. Len(inbound) /\ inbound'[i] = inbound[i + d]
    OBVIOUS
  <2>2. inbound[i + d].key \in TxKeys
    BY <1>2, <2>1 DEF WellFormed, InboundMessage
  <2>3. inbound[i + d].key \in started /\ task[inbound[i + d].key] = "none"
    BY <1>2, <2>1 DEF DispatchedOnce
  <2>4. ASSUME NEW j \in 1 .. Len(inbound'), inbound'[j].type \in TxTypes,
               inbound'[j].key = inbound'[i].key
        PROVE  i = j
    <3>1. j + d \in 1 .. Len(inbound) /\ inbound'[j] = inbound[j + d]
      OBVIOUS
    <3>2. i + d = j + d
      BY <1>2, <2>1, <2>4, <3>1 DEF DispatchedOnce
    <3> QED BY <3>2
  <2> QED BY <2>1, <2>2, <2>3, <2>4
<1> QED BY <1>1, <1>2 DEF DispatchedOnce

(***************************************************************************)
(* The special case in which inbound does not change.                      *)
(***************************************************************************)
LEMMA DispatchUnchanged ==
    ASSUME TypeOK, WellFormed, DispatchedOnce, UNCHANGED <<inbound, started>>,
           \A k \in TxKeys : task[k] = "none" => task'[k] = "none"
    PROVE  DispatchedOnce'
<1>1. Len(inbound') \in Nat
  BY DEF TypeOK
<1>2. \A i \in 1 .. Len(inbound') : i + 0 \in 1 .. Len(inbound) /\ inbound'[i] = inbound[i + 0]
  BY <1>1
<1> QED BY <1>1, <1>2, DispatchShrinks

LEMMA DispatchEmpty ==
    ASSUME TypeOK, WellFormed, DispatchedOnce, inbound' = <<>>, UNCHANGED <<task, started>>
    PROVE  DispatchedOnce'
<1>1. Len(inbound') \in Nat /\ \A i \in 1 .. Len(inbound') : FALSE
  BY EmptyElements
<1> QED BY <1>1, DispatchShrinks

LEMMA LoopDispatch == ASSUME TypeOK, WellFormed, DispatchedOnce, Loop PROVE DispatchedOnce'
<1> USE DEF loopVars, taskVars, callVars, peerVars
<1>1. ASSUME Reading
      PROVE  /\ started' = started /\ Len(inbound') \in Nat /\ Len(inbound) \in Nat
             /\ \A i \in 1 .. Len(inbound') :
                   i + 1 \in 1 .. Len(inbound) /\ inbound'[i] = inbound[i + 1]
             /\ 1 \in 1 .. Len(inbound) /\ Head(inbound) = inbound[1]
  <2>1. started' = started
    BY <1>1 DEF Reading
  <2>2. inbound' \in Seq(Message) /\ inbound \in Seq(Message)
    BY <1>1, ReadingIn DEF TypeOK
  <2> QED BY <1>1, <2>1, <2>2, ReadingIn
<1>2. CASE Register \/ EchoKeepalive
  <2>1. UNCHANGED <<inbound, started, task>>
    BY <1>2 DEF Register, EchoKeepalive
  <2> QED BY <2>1, DispatchUnchanged
<1>3. CASE ReceiveRegistered \/ ReceiveReady \/ ReceiveKeepalive \/ ReceiveReply
           \/ ReceiveInvalid
  <2>1. Reading /\ task' = task
    BY <1>3 DEF ReceiveRegistered, ReceiveReady, ReceiveKeepalive, ReceiveReply,
                ReceiveInvalid
  <2> QED BY <1>1, <2>1, DispatchShrinks
<1>4. CASE ReceiveTransaction
  <2> DEFINE k == Head(inbound).key
  <2>1. Reading /\ Head(inbound).type \in TxTypes /\ task' = [task EXCEPT ![k] = "spawned"]
    BY <1>4 DEF ReceiveTransaction
  <2>2. /\ started' = started /\ Len(inbound') \in Nat /\ Len(inbound) \in Nat
        /\ \A i \in 1 .. Len(inbound') :
              i + 1 \in 1 .. Len(inbound) /\ inbound'[i] = inbound[i + 1]
        /\ 1 \in 1 .. Len(inbound) /\ inbound[1].type \in TxTypes /\ inbound[1].key = k
    BY <1>1, <2>1
  <2>3. k \in started /\ k \in TxKeys /\ task \in [TxKeys -> TaskState]
    BY <2>2 DEF DispatchedOnce, WellFormed, InboundMessage, TypeOK
  <2>4. task' = [task EXCEPT ![k] = "spawned"]
    BY <2>1
  <2> HIDE DEF k
  <2>5. \A j \in TxKeys : j # k => task'[j] = task[j]
    BY <2>3, <2>4
  <2>6. \A j \in TxKeys : j \notin started' => task'[j] = "none"
    BY <2>2, <2>3, <2>5 DEF DispatchedOnce
  <2>7. ASSUME NEW i \in 1 .. Len(inbound'), inbound'[i].type \in TxTypes
        PROVE  /\ inbound'[i].key \in started'
               /\ task'[inbound'[i].key] = "none"
               /\ \A j \in 1 .. Len(inbound') :
                     inbound'[j].type \in TxTypes /\ inbound'[j].key = inbound'[i].key => i = j
    <3>1. i + 1 \in 1 .. Len(inbound) /\ inbound'[i] = inbound[i + 1]
      BY <2>2
    <3>2. inbound[i + 1].key \in TxKeys
      BY <2>7, <3>1 DEF WellFormed, InboundMessage
    <3>3. inbound[i + 1].key \in started /\ task[inbound[i + 1].key] = "none"
      BY <2>7, <3>1 DEF DispatchedOnce
    <3>4. inbound[i + 1].key # k
      <4>1. SUFFICES ASSUME inbound[i + 1].key = k PROVE FALSE
        OBVIOUS
      <4>2. i + 1 = 1
        BY <2>2, <2>7, <3>1, <4>1 DEF DispatchedOnce
      <4> QED BY <4>2
    <3>5. ASSUME NEW j \in 1 .. Len(inbound'), inbound'[j].type \in TxTypes,
                 inbound'[j].key = inbound'[i].key
          PROVE  i = j
      <4>1. j + 1 \in 1 .. Len(inbound) /\ inbound'[j] = inbound[j + 1]
        BY <2>2
      <4>2. i + 1 = j + 1
        BY <2>7, <3>1, <3>5, <4>1 DEF DispatchedOnce
      <4> QED BY <4>2
    <3> QED BY <2>2, <2>5, <3>1, <3>2, <3>3, <3>4, <3>5
  <2> QED BY <2>6, <2>7 DEF DispatchedOnce
<1>5. CASE RejectAndReturn \/ StreamEnded
  <2>1. inbound' = <<>> /\ UNCHANGED <<task, started>>
    BY <1>5 DEF RejectAndReturn, StreamEnded, LoopReturns
  <2> QED BY <2>1, DispatchEmpty
<1> QED BY <1>2, <1>3, <1>4, <1>5 DEF Loop

LEMMA TaskDispatch ==
    ASSUME TypeOK, WellFormed, DispatchedOnce, NEW k \in TxKeys, Task(k)
    PROVE  DispatchedOnce'
<1>1. UNCHANGED <<inbound, started>>
  BY DEF Task, TaskRejects, TaskDescribes, TaskRuns, TaskFinishes, TaskSends, peerVars
<1>2. \A j \in TxKeys : task[j] = "none" => task'[j] = "none"
  BY DEF Task, TaskRejects, TaskDescribes, TaskRuns, TaskFinishes, TaskSends, TypeOK
<1> QED BY <1>1, <1>2, DispatchUnchanged

LEMMA RequestDispatch ==
    ASSUME TypeOK, WellFormed, DispatchedOnce, NEW c \in Calls, Request(c)
    PROVE  DispatchedOnce'
<1>1. UNCHANGED <<inbound, started, task>>
  BY DEF Request, CallRegisters, CallRefused, CallSends, CallReturns, CallClosed, peerVars,
         taskVars
<1> QED BY <1>1, DispatchUnchanged

LEMMA ChaincodeDispatch ==
    ASSUME TypeOK, WellFormed, DispatchedOnce, Chaincode PROVE DispatchedOnce'
<1>1. UNCHANGED <<inbound, started>>
  BY DEF Chaincode, SetEvent, HandlerEnds, CallStarts, CallCancelled, peerVars
<1>2. \A j \in TxKeys : task[j] = "none" => task'[j] = "none"
  BY DEF Chaincode, SetEvent, HandlerEnds, CallStarts, CallCancelled, taskVars, TypeOK
<1> QED BY <1>1, <1>2, DispatchUnchanged

LEMMA PeerDispatch == ASSUME TypeOK, WellFormed, DispatchedOnce, Peer PROVE DispatchedOnce'
<1> USE DEF loopVars, taskVars, callVars, peerVars
<1>1. CASE PeerReading \/ PeerCloses
  <2>1. UNCHANGED <<inbound, started, task>>
    BY <1>1 DEF PeerReading, PeerReadsRegister, PeerReadsRequest, PeerReadsEcho,
                PeerReadsVerdict, PeerReads, PeerCloses
  <2> QED BY <2>1, DispatchUnchanged
<1>2. CASE StreamBreaks
  <2>1. PICK n \in 0 .. Len(inbound) : inbound' = SubSeq(inbound, 1, n)
    BY <1>2 DEF StreamBreaks
  <2>2. UNCHANGED <<task, started>> /\ inbound \in Seq(Message)
    BY <1>2 DEF StreamBreaks, TypeOK
  <2>3. /\ Len(inbound') = n /\ Len(inbound') \in Nat
        /\ \A i \in 1 .. n : i \in 1 .. Len(inbound) /\ inbound'[i] = inbound[i]
    BY <2>1, <2>2, PrefixElements
  <2>4. \A i \in 1 .. Len(inbound') : i + 0 \in 1 .. Len(inbound) /\ inbound'[i] = inbound[i + 0]
    BY <2>3
  <2> QED BY <2>2, <2>3, <2>4, DispatchShrinks
<1>3. ASSUME NEW m \in Message, PeerSends(m), inbound' = Append(inbound, m)
      PROVE  /\ Len(inbound) \in Nat /\ Len(inbound') = Len(inbound) + 1
             /\ \A i \in 1 .. Len(inbound') :
                   \/ i \in 1 .. Len(inbound) /\ inbound'[i] = inbound[i]
                   \/ i = Len(inbound') /\ inbound'[i] = m
  <2>1. inbound \in Seq(Message)
    BY DEF TypeOK
  <2>2. /\ Len(inbound) \in Nat /\ Len(inbound') = Len(inbound) + 1
        /\ \A i \in 1 .. Len(inbound') :
              inbound'[i] = IF i <= Len(inbound) THEN inbound[i] ELSE m
    BY <1>3, <2>1, AppendElements
  <2> QED BY <2>2
<1>4. ASSUME NEW m \in Message, PeerSends(m), m.type \notin TxTypes, started' = started
      PROVE  DispatchedOnce'
  <2>1. task' = task
    BY <1>4 DEF PeerSends
  <2>2. CASE inbound' = inbound
    BY <1>4, <2>1, <2>2, DispatchUnchanged
  <2>3. CASE inbound' = Append(inbound, m)
    <3>1. \A i \in 1 .. Len(inbound') : inbound'[i].type \in TxTypes =>
             i \in 1 .. Len(inbound) /\ inbound'[i] = inbound[i]
      BY <1>3, <1>4, <2>3
    <3> QED BY <1>4, <2>1, <3>1 DEF DispatchedOnce
  <2> QED BY <1>4, <2>2, <2>3, PeerSendsIn
<1>5. CASE PeerShakesHands
  <2>1. PICK type \in StrayTypes : PeerSends(new_message(type, NoKey))
    BY <1>5 DEF PeerShakesHands, StrayTypes
  <2>2. started' = started
    BY <1>5 DEF PeerShakesHands
  <2> QED BY <1>4, <2>1, <2>2, PeerMessages
<1>6. CASE PeerPings
  BY <1>4, <1>6, PeerMessages DEF PeerPings
<1>7. ASSUME NEW type \in StrayTypes, NEW k \in TxKeys \cup {NoKey}, PeerStrays(type, k)
      PROVE DispatchedOnce'
  BY <1>4, <1>7, PeerMessages DEF PeerStrays
<1>8. ASSUME NEW c \in Calls, NEW type \in ReplyTypes, PeerAnswers(c, type)
      PROVE  DispatchedOnce'
  BY <1>4, <1>8, PeerMessages DEF PeerAnswers
<1>9. ASSUME NEW k \in TxKeys, NEW type \in TxTypes, PeerStarts(k, type)
      PROVE  DispatchedOnce'
  <2> DEFINE m == new_message(type, k)
  <2>1. m \in Message /\ m.key = k
    BY PeerMessages
  <2>2. PeerSends(m) /\ k \notin started /\ started' = started \cup {k} /\ task' = task
    BY <1>9 DEF PeerStarts, PeerSends
  <2> HIDE DEF m
  <2>3. task[k] = "none"
    BY <2>2 DEF DispatchedOnce
  <2>4. CASE inbound' = inbound
    BY <2>2, <2>4 DEF DispatchedOnce
  <2>5. CASE inbound' = Append(inbound, m)
    <3>1. \A i \in 1 .. Len(inbound') :
             \/ i \in 1 .. Len(inbound) /\ inbound'[i] = inbound[i]
             \/ i = Len(inbound') /\ inbound'[i] = m
      BY <1>3, <2>1, <2>2, <2>5
    <3>2. \A i \in 1 .. Len(inbound) :
             inbound[i].type \in TxTypes => inbound[i].key \in started /\ inbound[i].key # k
      BY <2>2 DEF DispatchedOnce
    <3>3. ASSUME NEW i \in 1 .. Len(inbound'), inbound'[i].type \in TxTypes
          PROVE  /\ inbound'[i].key \in started'
                 /\ task'[inbound'[i].key] = "none"
      BY <2>1, <2>2, <2>3, <3>1, <3>3 DEF DispatchedOnce
    <3>4. ASSUME NEW i \in 1 .. Len(inbound'), inbound'[i].type \in TxTypes,
                 NEW j \in 1 .. Len(inbound'), inbound'[j].type \in TxTypes,
                 inbound'[j].key = inbound'[i].key
          PROVE  i = j
      BY <2>1, <3>1, <3>2, <3>4 DEF DispatchedOnce
    <3>5. \A j \in TxKeys : j \notin started' => task'[j] = "none"
      BY <2>2 DEF DispatchedOnce
    <3> QED BY <3>3, <3>4, <3>5 DEF DispatchedOnce
  <2> QED BY <2>1, <2>2, <2>4, <2>5, PeerSendsIn
<1> QED BY <1>1, <1>2, <1>5, <1>6, <1>7, <1>8, <1>9 DEF Peer

-----------------------------------------------------------------------------
(* Calls, pending entries and tasks *)

(***************************************************************************)
(* A lost connection stays lost.                                           *)
(***************************************************************************)
StaysBroken == stream = "broken" => stream' = "broken"

(***************************************************************************)
(* Steps that touch neither calls nor tasks nor the pending map, and put   *)
(* no request on its way.                                                  *)
(***************************************************************************)
LEMMA QuietStep ==
    ASSUME ControlInv, NoNewTransit, StaysBroken, UNCHANGED <<pending, call, reply, task>>
    PROVE  ControlInv'
<1> USE DEF ControlInv
<1>1. TransitIsPending'
  BY DEF TransitIsPending, NoNewTransit, Live
<1>2. CallHistory'
  BY DEF CallHistory, NoNewTransit, Live
<1>3. PendingEntries' /\ CallsFollowTask' /\ GateExclusive' /\ WaitingIsPending'
  BY DEF PendingEntries, CallsFollowTask, GateExclusive, WaitingIsPending
<1>4. NoCrossTalk' /\ NoPendingLeak' /\ RefusedAfterCancel'
  BY DEF NoCrossTalk, NoPendingLeak, RefusedAfterCancel, Attended, CallsOf
<1>5. OneInFlight'
  BY DEF OneInFlight, NoNewTransit, Attended
<1>6. ClosedMeansOver'
  BY DEF ClosedMeansOver, StaysBroken
<1> QED BY <1>1, <1>2, <1>3, <1>4, <1>5, <1>6

(***************************************************************************)
(* The receive loop starts a task for k, whose calls are all idle.         *)
(***************************************************************************)
LEMMA TransactionControl ==
    ASSUME TypeOK, WellFormed, DispatchedOnce, ControlInv, NoNewTransit, ReceiveTransaction
    PROVE  ControlInv'
<1> DEFINE k == Head(inbound).key
<1>1. Reading /\ Head(inbound).type \in TxTypes
  BY DEF ReceiveTransaction
<1>2. k \in TxKeys /\ task[k] = "none"
  BY <1>1, ReadingIn DEF InboundMessage, DispatchedOnce
<1>3. task' = [task EXCEPT ![k] = "spawned"] /\ UNCHANGED <<pending, call, reply>>
  BY DEF ReceiveTransaction, callVars
<1>4. stream' = stream
  BY <1>1 DEF Reading
<1> HIDE DEF k
<1>5. task'[k] = "spawned" /\ \A j \in TxKeys : j # k => task'[j] = task[j]
  BY <1>2, <1>3 DEF TypeOK
<1>6. \A j \in TxKeys : /\ task'[j] = "running" <=> task[j] = "running"
                        /\ task'[j] = "returned" <=> task[j] = "returned"
                        /\ task[j] \in {"sending", "done"} <=> task'[j] \in {"sending", "done"}
  BY <1>2, <1>5
<1> USE KeyOfCall DEF ControlInv
<1>7. TransitIsPending'
  BY <1>3, <1>6 DEF TransitIsPending, NoNewTransit, Live
<1>8. CallHistory'
  BY <1>3, <1>6 DEF CallHistory, NoNewTransit, Live
<1>9. PendingEntries' /\ GateExclusive'
  BY <1>3 DEF PendingEntries, GateExclusive
<1>10. CallsFollowTask'
  BY <1>2, <1>3, <1>5 DEF CallsFollowTask
<1>11. WaitingIsPending'
  BY <1>3, <1>6 DEF WaitingIsPending
<1>12. NoCrossTalk' /\ RefusedAfterCancel'
  BY <1>3, <1>6 DEF NoCrossTalk, RefusedAfterCancel, Attended, CallsOf
<1>13. NoPendingLeak'
  BY <1>3, <1>5 DEF NoPendingLeak
<1>14. OneInFlight'
  BY <1>6 DEF OneInFlight, NoNewTransit, Attended
<1>15. ClosedMeansOver'
  BY <1>3, <1>4, <1>6 DEF ClosedMeansOver
<1> QED BY <1>7, <1>8, <1>9, <1>10, <1>11, <1>12, <1>13, <1>14, <1>15

(***************************************************************************)
(* route_response.  The reply is that of a call in transit.  If the        *)
(* transaction is live, that call is the pending one; if it is not, no     *)
(* call of it is attended any more.                                        *)
(***************************************************************************)
LEMMA ReplyControl ==
    ASSUME TypeOK, WellFormed, OneCopy, ControlInv, NoNewTransit, ReceiveReply
    PROVE  ControlInv'
<1>1. Reading /\ Head(inbound).type \in ReplyTypes
  BY DEF ReceiveReply
<1>2. PICK m \in Message : m = Head(inbound)
  BY <1>1, ReadingIn
<1> DEFINE k == m.key
           a == m.call
<1>3. a \in Calls /\ k = KeyOf(a) /\ k \in TxKeys
  BY <1>1, <1>2, ReadingIn, KeyOfCall DEF InboundMessage
<1>4. PICK c \in Calls \cup {NoCall} : c = pending[k]
  BY <1>3 DEF TypeOK
<1>5. InTransit(a) /\ ~InTransit(a)'
  <2>1. /\ inbound \in Seq(Message) /\ inbound # <<>> /\ inbound' = Tail(inbound)
        /\ UNCHANGED <<out, atPeer>>
    BY <1>1 DEF Reading, TypeOK, peerVars
  <2>2. Carries(inbound, a) /\ ~Carries(inbound', a)
    BY <1>2, <1>3, <2>1, CarryTail, NoneAssumption DEF OneCopy
  <2> QED BY <1>3, <2>1, <2>2, TransitCarries, TransitCarriesPrime DEF OneCopy
<1>6. /\ pending' = [pending EXCEPT ![k] = NoCall]
      /\ reply' = IF c # NoCall /\ call[c] \in {"send", "wait"}
                    THEN [reply EXCEPT ![c] = m] ELSE reply
      /\ UNCHANGED <<call, task>>
  BY <1>2, <1>4 DEF ReceiveReply, route_response, RouteKey, drop_pending, taskVars
<1>7. stream' = stream
  BY <1>1 DEF Reading
<1>8. m # NoMsg
  BY <1>1, <1>2, NoMsgMessage DEF ReplyTypes
<1>9. pending'[k] = NoCall /\ \A j \in TxKeys : j # k => pending'[j] = pending[j]
  BY <1>3, <1>6 DEF TypeOK
<1>10. \A d \in Calls : reply'[d] # reply[d] =>
          d = c /\ call[d] \in {"send", "wait"} /\ reply'[d] = m /\ KeyOf(d) = k
  BY <1>3, <1>4, <1>6 DEF TypeOK, ControlInv, PendingEntries
<1>11. Live(k) => c = a
  BY <1>3, <1>5, <1>4 DEF ControlInv, TransitIsPending
<1>12. Live(k)' <=> Live(k)
  BY <1>6 DEF Live
<1> USE KeyOfCall, NoneAssumption DEF ControlInv
<1>13. TransitIsPending'
  BY <1>3, <1>5, <1>6, <1>9, <1>11, <1>4 DEF TransitIsPending, NoNewTransit, Live
<1>14. CallHistory'
  <2> SUFFICES ASSUME NEW d \in Calls
               PROVE  /\ call'[d] \in {"idle", "gate", "send"} => ~InTransit(d)'
                      /\ call'[d] \in {"idle", "gate"} => reply'[d] = NoMsg
                      /\ call'[d] = "send" /\ Live(KeyOf(d))' => pending'[KeyOf(d)] = d
                      /\ reply'[d] # NoMsg => pending'[KeyOf(d)] # d
    BY DEF CallHistory
  <2>1. call'[d] \in {"idle", "gate", "send"} => ~InTransit(d)'
    BY <1>6 DEF CallHistory, NoNewTransit
  <2>2. call'[d] \in {"idle", "gate"} => reply'[d] = NoMsg
    BY <1>6, <1>10 DEF CallHistory
  <2>3. call'[d] = "send" /\ Live(KeyOf(d))' => pending'[KeyOf(d)] = d
    BY <1>3, <1>5, <1>6, <1>9, <1>11, <1>4 DEF CallHistory, Live
  <2>4. reply'[d] # NoMsg => pending'[KeyOf(d)] # d
    BY <1>9, <1>10 DEF CallHistory
  <2> QED BY <2>1, <2>2, <2>3, <2>4
<1>15. PendingEntries' /\ CallsFollowTask' /\ GateExclusive'
  BY <1>6, <1>9 DEF PendingEntries, CallsFollowTask, GateExclusive
<1>16. WaitingIsPending'
  <2> SUFFICES ASSUME NEW d \in Calls, call[d] \in {"send", "wait"}, reply'[d] = NoMsg,
                      pending'[KeyOf(d)] # d
               PROVE  task[KeyOf(d)] \in {"sending", "done"}
    BY <1>6 DEF WaitingIsPending
  <2>1. reply[d] = NoMsg
    BY <1>8, <1>10
  <2>2. CASE pending[KeyOf(d)] # d
    BY <2>1, <2>2 DEF WaitingIsPending
  <2>3. CASE pending[KeyOf(d)] = d
    <3>1. c = d
      BY <1>9, <1>4, <2>3
    <3>2. reply'[d] = m
      BY <1>6, <3>1 DEF TypeOK
    <3> QED BY <1>8, <3>2
  <2> QED BY <2>2, <2>3
<1>17. NoCrossTalk'
  <2> SUFFICES ASSUME NEW d \in Calls, Attended(KeyOf(d)), reply'[d] # NoMsg
               PROVE  reply'[d].call = d
    BY <1>6 DEF NoCrossTalk, Attended
  <2>1. CASE reply'[d] = reply[d]
    BY <2>1 DEF NoCrossTalk
  <2>2. CASE reply'[d] # reply[d]
    <3>1. d = c /\ call[d] \in {"send", "wait"} /\ reply'[d] = m /\ KeyOf(d) = k
      BY <1>10, <2>2
    <3>2. task[k] = "running"
      BY <3>1 DEF Attended, CallsFollowTask, ActiveCall
    <3> QED BY <1>11, <3>1, <3>2 DEF Live
  <2> QED BY <2>1, <2>2
<1>18. OneInFlight'
  BY <1>6 DEF OneInFlight, NoNewTransit, Attended
<1>19. NoPendingLeak' /\ ClosedMeansOver' /\ RefusedAfterCancel'
  BY <1>6, <1>7, <1>9 DEF NoPendingLeak, ClosedMeansOver, RefusedAfterCancel, CallsOf
<1> QED BY <1>13, <1>14, <1>15, <1>16, <1>17, <1>18, <1>19


(***************************************************************************)
(* A task that leaves "spawned" has made no call, so nothing of it is      *)
(* pending or in transit; the other moves are between states in which      *)
(* nothing depends on the task any more.                                   *)
(***************************************************************************)
LEMMA TaskMoves ==
    ASSUME TypeOK, ControlInv, NoNewTransit, stream' = stream,
           UNCHANGED <<pending, call, reply>>, NEW k \in TxKeys,
           \A j \in TxKeys : j # k => task'[j] = task[j],
           \/ task[k] = "spawned" /\ task'[k] \in {"answering", "running"}
           \/ task[k] = "answering" /\ task'[k] = "answered"
           \/ task[k] = "sending" /\ task'[k] = "done"
    PROVE  ControlInv'
<1> USE KeyOfCall, NoneAssumption DEF ControlInv
<1>1. \A c \in Calls : KeyOf(c) = k /\ task[k] = "spawned" =>
         call[c] = "idle" /\ ~InTransit(c) /\ reply[c] = NoMsg
  BY DEF CallsFollowTask, CallHistory
<1>2. task[k] = "spawned" => pending[k] = NoCall
  BY <1>1 DEF PendingEntries, TypeOK
<1>3. \A j \in TxKeys : j # k \/ task[k] # "spawned" => (Live(j)' <=> Live(j))
  BY DEF Live
<1>4. TransitIsPending'
  BY <1>1, <1>3 DEF TransitIsPending, NoNewTransit
<1>5. CallHistory'
  BY <1>1, <1>3 DEF CallHistory, NoNewTransit
<1>6. PendingEntries' /\ GateExclusive'
  BY DEF PendingEntries, GateExclusive
<1>7. CallsFollowTask'
  BY <1>1 DEF CallsFollowTask, ActiveCall
<1>8. WaitingIsPending'
  BY DEF WaitingIsPending
<1>9. NoCrossTalk' /\ RefusedAfterCancel'
  BY <1>1 DEF NoCrossTalk, RefusedAfterCancel, Attended, CallsOf
<1>10. NoPendingLeak'
  BY <1>2 DEF NoPendingLeak
<1>11. OneInFlight'
  BY <1>1 DEF OneInFlight, NoNewTransit, Attended
<1>12. ClosedMeansOver'
  BY DEF ClosedMeansOver
<1> QED BY <1>4, <1>5, <1>6, <1>7, <1>8, <1>9, <1>10, <1>11, <1>12

(***************************************************************************)
(* The outer task drops the pending entry of its transaction: what is in   *)
(* transit is nobody's any more.                                           *)
(***************************************************************************)
LEMMA FinishControl ==
    ASSUME TypeOK, ControlInv, NoNewTransit, NEW k \in TxKeys, TaskFinishes(k)
    PROVE  ControlInv'
<1>1. /\ task[k] = "returned" /\ task' = [task EXCEPT ![k] = "sending"]
      /\ pending' = [pending EXCEPT ![k] = NoCall]
      /\ UNCHANGED <<call, reply, stream>>
  BY DEF TaskFinishes, drop_pending, callVars
<1>2. task'[k] = "sending" /\ \A j \in TxKeys : j # k => task'[j] = task[j]
  BY <1>1 DEF TypeOK
<1>3. pending'[k] = NoCall /\ \A j \in TxKeys : j # k => pending'[j] = pending[j]
  BY <1>1 DEF TypeOK
<1> USE KeyOfCall, NoneAssumption DEF ControlInv
<1>4. ~Live(k)' /\ \A j \in TxKeys : j # k => (Live(j)' <=> Live(j))
  BY <1>2 DEF Live
<1>5. TransitIsPending'
  BY <1>3, <1>4 DEF TransitIsPending, NoNewTransit
<1>6. CallHistory'
  BY <1>1, <1>3, <1>4 DEF CallHistory, NoNewTransit
<1>7. PendingEntries' /\ GateExclusive'
  BY <1>1, <1>3 DEF PendingEntries, GateExclusive
<1>8. CallsFollowTask'
  BY <1>1, <1>2 DEF CallsFollowTask
<1>9. WaitingIsPending'
  BY <1>1, <1>2, <1>3 DEF WaitingIsPending
<1>10. NoCrossTalk' /\ RefusedAfterCancel'
  BY <1>1, <1>2 DEF NoCrossTalk, RefusedAfterCancel, Attended, CallsOf
<1>11. NoPendingLeak'
  BY <1>2, <1>3 DEF NoPendingLeak
<1>12. OneInFlight'
  BY <1>1, <1>2 DEF OneInFlight, NoNewTransit, Attended
<1>13. ClosedMeansOver'
  BY <1>1, <1>2 DEF ClosedMeansOver
<1> QED BY <1>5, <1>6, <1>7, <1>8, <1>9, <1>10, <1>11, <1>12, <1>13

LEMMA TaskControl ==
    ASSUME TypeOK, ControlInv, NoNewTransit, NEW k \in TxKeys, Task(k)
    PROVE  ControlInv'
<1>1. CASE TaskFinishes(k)
  BY <1>1, FinishControl
<1>2. CASE TaskRejects(k) \/ TaskDescribes(k) \/ TaskRuns(k) \/ TaskSends(k)
  <2>1. UNCHANGED <<pending, call, reply, stream>>
    BY <1>2 DEF TaskRejects, TaskDescribes, TaskRuns, TaskSends, callVars
  <2>2. /\ \A j \in TxKeys : j # k => task'[j] = task[j]
        /\ \/ task[k] = "spawned" /\ task'[k] \in {"answering", "running"}
           \/ task[k] = "answering" /\ task'[k] = "answered"
           \/ task[k] = "sending" /\ task'[k] = "done"
    BY <1>2 DEF TaskRejects, TaskDescribes, TaskRuns, TaskSends, TypeOK
  <2> QED BY <2>1, <2>2, TaskMoves
<1> QED BY <1>1, <1>2 DEF Task

(***************************************************************************)
(* The chaincode returns or panics: the calls it drops are cancelled and   *)
(* keep their pending entries; the ones it leaves running are detached.    *)
(***************************************************************************)
LEMMA HandlerControl ==
    ASSUME TypeOK, ControlInv, NoNewTransit, NEW k \in TxKeys,
           NEW kept \in SUBSET ActiveCalls(k), HandlerEnds(k, kept)
    PROVE  ControlInv'
<1>1. /\ task' = [task EXCEPT ![k] = "returned"]
      /\ call' = [c \in Calls |-> IF c \in ActiveCalls(k) \ kept THEN "cancelled"
                                                                ELSE call[c]]
      /\ UNCHANGED <<pending, reply, stream>>
  BY DEF HandlerEnds
<1>2. task[k] = "running" /\ (~Detached => kept = {})
  BY DEF HandlerEnds
<1>3. task'[k] = "returned" /\ \A j \in TxKeys : j # k => task'[j] = task[j]
  BY <1>1 DEF TypeOK
<1>4. \A c \in Calls :
         \/ call'[c] = call[c]
         \/ call'[c] = "cancelled" /\ call[c] \in ActiveCall /\ KeyOf(c) = k
  BY <1>1 DEF ActiveCalls, CallsOf
<1>5. \A c \in Calls : ~Detached /\ KeyOf(c) = k => call'[c] \notin ActiveCall
  BY <1>1, <1>2 DEF ActiveCalls, CallsOf, ActiveCall
<1> USE KeyOfCall, NoneAssumption DEF ControlInv
<1>6. \A j \in TxKeys : Live(j)' => Live(j)
  BY <1>2, <1>3 DEF Live
<1>7. TransitIsPending'
  BY <1>1, <1>6 DEF TransitIsPending, NoNewTransit
<1>8. CallHistory'
  BY <1>1, <1>4, <1>6 DEF CallHistory, NoNewTransit
<1>9. PendingEntries'
  BY <1>1, <1>4 DEF PendingEntries, ActiveCall, TypeOK
<1>10. GateExclusive'
  BY <1>4 DEF GateExclusive
<1>11. CallsFollowTask'
  BY <1>3, <1>4, <1>5 DEF CallsFollowTask, ActiveCall
<1>12. WaitingIsPending'
  BY <1>1, <1>2, <1>3, <1>4 DEF WaitingIsPending
<1>13. NoCrossTalk'
  BY <1>1, <1>2, <1>3 DEF NoCrossTalk, Attended
<1>14. RefusedAfterCancel'
  BY <1>4 DEF RefusedAfterCancel, CallsOf, ActiveCall
<1>15. NoPendingLeak'
  BY <1>1, <1>3 DEF NoPendingLeak
<1>16. OneInFlight'
  BY <1>2, <1>3 DEF OneInFlight, NoNewTransit, Attended
<1>17. ClosedMeansOver'
  BY <1>1, <1>2, <1>3, <1>4 DEF ClosedMeansOver
<1> QED BY <1>7, <1>8, <1>9, <1>10, <1>11, <1>12, <1>13, <1>14, <1>15, <1>16, <1>17


(***************************************************************************)
(* A call starts, or ends in a way that leaves the pending map alone.      *)
(***************************************************************************)
LEMMA CallMoves ==
    ASSUME TypeOK, ControlInv, NoNewTransit, stream' = stream,
           UNCHANGED <<pending, reply, task>>, NEW c \in Calls,
           \A d \in Calls : d # c => call'[d] = call[d],
           \/ call[c] = "idle" /\ call'[c] = "gate" /\ MayCall(KeyOf(c))
           \/ call[c] \in ActiveCall /\ call'[c] \in EndedCall,
           pending[KeyOf(c)] = c => call'[c] = "cancelled",
           call'[c] = "closed" => task[KeyOf(c)] \in {"sending", "done"},
           call'[c] = "protocol_error" =>
              \E d \in Calls : KeyOf(d) = KeyOf(c) /\ call[d] = "cancelled"
    PROVE  ControlInv'
<1> USE KeyOfCall, NoneAssumption DEF ControlInv
<1>1. \A k \in TxKeys : Live(k)' <=> Live(k)
  BY DEF Live
<1>2. \A d \in Calls : call'[d] \in {"send", "wait"} => call'[d] = call[d]
  BY DEF EndedCall
<1>3. TransitIsPending'
  BY <1>1 DEF TransitIsPending, NoNewTransit
<1>4. CallHistory'
  BY <1>1 DEF CallHistory, NoNewTransit, EndedCall
<1>5. PendingEntries'
  BY DEF PendingEntries, TypeOK
<1>6. GateExclusive' /\ WaitingIsPending'
  BY <1>2 DEF GateExclusive, WaitingIsPending
<1>7. CallsFollowTask'
  BY DEF CallsFollowTask, MayCall, ActiveCall, EndedCall
<1>8. NoCrossTalk' /\ NoPendingLeak'
  BY DEF NoCrossTalk, NoPendingLeak, Attended
<1>9. RefusedAfterCancel'
  <2> SUFFICES ASSUME NEW b \in Calls, call'[b] = "protocol_error"
               PROVE  \E d \in Calls : KeyOf(d) = KeyOf(b) /\ call'[d] = "cancelled"
    BY DEF RefusedAfterCancel, CallsOf
  <2>1. PICK d \in Calls : KeyOf(d) = KeyOf(b) /\ call[d] = "cancelled"
    BY DEF RefusedAfterCancel, CallsOf
  <2>2. call'[d] = "cancelled"
    BY <2>1 DEF ActiveCall
  <2> QED BY <2>1, <2>2
<1>10. OneInFlight'
  BY DEF OneInFlight, NoNewTransit, Attended
<1>11. ClosedMeansOver'
  BY DEF ClosedMeansOver
<1> QED BY <1>3, <1>4, <1>5, <1>6, <1>7, <1>8, <1>9, <1>10, <1>11

(***************************************************************************)
(* A call with the gate registers: no call of its transaction is between   *)
(* registration and end, and no entry of it is pending, so nothing of it   *)
(* is in transit.                                                          *)
(***************************************************************************)
LEMMA RegisterControl ==
    ASSUME TypeOK, ControlInv, NoNewTransit, NEW c \in Calls, CallRegisters(c)
    PROVE  ControlInv'
<1> DEFINE k == KeyOf(c)
<1>1. /\ call[c] = "gate" /\ GateFree(k) /\ pending[k] = NoCall
      /\ pending' = [pending EXCEPT ![k] = c]
      /\ call' = [call EXCEPT ![c] = "send"]
      /\ UNCHANGED <<reply, task, stream>>
  BY DEF CallRegisters, InFlight, taskVars
<1>2. k \in TxKeys
  BY KeyOfCall
<1>3. pending'[k] = c /\ \A j \in TxKeys : j # k => pending'[j] = pending[j]
  BY <1>1, <1>2 DEF TypeOK
<1>4. call'[c] = "send" /\ \A d \in Calls : d # c => call'[d] = call[d]
  BY <1>1 DEF TypeOK
<1> USE KeyOfCall, NoneAssumption DEF ControlInv
<1>5. \A j \in TxKeys : Live(j)' <=> Live(j)
  BY <1>1 DEF Live
<1>6. Live(k) => \A d \in Calls : KeyOf(d) = k => ~InTransit(d)
  BY <1>1 DEF TransitIsPending
<1>7. TransitIsPending'
  BY <1>3, <1>5, <1>6 DEF TransitIsPending, NoNewTransit
<1>8. CallHistory'
  <2> SUFFICES ASSUME NEW d \in Calls
               PROVE  /\ call'[d] \in {"idle", "gate", "send"} => ~InTransit(d)'
                      /\ call'[d] \in {"idle", "gate"} => reply'[d] = NoMsg
                      /\ call'[d] = "send" /\ Live(KeyOf(d))' => pending'[KeyOf(d)] = d
                      /\ reply'[d] # NoMsg => pending'[KeyOf(d)] # d
    BY DEF CallHistory
  <2>1. call'[d] \in {"idle", "gate", "send"} => ~InTransit(d)'
    BY <1>1, <1>4 DEF CallHistory, NoNewTransit
  <2>2. call'[d] \in {"idle", "gate"} => reply'[d] = NoMsg
    BY <1>1, <1>4 DEF CallHistory
  <2>3. call'[d] = "send" /\ Live(KeyOf(d))' => pending'[KeyOf(d)] = d
    BY <1>1, <1>3, <1>4, <1>5 DEF CallHistory, GateFree, CallsOf
  <2>4. reply'[d] # NoMsg => pending'[KeyOf(d)] # d
    BY <1>1, <1>3, <1>4 DEF CallHistory
  <2> QED BY <2>1, <2>2, <2>3, <2>4
<1>9. PendingEntries'
  BY <1>1, <1>3, <1>4 DEF PendingEntries, TypeOK
<1>10. GateExclusive'
  BY <1>1, <1>4 DEF GateExclusive, GateFree, CallsOf
<1>11. WaitingIsPending'
  BY <1>1, <1>3, <1>4 DEF WaitingIsPending, GateFree, CallsOf
<1>12. CallsFollowTask'
  BY <1>1, <1>4 DEF CallsFollowTask, ActiveCall
<1>13. NoCrossTalk'
  BY <1>1 DEF NoCrossTalk, Attended
<1>14. NoPendingLeak'
  BY <1>1, <1>3 DEF NoPendingLeak, CallsFollowTask, ActiveCall
<1>15. RefusedAfterCancel'
  BY <1>1, <1>4 DEF RefusedAfterCancel, CallsOf
<1>16. OneInFlight'
  BY <1>1 DEF OneInFlight, NoNewTransit, Attended
<1>17. ClosedMeansOver'
  BY <1>1, <1>4 DEF ClosedMeansOver
<1> QED BY <1>7, <1>8, <1>9, <1>10, <1>11, <1>12, <1>13, <1>14, <1>15, <1>16, <1>17


(***************************************************************************)
(* A registered call sends its request, and is then the one in transit; or *)
(* the channel is gone and it takes its entry back.                        *)
(***************************************************************************)
LEMMA SendControl ==
    ASSUME TypeOK, ControlInv, NEW c \in Calls, CallSends(c),
           \A d \in Calls : InTransit(d)' => InTransit(d) \/ d = c,
           ~OutAlive => NoNewTransit
    PROVE  ControlInv'
<1> DEFINE k == KeyOf(c)
<1>1. /\ call[c] = "send"
      /\ call' = [call EXCEPT ![c] = IF OutAlive THEN "wait" ELSE "closed"]
      /\ pending' = IF OutAlive THEN pending ELSE [pending EXCEPT ![k] = NoCall]
      /\ UNCHANGED <<reply, task, stream>>
  BY DEF CallSends, drop_pending, taskVars
<1>2. k \in TxKeys
  BY KeyOfCall
<1>3. \A d \in Calls : d # c => call'[d] = call[d]
  BY <1>1 DEF TypeOK
<1> USE KeyOfCall, NoneAssumption DEF ControlInv
<1>4. \A j \in TxKeys : Live(j)' <=> Live(j)
  BY <1>1 DEF Live
<1>5. Live(k) => pending[k] = c
  BY <1>1 DEF CallHistory
<1>6. \A d \in Calls : KeyOf(d) = k /\ d # c => call[d] \notin {"send", "wait"}
  BY <1>1 DEF GateExclusive
<1>7. ~InTransit(c)
  BY <1>1 DEF CallHistory
<1>8. CASE OutAlive
  <2>1. pending' = pending /\ call'[c] = "wait"
    BY <1>1, <1>8 DEF TypeOK
  <2>2. TransitIsPending'
    BY <1>4, <1>5, <2>1 DEF TransitIsPending
  <2>3. CallHistory'
    BY <1>1, <1>3, <1>4, <2>1 DEF CallHistory
  <2>4. PendingEntries'
    BY <1>3, <2>1 DEF PendingEntries, TypeOK
  <2>5. CallsFollowTask'
    BY <1>1, <1>3, <2>1 DEF CallsFollowTask, ActiveCall
  <2>6. GateExclusive' /\ WaitingIsPending'
    BY <1>1, <1>3, <1>6, <2>1 DEF GateExclusive, WaitingIsPending
  <2>7. NoCrossTalk' /\ NoPendingLeak'
    BY <1>1, <2>1 DEF NoCrossTalk, NoPendingLeak, Attended
  <2>8. RefusedAfterCancel' /\ ClosedMeansOver'
    BY <1>1, <1>3, <2>1 DEF RefusedAfterCancel, ClosedMeansOver, CallsOf
  <2>9. OneInFlight'
    <3> SUFFICES ASSUME NEW a \in Calls, NEW b \in Calls, KeyOf(a) = KeyOf(b),
                        Attended(KeyOf(a)), InTransit(a)', InTransit(b)'
                 PROVE  a = b
      BY <1>1 DEF OneInFlight, Attended
    <3>1. CASE KeyOf(a) = k
      <4>1. task[k] = "running"
        BY <1>1, <3>1 DEF Attended, CallsFollowTask, ActiveCall
      <4>2. Live(k)'
        BY <1>1, <4>1 DEF Live
      <4> QED BY <2>2, <3>1, <4>2 DEF TransitIsPending
    <3>2. CASE KeyOf(a) # k
      BY <3>2 DEF OneInFlight
    <3> QED BY <3>1, <3>2
  <2> QED BY <2>2, <2>3, <2>4, <2>5, <2>6, <2>7, <2>8, <2>9
<1>9. CASE ~OutAlive
  <2>1. NoNewTransit /\ stream = "broken"
    BY <1>9 DEF OutAlive
  <2>2. call'[c] = "closed"
    BY <1>1, <1>9 DEF TypeOK
  <2>3. pending'[k] = NoCall /\ \A j \in TxKeys : j # k => pending'[j] = pending[j]
    BY <1>1, <1>2, <1>9 DEF TypeOK
  <2>4. TransitIsPending'
    BY <1>4, <1>5, <1>7, <2>1, <2>3 DEF TransitIsPending, NoNewTransit
  <2>5. CallHistory'
    BY <1>1, <1>3, <1>4, <1>6, <2>1, <2>2, <2>3 DEF CallHistory, NoNewTransit
  <2>6. PendingEntries'
    BY <1>3, <2>3, <1>1 DEF PendingEntries, TypeOK
  <2>7. CallsFollowTask'
    BY <1>1, <1>3, <2>2 DEF CallsFollowTask, ActiveCall
  <2>8. GateExclusive' /\ WaitingIsPending'
    BY <1>1, <1>3, <1>6, <2>2, <2>3 DEF GateExclusive, WaitingIsPending
  <2>9. NoCrossTalk' /\ NoPendingLeak'
    BY <1>1, <2>3 DEF NoCrossTalk, NoPendingLeak, Attended
  <2>10. RefusedAfterCancel' /\ ClosedMeansOver'
    BY <1>1, <1>3, <2>1, <2>2 DEF RefusedAfterCancel, ClosedMeansOver, CallsOf
  <2>11. OneInFlight'
    BY <1>1, <2>1 DEF OneInFlight, NoNewTransit, Attended
  <2> QED BY <2>4, <2>5, <2>6, <2>7, <2>8, <2>9, <2>10, <2>11
<1> QED BY <1>8, <1>9

(***************************************************************************)
(* The other steps of a call.  A refused call has found the entry of a     *)
(* cancelled one; a call whose sender is gone has lost its transaction.    *)
(***************************************************************************)
LEMMA RequestControl ==
    ASSUME TypeOK, ControlInv, NoNewTransit, NEW c \in Calls, Request(c), ~CallSends(c)
    PROVE  ControlInv'
<1>1. CASE CallRegisters(c)
  BY <1>1, RegisterControl
<1> USE KeyOfCall, NoneAssumption DEF ControlInv, callVars, taskVars
<1>2. CASE CallRefused(c)
  <2>1. /\ call[c] = "gate" /\ GateFree(KeyOf(c)) /\ pending[KeyOf(c)] # NoCall
        /\ call' = [call EXCEPT ![c] = "protocol_error"]
        /\ UNCHANGED <<pending, reply, task, stream>>
    BY <1>2 DEF CallRefused, InFlight
  <2>2. call'[c] = "protocol_error" /\ \A d \in Calls : d # c => call'[d] = call[d]
    BY <2>1 DEF TypeOK
  <2>3. \E d \in Calls : KeyOf(d) = KeyOf(c) /\ call[d] = "cancelled"
    BY <2>1 DEF PendingEntries, GateFree, CallsOf, TypeOK
  <2>4. pending[KeyOf(c)] # c
    BY <2>1 DEF PendingEntries
  <2> QED BY <2>1, <2>2, <2>3, <2>4, CallMoves DEF ActiveCall, EndedCall
<1>3. CASE CallReturns(c)
  <2>1. /\ call[c] = "wait" /\ reply[c] # NoMsg
        /\ UNCHANGED <<pending, reply, task, stream>>
    BY <1>3 DEF CallReturns
  <2>2. call'[c] \in {"ok", "peer_error"} /\ \A d \in Calls : d # c => call'[d] = call[d]
    BY <1>3 DEF CallReturns, TypeOK
  <2>3. pending[KeyOf(c)] # c
    BY <2>1 DEF CallHistory
  <2> QED BY <2>1, <2>2, <2>3, CallMoves DEF ActiveCall, EndedCall
<1>4. CASE CallClosed(c)
  <2>1. /\ call[c] = "wait" /\ reply[c] = NoMsg /\ pending[KeyOf(c)] # c
        /\ call' = [call EXCEPT ![c] = "closed"]
        /\ UNCHANGED <<pending, reply, task, stream>>
    BY <1>4 DEF CallClosed, SenderGone
  <2>2. call'[c] = "closed" /\ \A d \in Calls : d # c => call'[d] = call[d]
    BY <2>1 DEF TypeOK
  <2>3. task[KeyOf(c)] \in {"sending", "done"}
    BY <2>1 DEF WaitingIsPending
  <2> QED BY <2>1, <2>2, <2>3, CallMoves DEF ActiveCall, EndedCall
<1> QED BY <1>1, <1>2, <1>3, <1>4 DEF Request

LEMMA ChaincodeControl ==
    ASSUME TypeOK, ControlInv, NoNewTransit, Chaincode PROVE ControlInv'
<1> USE DEF callVars, taskVars
<1>1. ASSUME NEW k \in TxKeys, NEW e \in Events, SetEvent(k, e) PROVE ControlInv'
  <2>1. UNCHANGED <<pending, call, reply, task, stream>>
    BY <1>1 DEF SetEvent
  <2> QED BY <2>1, QuietStep DEF StaysBroken
<1>2. ASSUME NEW k \in TxKeys, NEW kept \in SUBSET ActiveCalls(k), HandlerEnds(k, kept)
      PROVE  ControlInv'
  BY <1>2, HandlerControl
<1>3. ASSUME NEW c \in Calls, CallStarts(c) PROVE ControlInv'
  <2>1. /\ call[c] = "idle" /\ MayCall(KeyOf(c)) /\ call' = [call EXCEPT ![c] = "gate"]
        /\ UNCHANGED <<pending, reply, task, stream>>
    BY <1>3 DEF CallStarts
  <2>2. call'[c] = "gate" /\ \A d \in Calls : d # c => call'[d] = call[d]
    BY <2>1 DEF TypeOK
  <2>3. pending[KeyOf(c)] # c
    BY <2>1, KeyOfCall, NoneAssumption DEF ControlInv, PendingEntries
  <2> QED BY <2>1, <2>2, <2>3, CallMoves
<1>4. ASSUME NEW c \in Calls, CallCancelled(c) PROVE ControlInv'
  <2>1. /\ call[c] \in ActiveCall /\ call' = [call EXCEPT ![c] = "cancelled"]
        /\ UNCHANGED <<pending, reply, task, stream>>
    BY <1>4 DEF CallCancelled
  <2>2. call'[c] = "cancelled" /\ \A d \in Calls : d # c => call'[d] = call[d]
    BY <2>1 DEF TypeOK
  <2> QED BY <2>1, <2>2, CallMoves DEF EndedCall
<1> QED BY <1>1, <1>2, <1>3, <1>4 DEF Chaincode

LEMMA LoopControl ==
    ASSUME TypeOK, WellFormed, DispatchedOnce, OneCopy, ControlInv, NoNewTransit, Loop
    PROVE  ControlInv'
<1>1. CASE ReceiveTransaction
  BY <1>1, TransactionControl
<1>2. CASE ReceiveReply
  BY <1>2, ReplyControl
<1>3. CASE \/ Register \/ ReceiveRegistered \/ ReceiveReady \/ ReceiveKeepalive
           \/ ReceiveInvalid \/ EchoKeepalive \/ RejectAndReturn \/ StreamEnded
  <2>1. UNCHANGED <<pending, call, reply, task, stream>>
    BY <1>3 DEF Register, ReceiveRegistered, ReceiveReady, ReceiveKeepalive, ReceiveInvalid,
                EchoKeepalive, RejectAndReturn, StreamEnded, LoopReturns, Reading,
                callVars, taskVars
  <2> QED BY <2>1, QuietStep DEF StaysBroken
<1> QED BY <1>1, <1>2, <1>3 DEF Loop

LEMMA PeerControl == ASSUME ControlInv, NoNewTransit, Peer PROVE ControlInv'
<1> USE DEF callVars, taskVars
<1>1. UNCHANGED <<pending, call, reply, task>>
  BY DEF Peer, PeerReading, PeerReadsRegister, PeerReadsRequest, PeerReadsEcho,
         PeerReadsVerdict, PeerReads, PeerSends, PeerShakesHands, PeerStarts, PeerAnswers,
         PeerPings, PeerStrays, PeerCloses, StreamBreaks
<1>2. StaysBroken
  BY DEF StaysBroken, Peer, PeerReading, PeerReadsRegister, PeerReadsRequest, PeerReadsEcho,
         PeerReadsVerdict, PeerReads, PeerSends, PeerShakesHands, PeerStarts, PeerAnswers,
         PeerPings, PeerStrays, PeerCloses, StreamBreaks
<1> QED BY <1>1, <1>2, QuietStep

-----------------------------------------------------------------------------
(* The theorems *)

LEMMA InvInit == Init => Inv
<1> SUFFICES ASSUME Init PROVE Inv
  OBVIOUS
<1>1. TypeOK /\ WellFormed
  BY TypeInit
<1>2. inbound = <<>> /\ out = <<>> /\ atPeer = {} /\ started = {}
  BY DEF Init
<1>3. /\ \A k \in TxKeys : task[k] = "none" /\ pending[k] = NoCall
      /\ \A c \in Calls : call[c] = "idle" /\ reply[c] = NoMsg
  BY DEF Init
<1>4. DispatchedOnce
  BY <1>2, <1>3, EmptyElements DEF DispatchedOnce
<1>5. OneCopy
  BY <1>2, CarryEmpty DEF OneCopy
<1>6. \A c \in Calls : ~InTransit(c)
  BY <1>2, CarryEmpty, TransitCarries
<1> USE KeyOfCall
<1>7. TransitIsPending /\ CallHistory
  BY <1>3, <1>6, NoneAssumption DEF TransitIsPending, CallHistory
<1>8. PendingEntries /\ CallsFollowTask /\ GateExclusive /\ WaitingIsPending
  BY <1>3 DEF PendingEntries, CallsFollowTask, GateExclusive, WaitingIsPending, ActiveCall
<1>9. NoCrossTalk /\ OneInFlight /\ NoPendingLeak /\ ClosedMeansOver /\ RefusedAfterCancel
  BY <1>3, <1>6 DEF NoCrossTalk, OneInFlight, NoPendingLeak, ClosedMeansOver,
                    RefusedAfterCancel
<1> QED BY <1>1, <1>4, <1>5, <1>7, <1>8, <1>9 DEF Inv, ControlInv

LEMMA InvStutter == ASSUME Inv, UNCHANGED vars PROVE Inv'
<1>1. TypeOK' /\ WellFormed'
  BY TypeStep DEF Inv
<1>2. UNCHANGED <<out, inbound, atPeer, task, started, pending, call, reply, stream>>
  BY DEF vars, taskVars, callVars, peerVars
<1>3. OneCopy' /\ NoNewTransit
  BY <1>2, WireUnchanged DEF Inv
<1>4. DispatchedOnce'
  BY <1>2, DispatchUnchanged DEF Inv
<1>5. ControlInv'
  BY <1>2, <1>3, QuietStep DEF Inv, StaysBroken
<1> QED BY <1>1, <1>3, <1>4, <1>5 DEF Inv

LEMMA InvStep == Inv /\ [Next]_vars => Inv'
<1> SUFFICES ASSUME Inv, [Next]_vars PROVE Inv'
  OBVIOUS
<1>1. TypeOK /\ WellFormed /\ DispatchedOnce /\ OneCopy /\ ControlInv
  BY DEF Inv
<1>2. TypeOK' /\ WellFormed'
  BY <1>1, TypeStep
<1>3. CASE Loop
  BY <1>1, <1>2, <1>3, LoopDispatch, LoopWire, LoopControl DEF Inv
<1>4. ASSUME NEW k \in TxKeys, Task(k) PROVE Inv'
  BY <1>1, <1>2, <1>4, TaskDispatch, TaskWire, TaskControl DEF Inv
<1>5. ASSUME NEW c \in Calls, Request(c) PROVE Inv'
  <2>1. CASE CallSends(c)
    <3>1. ~InTransit(c)
      BY <1>1, <2>1 DEF CallSends, ControlInv, CallHistory
    <3>2. /\ OneCopy'
          /\ \A d \in Calls : InTransit(d)' => InTransit(d) \/ d = c
          /\ ~OutAlive => NoNewTransit
      BY <1>1, <2>1, <3>1, SendWire
    <3>3. ControlInv'
      BY <1>1, <2>1, <3>2, SendControl
    <3> QED BY <1>1, <1>2, <1>5, <3>2, <3>3, RequestDispatch DEF Inv
  <2>2. CASE ~CallSends(c)
    BY <1>1, <1>2, <1>5, <2>2, RequestDispatch, RequestWire, RequestControl DEF Inv
  <2> QED BY <2>1, <2>2
<1>6. CASE Chaincode
  BY <1>1, <1>2, <1>6, ChaincodeDispatch, ChaincodeWire, ChaincodeControl DEF Inv
<1>7. CASE Peer
  BY <1>1, <1>2, <1>7, PeerDispatch, PeerWire, PeerControl DEF Inv
<1>8. CASE UNCHANGED vars
  BY <1>8, InvStutter
<1> QED BY <1>3, <1>4, <1>5, <1>6, <1>7, <1>8 DEF Next, Shim

(***************************************************************************)
(* Inv holds in every reachable state, for any number of channels,         *)
(* transactions and calls and any capacity of the outbound channel.        *)
(***************************************************************************)
THEOREM Invariance == Spec => []Inv
BY InvInit, InvStep, PTL DEF Spec

(***************************************************************************)
(* route_response hands no call the reply to another call.                 *)
(***************************************************************************)
THEOREM NeverCrossTalk == Spec => []NoCrossTalk
<1>1. Inv => NoCrossTalk
  BY DEF Inv, ControlInv
<1> QED BY <1>1, Invariance, PTL

(***************************************************************************)
(* Between shim and peer there is one request per transaction at most.     *)
(***************************************************************************)
THEOREM AlwaysOneInFlight == Spec => []OneInFlight
<1>1. Inv => OneInFlight
  BY DEF Inv, ControlInv
<1> QED BY <1>1, Invariance, PTL

(***************************************************************************)
(* spawn_transaction leaves no entry in the pending map.                   *)
(***************************************************************************)
THEOREM NeverPendingLeak == Spec => []NoPendingLeak
<1>1. Inv => NoPendingLeak
  BY DEF Inv, ControlInv
<1> QED BY <1>1, Invariance, PTL

(***************************************************************************)
(* PeerLink::request fails with ConnectionClosed only after the connection *)
(* or the transaction of the call is over.                                 *)
(***************************************************************************)
THEOREM AlwaysClosedMeansOver == Spec => []ClosedMeansOver
<1>1. Inv => ClosedMeansOver
  BY DEF Inv, ControlInv
<1> QED BY <1>1, Invariance, PTL

(***************************************************************************)
(* PeerLink::request refuses a call only after a call of the same          *)
(* transaction was cancelled.                                              *)
(***************************************************************************)
THEOREM AlwaysRefusedAfterCancel == Spec => []RefusedAfterCancel
<1>1. Inv => RefusedAfterCancel
  BY DEF Inv, ControlInv
<1> QED BY <1>1, Invariance, PTL

=============================================================================
