-------------------------- MODULE ShimSessionProofs -------------------------
(***************************************************************************)
(* More theorems about ShimConnection: the handshake comes first, the      *)
(* answer of a transaction is its last message, the connection implements  *)
(* TxSession, no wake-up, transaction or keepalive is lost, and every      *)
(* verdict is accounted for.  They rest on Inv of ShimConnectionProofs.    *)
(***************************************************************************)
EXTENDS ShimConnectionProofs, FiniteSetTheorems

-----------------------------------------------------------------------------
(* The inductive invariant *)

(***************************************************************************)
(* Tasks are spawned after READY, which the peer sends at the end of its   *)
(* handshake or out of turn.  It reads REGISTER once, so that it does not  *)
(* begin the handshake again.                                              *)
(***************************************************************************)
PeerIsReady == peer = "ready" \/ strays > 0

TasksWhenReady == \A k \in TxKeys : task[k] # "none" => connState = "Ready"

ReadyFromPeer ==
    /\ connState = "Ready" => PeerIsReady
    /\ \A i \in 1 .. Len(inbound) : inbound[i].type = "READY" => PeerIsReady

RegisterOnce ==
    /\ peer # "new" => loop # "register"
    /\ \A i \in 1 .. Len(out) : out[i].type = "REGISTER" =>
          /\ loop # "register" /\ peer = "new"
          /\ \A j \in 1 .. Len(out) : out[j].type = "REGISTER" => i = j

Handshake == TasksWhenReady /\ ReadyFromPeer /\ RegisterOnce

(***************************************************************************)
(* Which transaction the messages to be sent are about.                    *)
(***************************************************************************)
Keys ==
    /\ \A i \in 1 .. Len(inbound) : inbound[i].type = "KEEPALIVE" => inbound[i].key = NoKey
    /\ held.type # "REGISTER"
    /\ loop = "echo" => held.key = NoKey
    /\ loop = "reject" => held.type = "ERROR"
    /\ held.type = "ERROR" => loop \in {"reject", "ended"}
    /\ \A k \in TxKeys : final[k].type # "REGISTER"
    /\ \A k \in TxKeys : task[k] \in {"answering", "sending"} => final[k].key = k

(***************************************************************************)
(* With s on the way to the peer and v the verdicts it has read about k:   *)
(* there is one verdict, in s or in v, and nothing about k comes after it. *)
(***************************************************************************)
IsVerdict(m, k) == m.key = k /\ m.type # "REQUEST"

Spoken(s, v, k) == v # <<>> \/ \E i \in 1 .. Len(s) : IsVerdict(s[i], k)

OneVerdict(s, v, k) ==
    /\ Len(v) <= 1
    /\ \A i \in 1 .. Len(s) : IsVerdict(s[i], k) =>
          v = <<>> /\ \A j \in 1 .. Len(s) : IsVerdict(s[j], k) => i = j

NothingAfter(s, v, k) ==
    \A i \in 1 .. Len(s) :
        /\ s[i].key = k => v = <<>>
        /\ IsVerdict(s[i], k) => \A j \in 1 .. Len(s) : s[j].key = k => j <= i

(***************************************************************************)
(* A transaction that has been spoken of has answered, or the loop has     *)
(* rejected a message that names it, and ended.  Both happen only to a     *)
(* transaction that is interrupted.                                        *)
(***************************************************************************)
Settled(k) == task[k] \in {"answered", "done"} \/ (loop = "ended" /\ Rejected(k))

Verdicts ==
    \A k \in TxKeys : ~Interrupted(k) =>
        /\ OneVerdict(out, verdicts[k], k)
        /\ ~Detached => NothingAfter(out, verdicts[k], k)
        /\ Spoken(out, verdicts[k], k) => Settled(k)

SInv == Handshake /\ Keys /\ Verdicts

(***************************************************************************)
(* A step takes neither back.                                              *)
(***************************************************************************)
Lasting ==
    \A k \in TxKeys : (Settled(k) => Settled(k)') /\ (Interrupted(k) => Interrupted(k)')

-----------------------------------------------------------------------------
(* Sequences *)

(***************************************************************************)
(* t is s, or s without its first element, or a prefix of s; t is s with m *)
(* at its end, or s.                                                       *)
(***************************************************************************)
Shrinks(s, t) ==
    \E d \in {0, 1} : \A i \in 1 .. Len(t) : i + d \in 1 .. Len(s) /\ t[i] = s[i + d]

Grows(s, t, m) ==
    \A i \in 1 .. Len(t) : \/ i \in 1 .. Len(s) /\ t[i] = s[i]
                           \/ i = Len(s) + 1 /\ t[i] = m

LEMMA ShrinksSame ==
    ASSUME NEW s \in Seq(Message)
    PROVE  Shrinks(s, s)
<1>1. Len(s) \in Nat
  OBVIOUS
<1>2. \A i \in 1 .. Len(s) : i + 0 = i
  BY <1>1
<1> QED
  BY <1>2 DEF Shrinks

LEMMA ShrinksTail ==
    ASSUME NEW s \in Seq(Message), s # <<>>
    PROVE  Shrinks(s, Tail(s))
  BY TailElements DEF Shrinks

LEMMA ShrinksPrefix ==
    ASSUME NEW s \in Seq(Message), NEW n \in 0 .. Len(s)
    PROVE  Shrinks(s, SubSeq(s, 1, n))
<1>1. /\ Len(SubSeq(s, 1, n)) = n
      /\ \A i \in 1 .. n : i \in 1 .. Len(s) /\ SubSeq(s, 1, n)[i] = s[i]
  BY PrefixElements
<1>2. n \in Nat
  OBVIOUS
<1>3. \A i \in 1 .. n : i + 0 = i
  BY <1>2
<1> QED
  BY <1>1, <1>3 DEF Shrinks

LEMMA ShrinksEmpty ==
    ASSUME NEW s
    PROVE  Shrinks(s, <<>>)
<1>1. \A i \in 1 .. Len(<<>>) : FALSE
  OBVIOUS
<1> QED
  BY <1>1 DEF Shrinks

LEMMA GrowsSame ==
    ASSUME NEW s, NEW m
    PROVE  Grows(s, s, m)
  BY DEF Grows

LEMMA GrowsAppend ==
    ASSUME NEW s \in Seq(Message), NEW m \in Message
    PROVE  Grows(s, Append(s, m), m)
<1>1. /\ Len(Append(s, m)) = Len(s) + 1 /\ Len(s) \in Nat
      /\ \A i \in 1 .. Len(Append(s, m)) : Append(s, m)[i] = IF i <= Len(s) THEN s[i] ELSE m
  BY AppendElements
<1>2. \A i \in 1 .. Len(s) + 1 : (i <= Len(s) /\ i \in 1 .. Len(s)) \/ (~(i <= Len(s)) /\ i = Len(s) + 1)
  BY <1>1
<1> QED
  BY <1>1, <1>2 DEF Grows

(***************************************************************************)
(* The verdicts about k when messages are read or lost, or when a message  *)
(* about another transaction is sent.                                      *)
(***************************************************************************)
LEMMA VerdictsShrink ==
    ASSUME NEW s \in Seq(Message), NEW t \in Seq(Message), NEW v, NEW k, Shrinks(s, t)
    PROVE  /\ OneVerdict(s, v, k) => OneVerdict(t, v, k)
           /\ NothingAfter(s, v, k) => NothingAfter(t, v, k)
           /\ Spoken(t, v, k) => Spoken(s, v, k)
<1>1. PICK d \in {0, 1} : \A i \in 1 .. Len(t) : i + d \in 1 .. Len(s) /\ t[i] = s[i + d]
  BY DEF Shrinks
<1>2. \A i, j \in 1 .. Len(t) : (i + d = j + d => i = j) /\ (i + d <= j + d => i <= j)
  OBVIOUS
<1>3. ASSUME OneVerdict(s, v, k) PROVE OneVerdict(t, v, k)
  BY <1>1, <1>2, <1>3 DEF OneVerdict
<1>4. ASSUME NothingAfter(s, v, k) PROVE NothingAfter(t, v, k)
  BY <1>1, <1>2, <1>4 DEF NothingAfter
<1>5. Spoken(t, v, k) => Spoken(s, v, k)
  BY <1>1 DEF Spoken
<1> QED
  BY <1>3, <1>4, <1>5

LEMMA VerdictsOfOthers ==
    ASSUME NEW s \in Seq(Message), NEW t \in Seq(Message), NEW v, NEW k, NEW m,
           Grows(s, t, m), m.key # k
    PROVE  /\ OneVerdict(s, v, k) => OneVerdict(t, v, k)
           /\ NothingAfter(s, v, k) => NothingAfter(t, v, k)
           /\ Spoken(t, v, k) => Spoken(s, v, k)
<1>1. \A i \in 1 .. Len(t) : t[i].key = k => i \in 1 .. Len(s) /\ t[i] = s[i]
  BY DEF Grows
<1>2. ASSUME OneVerdict(s, v, k) PROVE OneVerdict(t, v, k)
  BY <1>1, <1>2 DEF OneVerdict, IsVerdict
<1>3. ASSUME NothingAfter(s, v, k) PROVE NothingAfter(t, v, k)
  BY <1>1, <1>3 DEF NothingAfter, IsVerdict
<1>4. Spoken(t, v, k) => Spoken(s, v, k)
  BY <1>1 DEF Spoken, IsVerdict
<1> QED
  BY <1>2, <1>3, <1>4

(***************************************************************************)
(* A message about k is sent before there is a verdict about it.           *)
(***************************************************************************)
LEMMA VerdictSent ==
    ASSUME NEW s \in Seq(Message), NEW t \in Seq(Message), NEW v, NEW m, NEW k,
           Grows(s, t, m), ~Spoken(s, v, k)
    PROVE  /\ OneVerdict(t, v, k) /\ NothingAfter(t, v, k)
           /\ m.type = "REQUEST" => ~Spoken(t, v, k)
<1>1. v = <<>> /\ \A i \in 1 .. Len(s) : ~IsVerdict(s[i], k)
  BY DEF Spoken
<1>2. Len(s) \in Nat /\ Len(t) \in Nat /\ Len(<<>>) <= 1
  OBVIOUS
<1>3. \A i \in 1 .. Len(t) : IsVerdict(t[i], k) => i = Len(s) + 1 /\ t[i] = m
  BY <1>1 DEF Grows
<1>4. \A j \in 1 .. Len(t) : j <= Len(s) + 1
  BY <1>2 DEF Grows
<1>5. OneVerdict(t, v, k)
  BY <1>1, <1>2, <1>3 DEF OneVerdict
<1>6. NothingAfter(t, v, k)
  BY <1>1, <1>3, <1>4 DEF NothingAfter
<1>7. m.type = "REQUEST" => ~Spoken(t, v, k)
  BY <1>1, <1>3 DEF Spoken, IsVerdict
<1> QED
  BY <1>5, <1>6, <1>7

(***************************************************************************)
(* The peer reads the verdict about k.                                     *)
(***************************************************************************)
LEMMA VerdictRead ==
    ASSUME NEW s \in Seq(Message), s # <<>>, NEW v \in Seq(Message), NEW k,
           IsVerdict(Head(s), k), OneVerdict(s, v, k)
    PROVE  /\ OneVerdict(Tail(s), Append(v, Head(s)), k)
           /\ NothingAfter(s, v, k) => NothingAfter(Tail(s), Append(v, Head(s)), k)
           /\ Spoken(s, v, k)
<1>1. /\ Head(s) = s[1] /\ 1 \in 1 .. Len(s) /\ Head(s) \in Message
      /\ \A i \in 1 .. Len(Tail(s)) : i + 1 \in 1 .. Len(s) /\ Tail(s)[i] = s[i + 1]
      /\ Len(Tail(s)) \in Nat
  BY TailElements
<1>2. v = <<>>
  BY <1>1 DEF OneVerdict
<1>3. Len(Append(v, Head(s))) = 1
  BY <1>1, <1>2
<1>4. \A i \in 1 .. Len(Tail(s)) : i + 1 # 1 /\ ~(i + 1 <= 1)
  BY <1>1
<1>5. \A i \in 1 .. Len(Tail(s)) : ~IsVerdict(Tail(s)[i], k)
  BY <1>1, <1>4 DEF OneVerdict
<1>6. OneVerdict(Tail(s), Append(v, Head(s)), k)
  BY <1>3, <1>5 DEF OneVerdict
<1>7. ASSUME NothingAfter(s, v, k)
      PROVE  NothingAfter(Tail(s), Append(v, Head(s)), k)
  <2>1. \A j \in 1 .. Len(s) : s[j].key = k => j <= 1
    BY <1>1, <1>7 DEF NothingAfter
  <2>2. \A i \in 1 .. Len(Tail(s)) : Tail(s)[i].key # k
    BY <1>1, <1>4, <2>1
  <2> QED
    BY <2>2 DEF NothingAfter, IsVerdict
<1> QED
  BY <1>1, <1>6, <1>7 DEF Spoken

(***************************************************************************)
(* A request is sent, whatever was said about its transaction.             *)
(***************************************************************************)
LEMMA RequestSent ==
    ASSUME NEW s \in Seq(Message), NEW t \in Seq(Message), NEW v, NEW k, NEW m,
           Grows(s, t, m), m.type = "REQUEST"
    PROVE  /\ OneVerdict(s, v, k) => OneVerdict(t, v, k)
           /\ Spoken(t, v, k) => Spoken(s, v, k)
<1>1. \A i \in 1 .. Len(t) : IsVerdict(t[i], k) => i \in 1 .. Len(s) /\ t[i] = s[i]
  BY DEF Grows, IsVerdict
<1>2. ASSUME OneVerdict(s, v, k) PROVE OneVerdict(t, v, k)
  BY <1>1, <1>2 DEF OneVerdict
<1>3. Spoken(t, v, k) => Spoken(s, v, k)
  BY <1>1 DEF Spoken
<1> QED
  BY <1>2, <1>3

-----------------------------------------------------------------------------
(* Steps, part by part *)

LEMMA LinkSendGrows ==
    ASSUME TypeOK, NEW m \in Message, LinkSend(m)
    PROVE  Grows(out, out', m)
<1>1. out \in Seq(Message)
  BY DEF TypeOK
<1> QED
  BY <1>1, LinkSendOut, GrowsSame, GrowsAppend

(***************************************************************************)
(* inbound loses messages, or receives m.                                  *)
(***************************************************************************)
LEMMA InboundMoves ==
    ASSUME TypeOK, ReadyFromPeer, Keys, NEW m,
           Shrinks(inbound, inbound') \/ Grows(inbound, inbound', m),
           m.type = "READY" => PeerIsReady',
           m.type = "KEEPALIVE" => m.key = NoKey,
           PeerIsReady => PeerIsReady'
    PROVE  \A i \in 1 .. Len(inbound') :
              /\ inbound'[i].type = "READY" => PeerIsReady'
              /\ inbound'[i].type = "KEEPALIVE" => inbound'[i].key = NoKey
<1> SUFFICES ASSUME NEW i \in 1 .. Len(inbound')
             PROVE  \/ inbound'[i] = m
                    \/ \E j \in 1 .. Len(inbound) : inbound'[i] = inbound[j]
  BY DEF ReadyFromPeer, Keys
<1> QED
  BY DEF Shrinks, Grows

LEMMA InboundStays ==
    ASSUME TypeOK, Shrinks(inbound, inbound'), PeerIsReady => PeerIsReady', ReadyFromPeer, Keys
    PROVE  \A i \in 1 .. Len(inbound') :
              /\ inbound'[i].type = "READY" => PeerIsReady'
              /\ inbound'[i].type = "KEEPALIVE" => inbound'[i].key = NoKey
<1>1. NoMsg.type # "READY" /\ NoMsg.key = NoKey
  BY DEF NoMsg, new_message
<1> QED
  BY <1>1, InboundMoves

(***************************************************************************)
(* out loses messages, or receives m, which is not REGISTER.               *)
(***************************************************************************)
LEMMA RegisterStays ==
    ASSUME RegisterOnce, NEW m, m.type # "REGISTER",
           Shrinks(out, out') \/ Grows(out, out', m),
           out' \in Seq(Message), peer' = peer, loop' = "register" => loop = "register"
    PROVE  RegisterOnce'
<1>1. CASE Shrinks(out, out')
  <2>1. PICK d \in {0, 1} : \A i \in 1 .. Len(out') : i + d \in 1 .. Len(out) /\ out'[i] = out[i + d]
    BY <1>1 DEF Shrinks
  <2>2. Len(out') \in Nat
    OBVIOUS
  <2>3. \A i, j \in 1 .. Len(out') : i + d = j + d => i = j
    BY <2>2
  <2> QED
    BY <2>1, <2>3 DEF RegisterOnce
<1>2. CASE Grows(out, out', m)
  <2>1. \A i \in 1 .. Len(out') : out'[i].type = "REGISTER" => i \in 1 .. Len(out) /\ out'[i] = out[i]
    BY <1>2 DEF Grows
  <2> QED
    BY <2>1 DEF RegisterOnce
<1> QED
  BY <1>1, <1>2

LEMMA VerdictsStay ==
    ASSUME TypeOK, TypeOK', Verdicts, verdicts' = verdicts,
           NEW m, m.key \notin TxKeys, Shrinks(out, out') \/ Grows(out, out', m),
           Lasting
    PROVE  Verdicts'
<1>1. out \in Seq(Message) /\ out' \in Seq(Message)
  BY DEF TypeOK
<1>2. ASSUME NEW k \in TxKeys, ~Interrupted(k)'
      PROVE  /\ OneVerdict(out', verdicts[k], k)
             /\ ~Detached => NothingAfter(out', verdicts[k], k)
             /\ Spoken(out', verdicts[k], k) => Settled(k)'
  <2>1. /\ OneVerdict(out, verdicts[k], k)
        /\ ~Detached => NothingAfter(out, verdicts[k], k)
        /\ Spoken(out, verdicts[k], k) => Settled(k)
    BY <1>2 DEF Verdicts, Lasting
  <2>2. m.key # k
    OBVIOUS
  <2>3. /\ OneVerdict(out, verdicts[k], k) => OneVerdict(out', verdicts[k], k)
        /\ NothingAfter(out, verdicts[k], k) => NothingAfter(out', verdicts[k], k)
        /\ Spoken(out', verdicts[k], k) => Spoken(out, verdicts[k], k)
    BY <1>1, <2>2, VerdictsShrink, VerdictsOfOthers
  <2> QED
    BY <2>1, <2>3 DEF Lasting
<1> QED
  BY <1>2 DEF Verdicts

LEMMA VerdictsSame ==
    ASSUME TypeOK, TypeOK', Verdicts, verdicts' = verdicts, Shrinks(out, out'),
           Lasting
    PROVE  Verdicts'
<1>1. NoMsg.key \notin TxKeys
  BY NoneAssumption DEF NoMsg, new_message
<1> QED
  BY <1>1, VerdictsStay

(***************************************************************************)
(* The verdict about k is sent.                                            *)
(***************************************************************************)
LEMMA VerdictsSend ==
    ASSUME TypeOK, TypeOK', Verdicts, verdicts' = verdicts,
           NEW m, NEW k \in TxKeys, m.key = k, Grows(out, out', m),
           Settled(k) => Interrupted(k), Settled(k)',
           Lasting
    PROVE  Verdicts'
<1>1. out \in Seq(Message) /\ out' \in Seq(Message)
  BY DEF TypeOK
<1>2. ASSUME NEW j \in TxKeys, ~Interrupted(j)'
      PROVE  /\ OneVerdict(out', verdicts[j], j)
             /\ ~Detached => NothingAfter(out', verdicts[j], j)
             /\ Spoken(out', verdicts[j], j) => Settled(j)'
  <2>1. /\ OneVerdict(out, verdicts[j], j)
        /\ ~Detached => NothingAfter(out, verdicts[j], j)
        /\ Spoken(out, verdicts[j], j) => Settled(j)
    BY <1>2 DEF Verdicts, Lasting
  <2>2. CASE j = k
    <3>1. ~Spoken(out, verdicts[j], j)
      BY <1>2, <2>1, <2>2 DEF Lasting
    <3>2. OneVerdict(out', verdicts[j], j) /\ NothingAfter(out', verdicts[j], j)
      BY <1>1, <3>1, VerdictSent
    <3> QED
      BY <2>2, <3>2
  <2>3. CASE j # k
    <3>1. /\ OneVerdict(out, verdicts[j], j) => OneVerdict(out', verdicts[j], j)
          /\ NothingAfter(out, verdicts[j], j) => NothingAfter(out', verdicts[j], j)
          /\ Spoken(out', verdicts[j], j) => Spoken(out, verdicts[j], j)
      BY <1>1, <2>3, VerdictsOfOthers
    <3> QED
      BY <2>1, <3>1 DEF Lasting
  <2> QED
    BY <2>2, <2>3
<1> QED
  BY <1>2 DEF Verdicts

-----------------------------------------------------------------------------
(* run_connection *)

LEMMA RegisterSession ==
    ASSUME Inv, SInv, TypeOK', Register
    PROVE  SInv'
<1> DEFINE m == new_message("REGISTER", NoKey)
<1>1. /\ TypeOK /\ TasksWhenReady /\ ReadyFromPeer /\ RegisterOnce /\ Keys /\ Verdicts
      /\ loop = "register" /\ LinkSend(m) /\ loop' \in {"recv", "ended"}
      /\ UNCHANGED <<connState, held, inbound, task, final, peer, strays, verdicts>>
      /\ (~OutAlive => out' = out)
  BY DEF Inv, SInv, Handshake, Register, taskVars, peerVars, LinkSend
<1>2. m \in Message /\ m.type = "REGISTER" /\ m.key = NoKey
  BY NewMessage DEF MsgTypes
<1>3. Grows(out, out', m)
  BY <1>1, <1>2, LinkSendGrows
<1> HIDE DEF m
<1>4. TasksWhenReady' /\ ReadyFromPeer' /\ Keys'
  BY <1>1 DEF TasksWhenReady, ReadyFromPeer, PeerIsReady, Keys
<1>5. RegisterOnce'
  <2>1. peer = "new" /\ \A i \in 1 .. Len(out) : out[i].type # "REGISTER"
    BY <1>1 DEF RegisterOnce
  <2>2. \A i \in 1 .. Len(out') : out'[i].type = "REGISTER" => i = Len(out) + 1
    BY <1>3, <2>1 DEF Grows
  <2> QED
    BY <1>1, <2>1, <2>2 DEF RegisterOnce
<1>6. Lasting
  BY <1>1 DEF Lasting, Settled, Interrupted, Rejected
<1>7. Verdicts'
  BY <1>1, <1>2, <1>3, <1>6, NoneAssumption, VerdictsStay
<1> QED
  BY <1>4, <1>5, <1>7 DEF SInv, Handshake

(***************************************************************************)
(* What every message that is read leaves alone.                           *)
(***************************************************************************)
LEMMA ReadingSession ==
    ASSUME TypeOK, TypeOK', SInv, Reading, loop' # "register"
    PROVE  /\ RegisterOnce'
           /\ \A i \in 1 .. Len(inbound') :
                 /\ inbound'[i].type = "READY" => PeerIsReady'
                 /\ inbound'[i].type = "KEEPALIVE" => inbound'[i].key = NoKey
           /\ Lasting => Verdicts'
           /\ PeerIsReady' <=> PeerIsReady
<1>1. /\ inbound \in Seq(Message) /\ inbound # <<>> /\ inbound' = Tail(inbound)
      /\ out \in Seq(Message) /\ out' = out /\ peer' = peer /\ strays' = strays
      /\ verdicts' = verdicts /\ RegisterOnce /\ ReadyFromPeer /\ Keys /\ Verdicts
  BY DEF TypeOK, Reading, peerVars, SInv, Handshake
<1>2. Shrinks(inbound, inbound') /\ Shrinks(out, out')
  BY <1>1, ShrinksTail, ShrinksSame
<1>3. PeerIsReady' <=> PeerIsReady
  BY <1>1 DEF PeerIsReady
<1>4. RegisterOnce'
  BY <1>1, NoMsgMessage, <1>2, RegisterStays
<1> QED
  BY <1>1, <1>2, <1>3, <1>4, InboundStays, VerdictsSame

LEMMA ReceiveSession ==
    ASSUME Inv, SInv, TypeOK', Reading, Loop
    PROVE  SInv'
<1> DEFINE m == Head(inbound)
<1>1. /\ TypeOK /\ DispatchedOnce /\ WellFormed
      /\ TasksWhenReady /\ ReadyFromPeer /\ RegisterOnce /\ Keys /\ Verdicts
      /\ loop = "recv" /\ inbound # <<>> /\ inbound \in Seq(Message)
  BY DEF Inv, SInv, Handshake, Reading, TypeOK
<1>2. /\ m = inbound[1] /\ 1 \in 1 .. Len(inbound) /\ m \in Message
  BY <1>1, TailElements
<1>3. /\ m.type = "READY" => PeerIsReady
      /\ m.type = "KEEPALIVE" => m.key = NoKey
      /\ m.key \in TxKeys \cup {NoKey}
  BY <1>1, <1>2 DEF ReadyFromPeer, Keys, Message
<1> HIDE DEF m
<1>4. ASSUME loop' # "register"
      PROVE  /\ RegisterOnce'
             /\ \A i \in 1 .. Len(inbound') :
                   /\ inbound'[i].type = "READY" => PeerIsReady'
                   /\ inbound'[i].type = "KEEPALIVE" => inbound'[i].key = NoKey
             /\ Lasting => Verdicts'
             /\ PeerIsReady' <=> PeerIsReady
  BY <1>1, <1>4, ReadingSession
<1>5. CASE ReceiveRegistered \/ ReceiveReady
  <2>1. /\ loop' = "recv" /\ held' = held /\ task' = task /\ final' = final
        /\ connState # "Ready" /\ connState' \in {"Established", "Ready"}
        /\ connState' = "Ready" => m.type = "READY"
    BY <1>1, <1>5 DEF ReceiveRegistered, ReceiveReady, taskVars, m
  <2>2. Lasting
    BY <1>1, <2>1 DEF Lasting, Settled, Interrupted, Rejected, Keys
  <2>3. TasksWhenReady' /\ ReadyFromPeer' /\ Keys'
    BY <1>1, <1>3, <1>4, <2>1 DEF TasksWhenReady, ReadyFromPeer, Keys
  <2> QED
    BY <1>4, <2>1, <2>2, <2>3 DEF SInv, Handshake
<1>6. CASE ReceiveKeepalive \/ ReceiveInvalid
  <2>1. /\ loop' \in {"echo", "reject"} /\ task' = task /\ final' = final
        /\ connState' = connState
        /\ loop' = "echo" => held' = new_message("KEEPALIVE", m.key) /\ m.type = "KEEPALIVE"
        /\ loop' = "reject" => held' = new_message("ERROR", m.key) /\ ~Expected(connState, m.type)
    BY <1>6 DEF ReceiveKeepalive, ReceiveInvalid, taskVars, m
  <2>2. Lasting
    BY <1>1, <2>1 DEF Lasting, Settled, Interrupted, Rejected, Keys
  <2>3. held'.type # "REGISTER" /\ held'.key = m.key
    BY <2>1 DEF new_message
  <2>4. loop' = "echo" => m.key = NoKey
    BY <1>3, <2>1
  <2>5. /\ loop' = "reject" => held'.type = "ERROR"
        /\ held'.type = "ERROR" => loop' = "reject"
    BY <2>1 DEF new_message
  <2>6. TasksWhenReady' /\ ReadyFromPeer' /\ Keys'
    BY <1>1, <1>4, <2>1, <2>3, <2>4, <2>5 DEF TasksWhenReady, ReadyFromPeer, Keys
  <2> QED
    BY <1>4, <2>1, <2>2, <2>6 DEF SInv, Handshake
<1>7. CASE ReceiveTransaction
  <2>1. /\ loop' = loop /\ held' = held /\ final' = final /\ connState' = connState
        /\ connState = "Ready" /\ m.type \in TxTypes
        /\ task' = [task EXCEPT ![m.key] = "spawned"]
    BY <1>7 DEF ReceiveTransaction, loopVars, m
  <2>2. task[m.key] = "none" /\ task \in [TxKeys -> TaskState]
    BY <1>1, <1>2, <2>1 DEF DispatchedOnce, TypeOK
  <2>3. \A k \in TxKeys : task'[k] = IF k = m.key THEN "spawned" ELSE task[k]
    BY <2>1, <2>2
  <2>4. Lasting
    BY <1>1, <2>1, <2>2, <2>3 DEF Lasting, Settled, Interrupted, Rejected
  <2>5. TasksWhenReady' /\ ReadyFromPeer' /\ Keys'
    BY <1>1, <1>4, <2>1, <2>3 DEF TasksWhenReady, ReadyFromPeer, Keys
  <2> QED
    BY <1>1, <1>4, <2>1, <2>4, <2>5 DEF SInv, Handshake
<1>8. CASE ReceiveReply
  <2>1. UNCHANGED <<connState, loop, held, task, final>>
    BY <1>8 DEF ReceiveReply, loopVars, taskVars
  <2>2. Lasting
    BY <2>1 DEF Lasting, Settled, Interrupted, Rejected
  <2>3. TasksWhenReady' /\ ReadyFromPeer' /\ Keys'
    BY <1>1, <1>4, <2>1 DEF TasksWhenReady, ReadyFromPeer, Keys
  <2> QED
    BY <1>1, <1>4, <2>1, <2>2, <2>3 DEF SInv, Handshake
<1>9. ~(Register \/ EchoKeepalive \/ RejectAndReturn \/ StreamEnded)
  BY <1>1 DEF Register, EchoKeepalive, RejectAndReturn, StreamEnded
<1> QED
  BY <1>5, <1>6, <1>7, <1>8, <1>9 DEF Loop

LEMMA LoopSendSession ==
    ASSUME Inv, SInv, TypeOK', EchoKeepalive \/ RejectAndReturn \/ StreamEnded
    PROVE  SInv'
<1>1. /\ TypeOK /\ TasksWhenReady /\ ReadyFromPeer /\ RegisterOnce /\ Keys /\ Verdicts
      /\ inbound \in Seq(Message) /\ out \in Seq(Message) /\ out' \in Seq(Message)
      /\ held \in Message
  BY DEF Inv, SInv, Handshake, TypeOK
<1>2. /\ UNCHANGED <<connState, held, task, final, peer, strays, verdicts>>
      /\ inbound' = inbound \/ inbound' = <<>>
      /\ loop' \in {"recv", "ended"} /\ loop \in {"echo", "reject", "recv"}
      /\ loop = "reject" => loop' = "ended"
  BY DEF EchoKeepalive, RejectAndReturn, StreamEnded, LoopReturns, taskVars, peerVars
<1>3. Grows(out, out', held)
  <2>1. CASE StreamEnded
    BY <2>1, GrowsSame DEF StreamEnded
  <2>2. CASE ~StreamEnded
    BY <1>1, <2>2, LinkSendGrows DEF EchoKeepalive, RejectAndReturn
  <2> QED
    BY <2>1, <2>2
<1>4. Shrinks(inbound, inbound')
  BY <1>1, <1>2, ShrinksSame, ShrinksEmpty
<1>5. PeerIsReady' <=> PeerIsReady
  BY <1>2 DEF PeerIsReady
<1>6. \A i \in 1 .. Len(inbound') :
         /\ inbound'[i].type = "READY" => PeerIsReady'
         /\ inbound'[i].type = "KEEPALIVE" => inbound'[i].key = NoKey
  BY <1>1, <1>4, <1>5, InboundStays
<1>7. TasksWhenReady' /\ ReadyFromPeer' /\ Keys'
  BY <1>1, <1>2, <1>5, <1>6 DEF TasksWhenReady, ReadyFromPeer, Keys
<1>8. RegisterOnce'
  <2>1. held.type # "REGISTER"
    BY <1>1 DEF Keys
  <2> QED
    BY <1>1, <1>2, <1>3, <2>1, RegisterStays
<1>9. Lasting
  BY <1>2 DEF Lasting, Settled, Interrupted, Rejected
<1>10. Verdicts'
  <2>1. CASE StreamEnded
    <3>1. out' = out
      BY <2>1 DEF StreamEnded
    <3> QED
      BY <1>1, <1>2, <1>9, <3>1, ShrinksSame, VerdictsSame
  <2>2. CASE held.key \notin TxKeys
    BY <1>1, <1>2, <1>3, <1>9, <2>2, VerdictsStay
  <2>3. CASE ~StreamEnded /\ held.key \in TxKeys
    <3>1. PICK k \in TxKeys : k = held.key
      BY <2>3
    <3>2. loop = "reject" /\ held.type = "ERROR"
      BY <1>1, <2>3, <3>1, NoneAssumption DEF Keys, EchoKeepalive, RejectAndReturn
    <3>3. Settled(k) => Interrupted(k)
      BY <3>1, <3>2 DEF Settled, Interrupted, Rejected
    <3>4. Settled(k)'
      BY <1>2, <3>1, <3>2 DEF Settled, Rejected
    <3> QED
      BY <1>1, <1>2, <1>3, <1>9, <3>1, <3>3, <3>4, VerdictsSend
  <2> QED
    BY <2>1, <2>2, <2>3
<1> QED
  BY <1>7, <1>8, <1>10 DEF SInv, Handshake

LEMMA LoopSession ==
    ASSUME Inv, SInv, TypeOK', Loop
    PROVE  SInv'
<1>1. CASE Reading
  BY <1>1, ReceiveSession
<1>2. CASE Register
  BY <1>2, RegisterSession
<1>3. CASE EchoKeepalive \/ RejectAndReturn \/ StreamEnded
  BY <1>3, LoopSendSession
<1> QED
  BY <1>1, <1>2, <1>3 DEF Loop, ReceiveRegistered, ReceiveReady, ReceiveKeepalive,
                          ReceiveTransaction, ReceiveReply, ReceiveInvalid

-----------------------------------------------------------------------------
(* Tasks and calls *)

LEMMA QuietSession ==
    ASSUME SInv,
           UNCHANGED <<connState, loop, held, inbound, out, task, final, peer, strays, verdicts>>
    PROVE  SInv'
<1>1. Handshake'
  BY DEF SInv, Handshake, TasksWhenReady, ReadyFromPeer, RegisterOnce, PeerIsReady
<1>2. Keys'
  BY DEF SInv, Keys
<1>3. Verdicts'
  BY DEF SInv, Verdicts, Settled, Interrupted, Rejected
<1> QED
  BY <1>1, <1>2, <1>3 DEF SInv

(***************************************************************************)
(* A task that has not answered moves on, and sends nothing.               *)
(***************************************************************************)
LEMMA TaskMovesSession ==
    ASSUME TypeOK, TypeOK', SInv, NEW k \in TxKeys, NEW x, NEW f,
           UNCHANGED <<connState, loop, held, inbound, out, peer, strays, verdicts>>,
           task' = [task EXCEPT ![k] = x], final' = [final EXCEPT ![k] = f],
           task[k] \in {"spawned", "running", "returned"},
           f.type # "REGISTER", x \in {"answering", "sending"} => f.key = k, x # "none"
    PROVE  SInv'
<1>1. /\ TasksWhenReady /\ ReadyFromPeer /\ RegisterOnce /\ Keys /\ Verdicts
      /\ task \in [TxKeys -> TaskState] /\ final \in [TxKeys -> Message]
  BY DEF SInv, Handshake, TypeOK
<1>2. /\ task'[k] = x /\ \A j \in TxKeys \ {k} : task'[j] = task[j]
      /\ final'[k] = f /\ \A j \in TxKeys \ {k} : final'[j] = final[j]
  BY <1>1
<1>3. TasksWhenReady'
  BY <1>1, <1>2 DEF TasksWhenReady
<1>4. ReadyFromPeer' /\ RegisterOnce'
  BY <1>1 DEF ReadyFromPeer, RegisterOnce, PeerIsReady
<1>5. Keys'
  BY <1>1, <1>2 DEF Keys
<1>6. Lasting
  BY <1>1, <1>2 DEF Lasting, Settled, Interrupted, Rejected
<1>7. Verdicts'
  BY <1>1, <1>6 DEF Verdicts, Lasting
<1> QED
  BY <1>3, <1>4, <1>5, <1>7 DEF SInv, Handshake

LEMMA TaskSendsSession ==
    ASSUME Inv, SInv, TypeOK', NEW k \in TxKeys, TaskSends(k)
    PROVE  SInv'
<1>1. /\ TypeOK /\ TasksWhenReady /\ ReadyFromPeer /\ RegisterOnce /\ Keys /\ Verdicts
      /\ task \in [TxKeys -> TaskState] /\ final[k] \in Message
      /\ out' \in Seq(Message)
  BY DEF Inv, SInv, Handshake, TypeOK
<1>2. /\ UNCHANGED <<connState, loop, held, inbound, final, peer, strays, verdicts>>
      /\ task[k] \in {"answering", "sending"} /\ LinkSend(final[k])
      /\ task' = [task EXCEPT ![k] = IF @ = "sending" THEN "done" ELSE "answered"]
  BY DEF TaskSends, loopVars, peerVars
<1>3. task'[k] \in {"answered", "done"} /\ \A j \in TxKeys \ {k} : task'[j] = task[j]
  BY <1>1, <1>2
<1>4. final[k].key = k /\ final[k].type # "REGISTER"
  BY <1>1, <1>2 DEF Keys
<1>5. Grows(out, out', final[k])
  BY <1>1, <1>2, LinkSendGrows
<1>6. TasksWhenReady' /\ ReadyFromPeer' /\ Keys'
  BY <1>1, <1>2, <1>3 DEF TasksWhenReady, ReadyFromPeer, PeerIsReady, Keys
<1>7. RegisterOnce'
  BY <1>1, <1>2, <1>4, <1>5, RegisterStays
<1>8. (Settled(k) => Interrupted(k)) /\ Settled(k)' /\ Lasting
  BY <1>1, <1>2, <1>3 DEF Lasting, Settled, Interrupted, Rejected
<1>9. Verdicts'
  BY <1>1, <1>2, <1>4, <1>5, <1>8, VerdictsSend
<1> QED
  BY <1>6, <1>7, <1>9 DEF SInv, Handshake

LEMMA TaskSession ==
    ASSUME Inv, SInv, TypeOK', NEW k \in TxKeys, Task(k)
    PROVE  SInv'
<1>1. TypeOK /\ final \in [TxKeys -> Message] /\ final[k].type # "REGISTER"
  BY DEF Inv, TypeOK, SInv, Keys
<1>2. CASE TaskSends(k)
  BY <1>2, TaskSendsSession
<1>3. CASE TaskRejects(k)
  <2>1. new_message("ERROR", k).type # "REGISTER" /\ new_message("ERROR", k).key = k
    BY DEF new_message
  <2>2. /\ UNCHANGED <<connState, loop, held, inbound, out, peer, strays, verdicts>>
        /\ task[k] = "spawned" /\ task' = [task EXCEPT ![k] = "answering"]
        /\ final' = [final EXCEPT ![k] = new_message("ERROR", k)]
    BY <1>3 DEF TaskRejects, loopVars, peerVars
  <2> QED
    BY <1>1, <2>1, <2>2, TaskMovesSession
<1>4. CASE TaskDescribes(k) \/ TaskFinishes(k)
  <2>1. PICK e, x :
            /\ UNCHANGED <<connState, loop, held, inbound, out, peer, strays, verdicts>>
            /\ task[k] \in {"spawned", "returned"} /\ task' = [task EXCEPT ![k] = x]
            /\ x # "none"
            /\ final' = [final EXCEPT ![k] = Completed(k, e)]
    BY <1>4 DEF TaskDescribes, TaskFinishes, loopVars, peerVars
  <2>2. Completed(k, e).type # "REGISTER" /\ Completed(k, e).key = k
    BY DEF Completed
  <2> QED
    BY <1>1, <2>1, <2>2, TaskMovesSession
<1>5. CASE TaskRuns(k)
  <2>1. /\ UNCHANGED <<connState, loop, held, inbound, out, peer, strays, verdicts>>
        /\ task[k] = "spawned" /\ task' = [task EXCEPT ![k] = "running"]
        /\ final' = final
    BY <1>5 DEF TaskRuns, loopVars, peerVars
  <2>2. final = [final EXCEPT ![k] = final[k]]
    BY <1>1
  <2> QED
    BY <1>1, <2>1, <2>2, TaskMovesSession
<1> QED
  BY <1>2, <1>3, <1>4, <1>5 DEF Task

LEMMA CallSendsSession ==
    ASSUME Inv, SInv, TypeOK', NEW c \in Calls, CallSends(c)
    PROVE  SInv'
<1> DEFINE m == CallMessage("REQUEST", c)
           k == KeyOf(c)
<1>1. /\ TypeOK /\ TasksWhenReady /\ ReadyFromPeer /\ RegisterOnce /\ Keys /\ Verdicts
      /\ CallsFollowTask /\ out \in Seq(Message) /\ out' \in Seq(Message)
  BY DEF Inv, ControlInv, SInv, Handshake, TypeOK
<1>2. /\ UNCHANGED <<connState, loop, held, inbound, task, final, peer, strays, verdicts>>
      /\ call[c] = "send" /\ LinkSend(m)
  BY DEF CallSends, loopVars, taskVars, peerVars
<1>3. m \in Message /\ m.type = "REQUEST" /\ m.key = k /\ k \in TxKeys
  BY CallMessages, KeyOfCall DEF MsgTypes
<1>4. Grows(out, out', m)
  BY <1>1, <1>2, <1>3, LinkSendGrows
<1> HIDE DEF m, k
<1>5. TasksWhenReady' /\ ReadyFromPeer' /\ Keys'
  BY <1>1, <1>2 DEF TasksWhenReady, ReadyFromPeer, PeerIsReady, Keys
<1>6. RegisterOnce'
  BY <1>1, <1>2, <1>3, <1>4, RegisterStays
<1>7. ~Detached /\ ~Interrupted(k) => ~Settled(k)
  <2>1. ~Detached => task[k] = "running"
    BY <1>1, <1>2 DEF CallsFollowTask, ActiveCall, k
  <2> QED
    BY <1>1, <1>3, <2>1 DEF Settled, Interrupted, Rejected
<1>8. ASSUME NEW j \in TxKeys, ~Interrupted(j)'
      PROVE  /\ OneVerdict(out', verdicts[j], j)
             /\ ~Detached => NothingAfter(out', verdicts[j], j)
             /\ Spoken(out', verdicts[j], j) => Settled(j)'
  <2>1. /\ OneVerdict(out, verdicts[j], j)
        /\ ~Detached => NothingAfter(out, verdicts[j], j)
        /\ Spoken(out, verdicts[j], j) => Settled(j)
    BY <1>1, <1>2, <1>8 DEF Verdicts, Interrupted, Rejected
  <2>2. /\ OneVerdict(out', verdicts[j], j)
        /\ Spoken(out', verdicts[j], j) => Spoken(out, verdicts[j], j)
    BY <1>1, <1>3, <1>4, <2>1, RequestSent
  <2>3. (Settled(j)' <=> Settled(j)) /\ ~Interrupted(j)
    BY <1>2, <1>8 DEF Settled, Interrupted, Rejected
  <2>4. ASSUME ~Detached PROVE NothingAfter(out', verdicts[j], j)
    <3>1. CASE j = k
      BY <1>1, <1>4, <1>7, <2>1, <2>3, <2>4, <3>1, VerdictSent
    <3>2. CASE j # k
      BY <1>1, <1>3, <1>4, <2>1, <2>4, <3>2, VerdictsOfOthers
    <3> QED
      BY <3>1, <3>2
  <2> QED
    BY <2>1, <2>2, <2>3, <2>4
<1>9. Verdicts'
  BY <1>2, <1>8 DEF Verdicts
<1> QED
  BY <1>5, <1>6, <1>9 DEF SInv, Handshake

LEMMA RequestSession ==
    ASSUME Inv, SInv, TypeOK', NEW c \in Calls, Request(c)
    PROVE  SInv'
<1>1. CASE CallSends(c)
  BY <1>1, CallSendsSession
<1>2. CASE ~CallSends(c)
  <2>1. UNCHANGED <<connState, loop, held, inbound, out, task, final, peer, strays, verdicts>>
    BY <1>2 DEF Request, CallRegisters, CallRefused, CallReturns, CallClosed,
                loopVars, taskVars, peerVars
  <2> QED
    BY <2>1, QuietSession
<1> QED
  BY <1>1, <1>2

LEMMA ChaincodeSession ==
    ASSUME Inv, SInv, TypeOK', Chaincode
    PROVE  SInv'
<1>1. TypeOK /\ final \in [TxKeys -> Message]
  BY DEF Inv, TypeOK
<1>2. ASSUME NEW k \in TxKeys, NEW kept, HandlerEnds(k, kept) PROVE SInv'
  <2>1. /\ UNCHANGED <<connState, loop, held, inbound, out, peer, strays, verdicts>>
        /\ task[k] = "running" /\ task' = [task EXCEPT ![k] = "returned"]
        /\ final' = final
    BY <1>2 DEF HandlerEnds, loopVars, peerVars
  <2>2. final = [final EXCEPT ![k] = final[k]] /\ final[k].type # "REGISTER"
    BY <1>1 DEF SInv, Keys
  <2> QED
    BY <1>1, <2>1, <2>2, TaskMovesSession
<1>3. ASSUME NEW k \in TxKeys, NEW e, SetEvent(k, e) PROVE SInv'
  BY <1>3, QuietSession DEF SetEvent, loopVars, peerVars
<1>4. ASSUME NEW c \in Calls, CallStarts(c) \/ CallCancelled(c) PROVE SInv'
  BY <1>4, QuietSession DEF CallStarts, CallCancelled, loopVars, taskVars, peerVars
<1> QED
  BY <1>2, <1>3, <1>4 DEF Chaincode

-----------------------------------------------------------------------------
(* The peer *)

LEMMA PeerReadsSession ==
    ASSUME Inv, SInv, TypeOK', PeerReading
    PROVE  SInv'
<1> DEFINE m == Head(out)
<1>1. /\ TypeOK /\ WellFormed
      /\ TasksWhenReady /\ ReadyFromPeer /\ RegisterOnce /\ Keys /\ Verdicts
      /\ out \in Seq(Message) /\ verdicts \in [TxKeys -> MessageLog]
  BY DEF Inv, SInv, Handshake, TypeOK
<1>2. /\ PeerReads /\ out # <<>> /\ out' = Tail(out)
      /\ UNCHANGED <<connState, loop, held, inbound, task, final, strays>>
  BY DEF PeerReading, PeerReadsRegister, PeerReadsRequest, PeerReadsEcho, PeerReadsVerdict,
         PeerReads, loopVars, taskVars
<1>3. /\ m \in Message /\ m = out[1] /\ 1 \in 1 .. Len(out) /\ m.key \in TxKeys \cup {NoKey}
      /\ \A i \in 1 .. Len(out') : i + 1 \in 1 .. Len(out) /\ out'[i] = out[i + 1]
      /\ out' \in Seq(Message)
  BY <1>1, <1>2, PeerReadsOut
<1> HIDE DEF m
<1>4. Shrinks(out, out')
  BY <1>1, <1>2, ShrinksTail
<1>5. Lasting /\ \A k \in TxKeys : Settled(k) => Settled(k)'
  BY <1>2 DEF Lasting, Settled, Interrupted, Rejected
<1>6. Keys' /\ TasksWhenReady'
  BY <1>1, <1>2 DEF Keys, TasksWhenReady
<1>7. CASE PeerReadsRegister
  <2>1. peer' = "registering" /\ verdicts' = verdicts /\ m.type = "REGISTER"
    BY <1>7 DEF PeerReadsRegister, m
  <2>2. /\ loop # "register" /\ peer = "new"
        /\ \A j \in 1 .. Len(out) : out[j].type = "REGISTER" => 1 = j
    BY <1>1, <1>3, <2>1 DEF RegisterOnce
  <2>3. \A i \in 1 .. Len(out') : out'[i].type # "REGISTER"
    <3>1. Len(out') \in Nat
      BY <1>3
    <3>2. \A i \in 1 .. Len(out') : 1 # i + 1
      BY <3>1
    <3> QED
      BY <1>3, <2>2, <3>2
  <2>4. RegisterOnce'
    BY <1>2, <2>2, <2>3 DEF RegisterOnce
  <2>5. ReadyFromPeer'
    BY <1>1, <1>2, <2>2 DEF ReadyFromPeer, PeerIsReady
  <2>6. Verdicts'
    BY <1>1, <1>4, <1>5, <2>1, VerdictsSame
  <2> QED
    BY <1>6, <2>4, <2>5, <2>6 DEF SInv, Handshake
<1>8. CASE PeerReadsRequest \/ PeerReadsEcho
  <2>1. peer' = peer /\ verdicts' = verdicts
    BY <1>8 DEF PeerReadsRequest, PeerReadsEcho
  <2>2. RegisterOnce'
    BY <1>1, <1>2, <1>3, <1>4, <2>1, NoMsgMessage, RegisterStays
  <2>3. ReadyFromPeer'
    BY <1>1, <1>2, <2>1 DEF ReadyFromPeer, PeerIsReady
  <2>4. Verdicts'
    BY <1>1, <1>4, <1>5, <2>1, VerdictsSame
  <2> QED
    BY <1>6, <2>2, <2>3, <2>4 DEF SInv, Handshake
<1>9. CASE PeerReadsVerdict
  <2>1. /\ peer' = peer /\ m.type \in {"COMPLETED", "ERROR"}
        /\ verdicts' = IF m.key = NoKey THEN verdicts
                       ELSE [verdicts EXCEPT ![m.key] = Append(@, m)]
    BY <1>9 DEF PeerReadsVerdict, m
  <2>2. RegisterOnce'
    BY <1>1, <1>2, <1>3, <1>4, <2>1, NoMsgMessage, RegisterStays
  <2>3. ReadyFromPeer'
    BY <1>1, <1>2, <2>1 DEF ReadyFromPeer, PeerIsReady
  <2>4. CASE m.key = NoKey
    <3>1. verdicts' = verdicts
      BY <2>1, <2>4
    <3>2. Verdicts'
      BY <1>1, <1>4, <1>5, <3>1, VerdictsSame
    <3> QED
      BY <1>6, <2>2, <2>3, <3>2 DEF SInv, Handshake
  <2>5. CASE m.key # NoKey
    <3>1. PICK k \in TxKeys : k = m.key
      BY <1>3, <2>5
    <3>2. verdicts' = [verdicts EXCEPT ![k] = Append(@, m)]
      BY <2>1, <2>5, <3>1
    <3>3. verdicts'[k] = Append(verdicts[k], m) /\ \A j \in TxKeys \ {k} : verdicts'[j] = verdicts[j]
      BY <1>1, <3>2
    <3>4. IsVerdict(Head(out), k)
      BY <2>1, <3>1 DEF IsVerdict, m
    <3>5. verdicts[k] \in Seq(Message)
      BY <1>1 DEF MessageLog
    <3>6. ASSUME NEW j \in TxKeys, ~Interrupted(j)'
          PROVE  /\ OneVerdict(out', verdicts'[j], j)
                 /\ ~Detached => NothingAfter(out', verdicts'[j], j)
                 /\ Spoken(out', verdicts'[j], j) => Settled(j)'
      <4>1. /\ OneVerdict(out, verdicts[j], j)
            /\ ~Detached => NothingAfter(out, verdicts[j], j)
            /\ Spoken(out, verdicts[j], j) => Settled(j)
        BY <1>1, <1>5, <3>6 DEF Verdicts, Lasting
      <4>2. CASE j = k
        <5>1. /\ OneVerdict(Tail(out), Append(verdicts[k], Head(out)), k)
              /\ NothingAfter(out, verdicts[k], k) =>
                    NothingAfter(Tail(out), Append(verdicts[k], Head(out)), k)
              /\ Spoken(out, verdicts[k], k)
          BY <1>1, <1>2, <3>4, <3>5, <4>1, <4>2, VerdictRead
        <5>2. out' = Tail(out) /\ verdicts'[k] = Append(verdicts[k], Head(out))
          BY <1>2, <3>3 DEF m
        <5> QED
          BY <1>5, <4>1, <4>2, <5>1, <5>2
      <4>3. CASE j # k
        <5>1. verdicts'[j] = verdicts[j]
          BY <3>3, <4>3
        <5>2. /\ OneVerdict(out, verdicts[j], j) => OneVerdict(out', verdicts[j], j)
              /\ NothingAfter(out, verdicts[j], j) => NothingAfter(out', verdicts[j], j)
              /\ Spoken(out', verdicts[j], j) => Spoken(out, verdicts[j], j)
          BY <1>1, <1>3, <1>4, VerdictsShrink
        <5> QED
          BY <1>5, <4>1, <5>1, <5>2
      <4> QED
        BY <4>2, <4>3
    <3>7. Verdicts'
      BY <3>6 DEF Verdicts
    <3> QED
      BY <1>6, <2>2, <2>3, <3>7 DEF SInv, Handshake
  <2> QED
    BY <2>4, <2>5
<1> QED
  BY <1>7, <1>8, <1>9 DEF PeerReading

(***************************************************************************)
(* The peer sends m.                                                       *)
(***************************************************************************)
LEMMA PeerSendsSession ==
    ASSUME Inv, SInv, TypeOK', NEW m \in Message, PeerSends(m),
           peer' = peer \/ (peer # "new" /\ peer' # "new"),
           m.type = "READY" => PeerIsReady',
           m.type = "KEEPALIVE" => m.key = NoKey,
           PeerIsReady => PeerIsReady'
    PROVE  SInv'
<1>1. /\ TypeOK /\ TasksWhenReady /\ ReadyFromPeer /\ RegisterOnce /\ Keys /\ Verdicts
      /\ out \in Seq(Message) /\ inbound \in Seq(Message)
  BY DEF Inv, SInv, Handshake, TypeOK
<1>2. UNCHANGED <<connState, loop, held, out, task, final, verdicts>>
  BY DEF PeerSends, loopVars, taskVars
<1>3. Grows(inbound, inbound', m)
  BY <1>1, PeerSendsIn, GrowsSame, GrowsAppend
<1>4. \A i \in 1 .. Len(inbound') :
         /\ inbound'[i].type = "READY" => PeerIsReady'
         /\ inbound'[i].type = "KEEPALIVE" => inbound'[i].key = NoKey
  BY <1>1, <1>3, InboundMoves
<1>5. TasksWhenReady' /\ ReadyFromPeer' /\ Keys'
  BY <1>1, <1>2, <1>4 DEF TasksWhenReady, ReadyFromPeer, Keys
<1>6. RegisterOnce'
  BY <1>1, <1>2 DEF RegisterOnce
<1>7. Verdicts'
  BY <1>1, <1>2 DEF Verdicts, Settled, Interrupted, Rejected
<1> QED
  BY <1>5, <1>6, <1>7 DEF SInv, Handshake

LEMMA PeerSession ==
    ASSUME Inv, SInv, TypeOK', Peer
    PROVE  SInv'
<1>1. TypeOK
  BY DEF Inv
<1>2. CASE PeerReading
  BY <1>2, PeerReadsSession
<1>3. CASE PeerShakesHands
  <2>1. "REGISTERED" \in MsgTypes /\ "READY" \in MsgTypes
    BY DEF MsgTypes, StrayTypes
  <2>2. PICK type \in {"REGISTERED", "READY"} :
            /\ PeerSends(new_message(type, NoKey)) /\ strays' = strays
            /\ peer \in {"registering", "registered"} /\ peer' \in {"registered", "ready"}
            /\ type = "READY" => peer' = "ready"
    BY <1>3 DEF PeerShakesHands
  <2>3. /\ new_message(type, NoKey) \in Message /\ new_message(type, NoKey).type = type
        /\ new_message(type, NoKey).key = NoKey
    BY <2>1, NewMessage
  <2> QED
    BY <2>2, <2>3, PeerSendsSession DEF PeerIsReady
<1>4. CASE PeerPings
  <2>1. "KEEPALIVE" \in MsgTypes
    BY DEF MsgTypes
  <2>2. /\ new_message("KEEPALIVE", NoKey) \in Message
        /\ new_message("KEEPALIVE", NoKey).type = "KEEPALIVE"
        /\ new_message("KEEPALIVE", NoKey).key = NoKey
    BY <2>1, NewMessage
  <2>3. PeerSends(new_message("KEEPALIVE", NoKey)) /\ UNCHANGED <<peer, strays>>
    BY <1>4 DEF PeerPings
  <2> QED
    BY <2>2, <2>3, PeerSendsSession DEF PeerIsReady
<1>5. ASSUME NEW k \in TxKeys, NEW type \in TxTypes, PeerStarts(k, type) PROVE SInv'
  <2>1. /\ new_message(type, k) \in Message /\ new_message(type, k).type = type
        /\ type \notin {"READY", "KEEPALIVE"}
    BY NewMessage DEF MsgTypes, TxTypes
  <2>2. PeerSends(new_message(type, k)) /\ UNCHANGED <<peer, strays>>
    BY <1>5 DEF PeerStarts
  <2> QED
    BY <2>1, <2>2, PeerSendsSession DEF PeerIsReady
<1>6. ASSUME NEW c \in Calls, NEW type \in ReplyTypes, PeerAnswers(c, type) PROVE SInv'
  <2>1. /\ CallMessage(type, c) \in Message /\ CallMessage(type, c).type = type
        /\ type \notin {"READY", "KEEPALIVE"}
    BY CallMessages DEF MsgTypes, ReplyTypes
  <2>2. PeerSends(CallMessage(type, c)) /\ UNCHANGED <<peer, strays>>
    BY <1>6 DEF PeerAnswers
  <2> QED
    BY <2>1, <2>2, PeerSendsSession DEF PeerIsReady
<1>7. ASSUME NEW type \in StrayTypes, NEW k \in TxKeys \cup {NoKey}, PeerStrays(type, k)
      PROVE SInv'
  <2>1. type \in MsgTypes
    BY DEF MsgTypes
  <2>2. new_message(type, k) \in Message /\ new_message(type, k).type # "KEEPALIVE"
    BY <2>1, NewMessage DEF StrayTypes
  <2>3. PeerSends(new_message(type, k)) /\ peer' = peer /\ strays' = strays + 1
    BY <1>7 DEF PeerStrays
  <2>4. strays' > 0
    BY <1>1, <2>3, BoundsAssumption DEF TypeOK
  <2> QED
    BY <2>2, <2>3, <2>4, PeerSendsSession DEF PeerIsReady
<1>8. CASE PeerCloses
  BY <1>8, QuietSession DEF PeerCloses, loopVars, taskVars, peerVars
<1>9. CASE StreamBreaks
  <2>1. /\ TasksWhenReady /\ ReadyFromPeer /\ RegisterOnce /\ Keys /\ Verdicts
        /\ inbound \in Seq(Message) /\ out' \in Seq(Message)
    BY <1>1 DEF SInv, Handshake, TypeOK
  <2>2. /\ UNCHANGED <<connState, loop, held, task, final, peer, strays, verdicts>>
        /\ out' = <<>> /\ \E n \in 0 .. Len(inbound) : inbound' = SubSeq(inbound, 1, n)
    BY <1>9 DEF StreamBreaks, loopVars, taskVars, peerVars
  <2>3. Shrinks(inbound, inbound') /\ Shrinks(out, out')
    BY <2>1, <2>2, ShrinksPrefix, ShrinksEmpty
  <2>4. PeerIsReady' <=> PeerIsReady
    BY <2>2 DEF PeerIsReady
  <2>5. \A i \in 1 .. Len(inbound') :
           /\ inbound'[i].type = "READY" => PeerIsReady'
           /\ inbound'[i].type = "KEEPALIVE" => inbound'[i].key = NoKey
    BY <1>1, <2>1, <2>3, <2>4, InboundStays
  <2>6. TasksWhenReady' /\ ReadyFromPeer' /\ Keys'
    BY <2>1, <2>2, <2>4, <2>5 DEF TasksWhenReady, ReadyFromPeer, Keys
  <2>7. RegisterOnce'
    BY <2>1, <2>2, <2>3, NoMsgMessage, RegisterStays
  <2>8. Lasting
    BY <2>2 DEF Lasting, Settled, Interrupted, Rejected
  <2>9. Verdicts'
    BY <1>1, <2>1, <2>2, <2>3, <2>8, VerdictsSame
  <2> QED
    BY <2>6, <2>7, <2>9 DEF SInv, Handshake
<1> QED
  BY <1>2, <1>3, <1>4, <1>5, <1>6, <1>7, <1>8, <1>9 DEF Peer

-----------------------------------------------------------------------------
(* The handshake, and the last message of a transaction *)

LEMMA SessionInit ==
    ASSUME Init
    PROVE  SInv
<1>1. /\ inbound = <<>> /\ out = <<>> /\ connState = "Created" /\ loop = "register"
      /\ held = NoMsg /\ peer = "new" /\ strays = 0
      /\ \A k \in TxKeys : task[k] = "none" /\ final[k] = NoMsg /\ verdicts[k] = <<>>
  BY DEF Init
<1>2. Len(<<>>) = 0 /\ \A i \in 1 .. Len(<<>>) : FALSE
  OBVIOUS
<1>3. Handshake
  BY <1>1, <1>2 DEF Handshake, TasksWhenReady, ReadyFromPeer, RegisterOnce
<1>4. Keys
  BY <1>1, <1>2, NoMsgMessage DEF Keys
<1>5. Verdicts
  BY <1>1, <1>2 DEF Verdicts, OneVerdict, NothingAfter, Spoken
<1> QED
  BY <1>3, <1>4, <1>5 DEF SInv

LEMMA SessionStep ==
    ASSUME Inv, SInv, [Next]_vars
    PROVE  SInv'
<1>1. TypeOK'
  BY TypeStep DEF Inv
<1>2. CASE UNCHANGED vars
  BY <1>2, QuietSession DEF vars, loopVars, taskVars, peerVars
<1> QED
  BY <1>1, <1>2, LoopSession, TaskSession, RequestSession, ChaincodeSession, PeerSession
     DEF Next, Shim

LEMMA SessionInvariance == Spec => [](Inv /\ SInv)
<1>1. Init => Inv /\ SInv
  BY InvInit, SessionInit
<1>2. Inv /\ SInv /\ [Next]_vars => Inv' /\ SInv'
  BY InvStep, SessionStep
<1> QED
  BY <1>1, <1>2, PTL DEF Spec

(***************************************************************************)
(* run_connection runs chaincode only for transactions that the peer has   *)
(* started, after a complete handshake or a READY out of turn.             *)
(***************************************************************************)
THEOREM AlwaysRunsAfterHandshake == Spec => []RunsAfterHandshake
<1>1. Inv /\ SInv => RunsAfterHandshake
  BY DEF Inv, SInv, DispatchedOnce, Handshake, TasksWhenReady, ReadyFromPeer, PeerIsReady,
         RunsAfterHandshake
<1> QED
  BY <1>1, SessionInvariance, PTL

(***************************************************************************)
(* spawn_transaction, or the loop that refuses a transaction, sends one    *)
(* COMPLETED or ERROR about it, and nothing about it is sent after that,   *)
(* unless the loop rejects a message that names a transaction with a task. *)
(***************************************************************************)
THEOREM AlwaysVerdictIsLast == Spec => []VerdictIsLast
<1>1. ASSUME Inv, SInv PROVE VerdictIsLast
  <2> SUFFICES ASSUME NEW k \in TxKeys, Attended(k), ~Interrupted(k)
               PROVE  /\ Len(verdicts[k]) <= 1
                      /\ \A i \in 1 .. Len(out) :
                            out[i].key = k =>
                               /\ verdicts[k] = <<>>
                               /\ \A j \in 1 .. i - 1 : out[j].key = k => out[j].type = "REQUEST"
    BY DEF VerdictIsLast
  <2>1. /\ OneVerdict(out, verdicts[k], k)
        /\ ~Detached => NothingAfter(out, verdicts[k], k)
        /\ Spoken(out, verdicts[k], k) => Settled(k)
        /\ out \in Seq(Message) /\ TasksWhenReady
    BY <1>1 DEF Inv, SInv, Verdicts, TypeOK, Handshake
  <2>2. Len(out) \in Nat
    BY <2>1
  <2>3. ASSUME NEW i \in 1 .. Len(out), out[i].key = k
        PROVE  /\ verdicts[k] = <<>>
               /\ \A j \in 1 .. i - 1 : out[j].key = k => out[j].type = "REQUEST"
    <3>1. \A j \in 1 .. i - 1 : j \in 1 .. Len(out) /\ ~(i <= j)
      BY <2>2
    <3>2. CASE Detached
      <4>1. ~Settled(k)
        BY <2>1, <3>2 DEF Attended, Settled, Interrupted
      <4> QED
        BY <2>1, <2>3, <3>1, <4>1 DEF Spoken, IsVerdict
    <3>3. CASE ~Detached
      BY <2>1, <2>3, <3>1, <3>3 DEF NothingAfter, IsVerdict
    <3> QED
      BY <3>2, <3>3
  <2> QED
    BY <2>1, <2>3 DEF OneVerdict
<1> QED
  BY <1>1, SessionInvariance, PTL

-----------------------------------------------------------------------------
(* Refinement *)

(***************************************************************************)
(* One request of a transaction is in transit at most, so Asked(k) is that *)
(* one.                                                                    *)
(***************************************************************************)
LEMMA AskedIs ==
    ASSUME OneInFlight, ~Detached, NEW k \in TxKeys
    PROVE  /\ \A c \in Calls : InTransit(c) /\ KeyOf(c) = k => Asked(k) = c
           /\ \/ Asked(k) = NoCall
              \/ Asked(k) \in Calls /\ KeyOf(Asked(k)) = k /\ InTransit(Asked(k))
<1> DEFINE S == {c \in CallsOf(k) : InTransit(c)}
<1>1. \A c, d \in S : c = d
  BY DEF OneInFlight, Attended, CallsOf
<1>2. CASE S = {}
  BY <1>2 DEF Asked, CallsOf
<1>3. ASSUME NEW d \in S PROVE Asked(k) = d
  <2>1. d \in CallsOf(k) /\ InTransit(d)
    OBVIOUS
  <2>2. Asked(k) = CHOOSE c \in CallsOf(k) : InTransit(c)
    BY <2>1 DEF Asked
  <2>3. \E c \in CallsOf(k) : InTransit(c)
    BY <2>1
  <2>4. Asked(k) \in S
    BY <2>2, <2>3
  <2> QED
    BY <1>1, <2>4
<1> QED
  BY <1>2, <1>3 DEF CallsOf

LEMMA AskedIsPrime ==
    ASSUME OneInFlight', ~Detached, NEW k \in TxKeys
    PROVE  /\ \A c \in Calls : InTransit(c)' /\ KeyOf(c) = k => Asked(k)' = c
           /\ \/ Asked(k)' = NoCall
              \/ Asked(k)' \in Calls /\ KeyOf(Asked(k)') = k /\ \E c \in Calls : c = Asked(k)' /\ InTransit(c)'
<1> DEFINE S == {c \in CallsOf(k) : InTransit(c)'}
<1>1. \A c, d \in S : c = d
  BY DEF OneInFlight, Attended, CallsOf
<1>2. CASE S = {}
  BY <1>2 DEF Asked, CallsOf
<1>3. ASSUME NEW d \in S PROVE Asked(k)' = d
  <2>1. d \in CallsOf(k) /\ InTransit(d)'
    OBVIOUS
  <2>2. Asked(k)' = CHOOSE c \in CallsOf(k) : InTransit(c)'
    BY <2>1 DEF Asked, CallsOf
  <2>3. \E c \in CallsOf(k) : InTransit(c)'
    BY <2>1
  <2>4. Asked(k)' \in S
    BY <2>2, <2>3
  <2> QED
    BY <1>1, <2>4
<1> QED
  BY <1>2, <1>3 DEF CallsOf

(***************************************************************************)
(* A step that puts no request on its way loses some; one that loses none  *)
(* leaves what is asked.                                                   *)
(***************************************************************************)
LEMMA AskedMoves ==
    ASSUME OneInFlight, OneInFlight', ~Detached, NoNewTransit, NEW k \in TxKeys
    PROVE  /\ Asked(k)' \in {Asked(k), NoCall}
           /\ (\A c \in Calls : KeyOf(c) = k /\ InTransit(c) => InTransit(c)') => Asked(k)' = Asked(k)
<1>1. Asked(k)' \in {Asked(k), NoCall}
  BY AskedIs, AskedIsPrime DEF NoNewTransit
<1>2. ASSUME \A c \in Calls : KeyOf(c) = k /\ InTransit(c) => InTransit(c)'
      PROVE  Asked(k)' = Asked(k)
  <2>1. CASE Asked(k) = NoCall
    BY <1>1, <2>1
  <2>2. CASE Asked(k) # NoCall
    <3>1. PICK c \in Calls : c = Asked(k) /\ KeyOf(c) = k /\ InTransit(c)
      BY <2>2, AskedIs
    <3>2. InTransit(c)'
      BY <1>2, <3>1
    <3> QED
      BY <3>1, <3>2, AskedIsPrime
  <2> QED
    BY <2>1, <2>2
<1> QED
  BY <1>1, <1>2

(***************************************************************************)
(* The state of the session.                                               *)
(***************************************************************************)
LEMMA SessionLoses ==
    ASSUME Inv, Inv', ~Detached, NoNewTransit, UNCHANGED <<task, reply>>
    PROVE  \E lost \in SUBSET TxKeys : Session!Lose(lost)
<1>1. PICK lost \in SUBSET TxKeys : lost = {k \in TxKeys : Asked(k)' # Asked(k)}
  OBVIOUS
<1>2. OneInFlight /\ OneInFlight'
  BY DEF Inv, ControlInv
<1>3. \A k \in TxKeys : Asked(k)' = IF k \in lost THEN NoCall ELSE Asked(k)
  BY <1>1, <1>2, AskedMoves
<1>4. \A k \in TxKeys : Phase(k)' = Phase(k)
  BY DEF Phase
<1>5. Session!Lose(lost)
  BY <1>3, <1>4 DEF Session!Lose
<1> QED
  BY <1>5

(***************************************************************************)
(* Steps that change the phase of one transaction and lose no request.     *)
(***************************************************************************)
TransitSame == \A c \in Calls : InTransit(c)' <=> InTransit(c)

LEMMA AskedSame ==
    ASSUME Inv, Inv', ~Detached, TransitSame
    PROVE  \A k \in TxKeys : Asked(k)' = Asked(k)
<1>1. OneInFlight /\ OneInFlight'
  BY DEF Inv, ControlInv
<1>2. NoNewTransit
  BY DEF TransitSame, NoNewTransit
<1> QED
  BY <1>1, <1>2, AskedMoves DEF TransitSame

LEMMA WireSame == ASSUME UNCHANGED <<out, inbound, atPeer>> PROVE TransitSame
  BY TransitCarries, TransitCarriesPrime DEF TransitSame

LEMMA MovesOn ==
    ASSUME Inv, Inv', ~Detached, TransitSame, reply' = reply, NEW k \in TxKeys,
           task' = [task EXCEPT ![k] = task'[k]]
    PROVE  /\ task[k] = "none" /\ task'[k] = "spawned" => Session!Begin(k)
           /\ task[k] \in {"spawned", "running"} /\ task'[k] \in {"answering", "returned"}
                 => Session!Finish(k)
           /\ task[k] \in {"answering", "sending"} /\ task'[k] \in {"answered", "done"}
                 => Session!Publish(k)
           /\ <<task[k], task'[k]>> \in {<<"spawned", "running">>, <<"returned", "sending">>}
                 => UNCHANGED Session!vars
<1>1. \A j \in TxKeys : Asked(j)' = Asked(j)
  BY AskedSame
<1>2. \A j \in TxKeys : j # k => task'[j] = task[j] /\ Phase(j)' = Phase(j)
  BY DEF Phase, Inv, TypeOK
<1>3. Phase(k) = IF task[k] = "none" THEN "idle"
                 ELSE IF task[k] \in {"spawned", "running"} THEN "active" ELSE "over"
  BY DEF Phase
<1>4. Phase(k)' = IF task'[k] = "none" THEN "idle"
                  ELSE IF task'[k] \in {"spawned", "running"} THEN "active" ELSE "over"
  BY DEF Phase
<1> DEFINE phases == [j \in TxKeys |-> Phase(j)]
           outcome == {j \in TxKeys : task[j] \in {"answered", "done"}}
<1>5. phases' = [phases EXCEPT ![k] = Phase(k)']
  BY <1>2
<1>6. ASSUME task[k] = "none", task'[k] = "spawned" PROVE Session!Begin(k)
  <2>1. outcome' = outcome
    BY <1>2, <1>6
  <2>2. Phase(k) = "idle" /\ Phase(k)' = "active"
    BY <1>3, <1>4, <1>6
  <2> QED
    BY <1>1, <1>5, <2>1, <2>2 DEF Session!Begin
<1>7. ASSUME task[k] \in {"spawned", "running"}, task'[k] \in {"answering", "returned"}
      PROVE  Session!Finish(k)
  <2>1. outcome' = outcome
    BY <1>2, <1>7
  <2>2. Phase(k) = "active" /\ Phase(k)' = "over"
    BY <1>3, <1>4, <1>7
  <2> QED
    BY <1>1, <1>5, <2>1, <2>2 DEF Session!Finish
<1>8. ASSUME task[k] \in {"answering", "sending"}, task'[k] \in {"answered", "done"}
      PROVE  Session!Publish(k)
  <2>1. outcome' = outcome \cup {k} /\ k \notin outcome
    BY <1>2, <1>8
  <2>2. Phase(k) = "over" /\ Phase(k)' = "over"
    BY <1>3, <1>4, <1>8
  <2>3. \A j \in TxKeys : Phase(j)' = Phase(j)
    BY <1>2, <2>2
  <2> QED
    BY <1>1, <2>1, <2>2, <2>3 DEF Session!Publish
<1>9. ASSUME <<task[k], task'[k]>> \in {<<"spawned", "running">>, <<"returned", "sending">>}
      PROVE  UNCHANGED Session!vars
  <2>1. outcome' = outcome
    BY <1>2, <1>9
  <2>2. Phase(k)' = Phase(k)
    BY <1>3, <1>4, <1>9
  <2>3. \A j \in TxKeys : Phase(j)' = Phase(j)
    BY <1>2, <2>2
  <2> QED
    BY <1>1, <2>1, <2>3 DEF Session!vars
<1> QED
  BY <1>6, <1>7, <1>8, <1>9

(***************************************************************************)
(* A send of a message that is not a request, and a read of one that is    *)
(* not a reply, leave what is in transit.                                  *)
(***************************************************************************)
LEMMA SendKeepsTransit ==
    ASSUME Inv, NEW m \in Message, m.call = NoCall, LinkSend(m), UNCHANGED <<inbound, atPeer>>
    PROVE  TransitSame
<1>1. out \in Seq(Message)
  BY DEF Inv, TypeOK
<1>2. CASE out' = out
  BY <1>2, WireSame
<1>3. CASE out' = Append(out, m)
  <2>1. \A c \in Calls : Carries(out', c) <=> Carries(out, c)
    BY <1>1, <1>3, CarryAppend, NoneAssumption
  <2> QED
    BY <2>1, TransitCarries, TransitCarriesPrime DEF TransitSame
<1> QED
  BY <1>2, <1>3, LinkSendOut DEF Inv

LEMMA ReadKeepsTransit ==
    ASSUME Inv, Reading, Head(inbound).call = NoCall
    PROVE  TransitSame
<1>1. /\ inbound \in Seq(Message) /\ inbound # <<>> /\ inbound' = Tail(inbound)
      /\ UNCHANGED <<out, atPeer>>
  BY DEF Inv, Reading, TypeOK, peerVars
<1>2. \A c \in Calls : Carries(inbound', c) <=> Carries(inbound, c)
  BY <1>1, CarryTail, NoneAssumption
<1> QED
  BY <1>1, <1>2, TransitCarries, TransitCarriesPrime DEF TransitSame

(***************************************************************************)
(* ReceiveTransaction begins the transaction.                              *)
(***************************************************************************)
LEMMA TransactionBegins ==
    ASSUME Inv, Inv', ~Detached, ReceiveTransaction
    PROVE  \E k \in TxKeys : Session!Begin(k)
<1>1. Reading /\ Head(inbound).type \in TxTypes
  BY DEF ReceiveTransaction
<1>2. PICK k \in TxKeys : k = Head(inbound).key /\ task[k] = "none" /\ Head(inbound).call = NoCall
  BY <1>1, ReadingIn DEF Inv, InboundMessage, DispatchedOnce, TxTypes, ReplyTypes
<1>3. task' = [task EXCEPT ![k] = "spawned"] /\ reply' = reply
  BY <1>2 DEF ReceiveTransaction, callVars
<1>4. task'[k] = "spawned"
  BY <1>3 DEF Inv, TypeOK
<1>5. TransitSame
  BY <1>1, <1>2, ReadKeepsTransit
<1>6. Session!Begin(k)
  BY <1>2, <1>3, <1>4, <1>5, MovesOn
<1> QED
  BY <1>6

(***************************************************************************)
(* The steps of a task.                                                    *)
(***************************************************************************)
LEMMA TaskImplements ==
    ASSUME Inv, Inv', ~Detached, NEW k \in TxKeys,
           Task(k) \/ \E kept \in SUBSET ActiveCalls(k) : HandlerEnds(k, kept)
    PROVE  Session!Finish(k) \/ Session!Publish(k) \/ UNCHANGED Session!vars
<1> USE DEF loopVars, taskVars, callVars, peerVars
<1>1. CASE TaskRejects(k) \/ TaskDescribes(k) \/ \E kept \in SUBSET ActiveCalls(k) : HandlerEnds(k, kept)
  <2>1. PICK after \in {"answering", "returned"} : task' = [task EXCEPT ![k] = after]
    BY <1>1 DEF TaskRejects, TaskDescribes, HandlerEnds
  <2>2. /\ UNCHANGED <<out, inbound, atPeer>> /\ reply' = reply
        /\ task[k] \in {"spawned", "running"}
    BY <1>1 DEF TaskRejects, TaskDescribes, HandlerEnds
  <2>3. task'[k] = after
    BY <2>1 DEF Inv, TypeOK
  <2> QED
    BY <2>1, <2>2, <2>3, WireSame, MovesOn
<1>2. CASE TaskRuns(k) \/ TaskFinishes(k)
  <2>1. PICK after : /\ task' = [task EXCEPT ![k] = after]
                     /\ <<task[k], after>> \in {<<"spawned", "running">>, <<"returned", "sending">>}
    BY <1>2 DEF TaskRuns, TaskFinishes
  <2>2. UNCHANGED <<out, inbound, atPeer>> /\ reply' = reply
    BY <1>2 DEF TaskRuns, TaskFinishes
  <2>3. task'[k] = after
    BY <2>1 DEF Inv, TypeOK
  <2> QED
    BY <2>1, <2>2, <2>3, WireSame, MovesOn
<1>3. CASE TaskSends(k)
  <2>1. PICK after \in {"answered", "done"} : task' = [task EXCEPT ![k] = after]
    BY <1>3 DEF TaskSends
  <2>2. /\ task[k] \in {"answering", "sending"} /\ LinkSend(final[k])
        /\ UNCHANGED <<inbound, atPeer>> /\ reply' = reply
    BY <1>3 DEF TaskSends
  <2>3. task'[k] = after
    BY <2>1 DEF Inv, TypeOK
  <2>4. final[k] \in Message /\ final[k].call = NoCall
    BY DEF Inv, TypeOK, WellFormed
  <2>5. TransitSame
    BY <2>2, <2>4, SendKeepsTransit
  <2> QED
    BY <2>1, <2>2, <2>3, <2>5, MovesOn
<1> QED
  BY <1>1, <1>2, <1>3 DEF Task

(***************************************************************************)
(* CallSends asks the peer: nothing of the transaction is in transit.      *)
(***************************************************************************)
LEMMA SendAsks ==
    ASSUME Inv, Inv', ~Detached, NEW c \in Calls, CallSends(c), OutAlive
    PROVE  Session!Ask(c)
<1> USE DEF Inv, ControlInv
<1>1. PICK k \in TxKeys : k = KeyOf(c)
  BY KeyOfCall
<1>2. call[c] = "send" /\ LinkSend(CallMessage("REQUEST", c)) /\ UNCHANGED <<task, reply>>
  BY DEF CallSends, taskVars
<1>3. ~InTransit(c)
  BY <1>2 DEF CallHistory
<1>4. task[k] = "running"
  BY <1>1, <1>2 DEF CallsFollowTask, ActiveCall
<1>5. pending[k] = c
  BY <1>1, <1>2, <1>4 DEF CallHistory, Live
<1>6. Asked(k) = NoCall
  BY <1>1, <1>3, <1>4, <1>5, AskedIs DEF TransitIsPending, Live
<1>7. InTransit(c)'
  <2>1. out' = Append(out, CallMessage("REQUEST", c)) /\ out \in Seq(Message)
    BY <1>2 DEF LinkSend, TypeOK
  <2>2. CallMessage("REQUEST", c) \in Message /\ CallMessage("REQUEST", c).call = c
    BY CallMessages DEF MsgTypes
  <2> QED
    BY <2>1, <2>2, CarryAppend, TransitCarriesPrime
<1>8. Asked(k)' = c
  BY <1>1, <1>7, AskedIsPrime
<1>9. ASSUME NEW j \in TxKeys, j # k PROVE Asked(j)' = Asked(j)
  <2>1. \A d \in Calls : InTransit(d)' => InTransit(d) \/ d = c
    BY <1>3, SendWire
  <2>2. \A d \in Calls : InTransit(d) => InTransit(d)'
    <3>1. out' = Append(out, CallMessage("REQUEST", c)) /\ out \in Seq(Message)
      BY <1>2 DEF LinkSend, TypeOK
    <3>2. CallMessage("REQUEST", c) \in Message
      BY CallMessages DEF MsgTypes
    <3>3. UNCHANGED <<inbound, atPeer>>
      BY DEF CallSends, peerVars
    <3> QED
      BY <3>1, <3>2, <3>3, CarryAppend, TransitCarries, TransitCarriesPrime
  <2>3. \A d \in Calls : KeyOf(d) = j => (InTransit(d)' <=> InTransit(d))
    BY <1>1, <1>9, <2>1, <2>2
  <2>4. CASE Asked(j) = NoCall
    BY <2>3, <2>4, AskedIs, AskedIsPrime, NoneAssumption
  <2>5. CASE Asked(j) # NoCall
    <3>1. PICK d \in Calls : d = Asked(j) /\ KeyOf(d) = j /\ InTransit(d)
      BY <2>5, AskedIs
    <3> QED
      BY <2>3, <3>1, AskedIsPrime
  <2> QED
    BY <2>4, <2>5
<1>10. \A j \in TxKeys : Phase(j)' = Phase(j)
  BY <1>2 DEF Phase
<1>11. Phase(k) = "active"
  BY <1>4 DEF Phase
<1> QED
  BY <1>1, <1>2, <1>6, <1>8, <1>9, <1>10, <1>11 DEF Session!Ask

(***************************************************************************)
(* A reply that route_response hands to a call answers what that call has  *)
(* asked; any other reply is lost.                                         *)
(***************************************************************************)
LEMMA ReplyImplements ==
    ASSUME Inv, Inv', ~Detached, NoNewTransit, ReceiveReply
    PROVE  \/ \E c \in Calls : Session!Answer(c)
           \/ \E lost \in SUBSET TxKeys : Session!Lose(lost)
<1> USE DEF Inv, ControlInv
<1>1. Reading /\ Head(inbound).type \in ReplyTypes /\ task' = task
  BY DEF ReceiveReply, taskVars
<1>2. CASE reply' = reply
  BY <1>1, <1>2, SessionLoses
<1>3. CASE reply' # reply
  <2>1. PICK m \in Message : m = Head(inbound)
    BY <1>1, ReadingIn
  <2>2. PICK a \in Calls, k \in TxKeys : a = m.call /\ k = m.key /\ k = KeyOf(a)
    BY <1>1, <2>1, ReadingIn, KeyOfCall DEF InboundMessage
  <2>3. PICK c \in Calls : /\ c = pending[k] /\ call[c] \in {"send", "wait"}
                           /\ reply' = [reply EXCEPT ![c] = m]
    BY <1>3, <2>1, <2>2 DEF ReceiveReply, route_response, RouteKey, TypeOK
  <2>4. InTransit(a) /\ ~InTransit(a)'
    <3>1. /\ inbound \in Seq(Message) /\ inbound # <<>> /\ inbound' = Tail(inbound)
          /\ UNCHANGED <<out, atPeer>>
      BY <1>1 DEF Reading, TypeOK, peerVars
    <3>2. Carries(inbound, a) /\ ~Carries(inbound', a)
      BY <2>1, <2>2, <3>1, CarryTail, NoneAssumption DEF OneCopy
    <3> QED
      BY <2>2, <3>1, <3>2, TransitCarries, TransitCarriesPrime DEF OneCopy
  <2>5. KeyOf(c) = k
    BY <2>3, NoneAssumption DEF PendingEntries
  <2>6. task[k] = "running"
    BY <2>3, <2>5 DEF CallsFollowTask, ActiveCall
  <2>7. a = c
    BY <2>2, <2>3, <2>4, <2>6 DEF TransitIsPending, Live
  <2>8. Asked(k) = c
    BY <2>4, <2>5, <2>7, AskedIs
  <2>9. Asked(k)' = NoCall
    <3>1. Asked(k)' \in {c, NoCall}
      BY <2>8, AskedMoves
    <3>2. Asked(k)' # c
      BY <2>4, <2>7, AskedIsPrime, NoneAssumption
    <3> QED
      BY <3>1, <3>2
  <2>10. ASSUME NEW j \in TxKeys, j # k PROVE Asked(j)' = Asked(j)
    <3>1. ASSUME NEW d \in Calls, KeyOf(d) = j, InTransit(d) PROVE InTransit(d)'
      <4>1. /\ inbound \in Seq(Message) /\ inbound # <<>> /\ inbound' = Tail(inbound)
            /\ UNCHANGED <<out, atPeer>>
        BY <1>1 DEF Reading, TypeOK, peerVars
      <4>2. Head(inbound).call # d
        BY <2>1, <2>2, <2>10, <3>1
      <4>3. Carries(inbound, d) => Carries(inbound', d)
        BY <4>1, <4>2, CarryTail
      <4> QED
        BY <3>1, <4>1, <4>3, TransitCarries, TransitCarriesPrime
    <3> QED
      BY <3>1, AskedMoves
  <2>11. reply[c] = NoMsg
    BY <2>3, <2>5 DEF CallHistory
  <2>12. m # NoMsg
    BY <1>1, <2>1, NoMsgMessage DEF ReplyTypes
  <2>13. \A d \in Calls : reply'[d] = IF d = c THEN m ELSE reply[d]
    BY <2>3 DEF TypeOK
  <2> DEFINE got == {d \in Calls : reply[d] # NoMsg}
  <2>14. c \notin got /\ got' = got \cup {c}
    BY <2>11, <2>12, <2>13
  <2>15. \A j \in TxKeys : Phase(j)' = Phase(j)
    BY <1>1 DEF Phase
  <2>16. Phase(k) = "active"
    BY <2>6 DEF Phase
  <2>17. Session!Answer(c)
    BY <1>1, <2>5, <2>8, <2>9, <2>10, <2>14, <2>15, <2>16 DEF Session!Answer
  <2> QED
    BY <2>17
<1> QED
  BY <1>2, <1>3

(***************************************************************************)
(* Every step of the connection is a step of the session or none.          *)
(***************************************************************************)
LEMMA SessionNext ==
    ASSUME Inv, Inv', ~Detached, [Next]_vars
    PROVE  Session!Next \/ UNCHANGED Session!vars
<1> USE DEF loopVars, taskVars, callVars, peerVars
<1>1. TypeOK /\ WellFormed /\ OneCopy /\ ControlInv
  BY DEF Inv
<1>2. ASSUME NoNewTransit, UNCHANGED <<task, reply>> PROVE Session!Next
  BY <1>2, SessionLoses DEF Session!Next
<1>3. CASE Loop
  <2>1. NoNewTransit
    BY <1>1, <1>3, LoopWire
  <2>2. CASE ReceiveTransaction
    BY <2>2, TransactionBegins DEF Session!Next
  <2>3. CASE ReceiveReply
    BY <2>1, <2>3, ReplyImplements DEF Session!Next
  <2>4. CASE ~ReceiveTransaction /\ ~ReceiveReply
    <3>1. UNCHANGED <<task, reply>>
      BY <1>3, <2>4 DEF Loop, Register, ReceiveRegistered, ReceiveReady, ReceiveKeepalive,
                        ReceiveInvalid, EchoKeepalive, RejectAndReturn, StreamEnded, LoopReturns
    <3> QED
      BY <1>2, <2>1, <3>1
  <2> QED
    BY <2>2, <2>3, <2>4
<1>4. ASSUME NEW k \in TxKeys, Task(k) PROVE Session!Next \/ UNCHANGED Session!vars
  BY <1>4, TaskImplements DEF Session!Next
<1>5. ASSUME NEW c \in Calls, Request(c) PROVE Session!Next
  <2>1. CASE CallSends(c) /\ OutAlive
    BY <2>1, SendAsks DEF Session!Next
  <2>2. CASE CallSends(c) /\ ~OutAlive
    <3>1. ~InTransit(c)
      BY <1>1, <2>2 DEF CallSends, ControlInv, CallHistory
    <3>2. NoNewTransit
      BY <1>1, <2>2, <3>1, SendWire
    <3>3. UNCHANGED <<task, reply>>
      BY <2>2 DEF CallSends
    <3> QED
      BY <1>2, <3>2, <3>3
  <2>3. CASE ~CallSends(c)
    <3>1. UNCHANGED <<task, reply>>
      BY <1>5, <2>3 DEF Request, CallRegisters, CallRefused, CallReturns, CallClosed
    <3> QED
      BY <1>1, <1>2, <1>5, <2>3, <3>1, RequestWire
  <2> QED
    BY <2>1, <2>2, <2>3
<1>6. CASE Chaincode
  <2>1. ASSUME NEW k \in TxKeys, \E kept \in SUBSET ActiveCalls(k) : HandlerEnds(k, kept)
        PROVE  Session!Next \/ UNCHANGED Session!vars
    BY <2>1, TaskImplements DEF Session!Next
  <2>2. CASE \/ \E k \in TxKeys, e \in Events : SetEvent(k, e)
             \/ \E c \in Calls : CallStarts(c) \/ CallCancelled(c)
    <3>1. UNCHANGED <<task, reply>>
      BY <2>2 DEF SetEvent, CallStarts, CallCancelled
    <3> QED
      BY <1>1, <1>2, <1>6, <3>1, ChaincodeWire
  <2> QED
    BY <1>6, <2>1, <2>2 DEF Chaincode
<1>7. CASE Peer
  <2>1. UNCHANGED <<task, reply>>
    BY <1>7 DEF Peer, PeerReading, PeerReadsRegister, PeerReadsRequest, PeerReadsEcho,
                PeerReadsVerdict, PeerReads, PeerShakesHands, PeerSends, PeerPings, PeerCloses,
                StreamBreaks, PeerStarts, PeerAnswers, PeerStrays
  <2> QED
    BY <1>1, <1>2, <1>7, <2>1, PeerWire
<1>8. CASE UNCHANGED vars
  <2>1. UNCHANGED <<out, inbound, atPeer, task, reply>>
    BY <1>8 DEF vars
  <2> QED
    BY <1>2, <2>1, WireSame DEF TransitSame, NoNewTransit
<1> QED
  BY <1>3, <1>4, <1>5, <1>6, <1>7, <1>8 DEF Next, Shim

(***************************************************************************)
(* The connection implements TxSession if the chaincode leaves no call     *)
(* behind: route_response, the gate, the pending map and the tasks of      *)
(* spawn_transaction together amount to one outstanding request per active *)
(* transaction, answered to its call or lost, and one verdict after it.    *)
(***************************************************************************)
THEOREM SessionRefinement == ASSUME ~Detached PROVE Spec => ImplementsSession
<1>1. Init => Session!Init
  <2> SUFFICES ASSUME Init PROVE Session!Init
    OBVIOUS
  <2>1. inbound = <<>> /\ out = <<>> /\ atPeer = {}
    BY DEF Init
  <2>2. \A c \in Calls : ~InTransit(c)
    BY <2>1, CarryEmpty, TransitCarries
  <2>3. \A k \in TxKeys : Asked(k) = NoCall
    BY <2>2 DEF Asked, CallsOf
  <2>4. \A k \in TxKeys : task[k] = "none" /\ Phase(k) = "idle"
    BY DEF Init, Phase
  <2>5. \A c \in Calls : reply[c] = NoMsg
    BY DEF Init
  <2> QED
    BY <2>3, <2>4, <2>5 DEF Session!Init
<1>2. Inv /\ Inv' /\ [Next]_vars => [Session!Next]_(Session!vars)
  BY SessionNext
<1> QED
  BY <1>1, <1>2, Invariance, PTL DEF Spec, ImplementsSession, Session!Spec

-----------------------------------------------------------------------------
(* Nothing is lost *)

(***************************************************************************)
(* What the loop and a finishing task are about to send.                   *)
(***************************************************************************)
ToSend ==
    /\ loop = "echo" => held.type = "KEEPALIVE"
    /\ \A k \in TxKeys : task[k] \in {"answering", "sending"} =>
          final[k].type \in {"COMPLETED", "ERROR"}

PInv == ToSend /\ NoLostWakeup /\ NoTxLost /\ PingsAccounted

(***************************************************************************)
(* A connection that serves has served, and a broken stream stays broken.  *)
(***************************************************************************)
ServesOn == (Serving' => Serving) /\ (stream' # "broken" => stream # "broken")

LEMMA ServingBefore == ASSUME [Next]_vars PROVE ServesOn
<1> USE DEF loopVars, taskVars, callVars, peerVars, ServesOn, Serving
<1>1. CASE Loop
  BY <1>1 DEF Loop, Register, Reading, ReceiveRegistered, ReceiveReady, ReceiveKeepalive,
              ReceiveTransaction, ReceiveReply, ReceiveInvalid, EchoKeepalive,
              RejectAndReturn, StreamEnded, LoopReturns
<1>2. ASSUME NEW k \in TxKeys, Task(k) PROVE ServesOn
  BY <1>2 DEF Task, TaskRejects, TaskDescribes, TaskRuns, TaskFinishes, TaskSends
<1>3. ASSUME NEW c \in Calls, Request(c) PROVE ServesOn
  BY <1>3 DEF Request, CallRegisters, CallRefused, CallSends, CallReturns, CallClosed
<1>4. CASE Chaincode
  BY <1>4 DEF Chaincode, SetEvent, HandlerEnds, CallStarts, CallCancelled
<1>5. CASE Peer
  BY <1>5 DEF Peer, PeerReading, PeerReadsRegister, PeerReadsRequest, PeerReadsEcho,
              PeerReadsVerdict, PeerReads, PeerShakesHands, PeerSends, PeerPings, PeerCloses,
              StreamBreaks, PeerStarts, PeerAnswers, PeerStrays
<1>6. CASE UNCHANGED vars
  BY <1>6 DEF vars
<1> QED
  BY <1>1, <1>2, <1>3, <1>4, <1>5, <1>6 DEF Next, Shim

-----------------------------------------------------------------------------
(* Wake-ups *)

(***************************************************************************)
(* c waits for a reply that is to come through its entry.                  *)
(***************************************************************************)
Depends(c) == call[c] = "wait" /\ reply[c] = NoMsg /\ pending[KeyOf(c)] = c

LEMMA WakeupStays ==
    ASSUME NoLostWakeup, ServesOn,
           \A c \in Calls : Serving' /\ Depends(c)' =>
              InTransit(c)' \/ (Depends(c) /\ (InTransit(c) => InTransit(c)'))
    PROVE  NoLostWakeup'
  BY DEF NoLostWakeup, Depends, ServesOn

LEMMA WakeupQuiet ==
    ASSUME NoLostWakeup, ServesOn, TransitSame, UNCHANGED <<call, reply, pending>>
    PROVE  NoLostWakeup'
  BY WakeupStays DEF Depends, TransitSame

LEMMA WakeupNotServing == ASSUME ~Serving' PROVE NoLostWakeup'
  BY DEF NoLostWakeup

LEMMA ReplyWakeup ==
    ASSUME Inv, NoLostWakeup, ServesOn, ReceiveReply
    PROVE  NoLostWakeup'
<1> USE DEF Inv, ControlInv
<1>1. Reading /\ Head(inbound).type \in ReplyTypes /\ call' = call
  BY DEF ReceiveReply
<1>2. PICK m \in Message : m = Head(inbound)
  BY <1>1, ReadingIn
<1>3. PICK a \in Calls, k \in TxKeys : a = m.call /\ k = m.key /\ k = KeyOf(a)
  BY <1>1, <1>2, ReadingIn, KeyOfCall DEF InboundMessage
<1>4. /\ pending' = [pending EXCEPT ![k] = NoCall]
      /\ reply' = reply \/ (pending[k] \in Calls /\ reply' = [reply EXCEPT ![pending[k]] = m])
  BY <1>2, <1>3 DEF ReceiveReply, route_response, RouteKey, drop_pending, TypeOK
<1>5. /\ inbound \in Seq(Message) /\ inbound # <<>> /\ inbound' = Tail(inbound)
      /\ UNCHANGED <<out, atPeer>>
  BY <1>1 DEF Reading, TypeOK, peerVars
<1>6. ASSUME NEW c \in Calls, Depends(c)' PROVE Depends(c) /\ (InTransit(c) => InTransit(c)')
  <2>1. KeyOf(c) \in TxKeys /\ pending \in [TxKeys -> Calls \cup {NoCall}]
    BY KeyOfCall DEF TypeOK
  <2>2. KeyOf(c) # k /\ pending[KeyOf(c)] = c
    BY <1>4, <1>6, <2>1, NoneAssumption DEF Depends
  <2>3. c # pending[k]
    BY <2>2, NoneAssumption DEF PendingEntries
  <2>4. reply[c] = NoMsg
    BY <1>4, <1>6, <2>3 DEF Depends, TypeOK
  <2>5. Head(inbound).call # c
    BY <1>2, <1>3, <2>2
  <2>6. Carries(inbound, c) => Carries(inbound', c)
    BY <1>5, <2>5, CarryTail
  <2> QED
    BY <1>1, <1>5, <1>6, <2>2, <2>4, <2>6, TransitCarries, TransitCarriesPrime DEF Depends
<1> QED
  BY <1>6, WakeupStays

LEMMA LoopWakeup ==
    ASSUME Inv, NoLostWakeup, ServesOn, Loop
    PROVE  NoLostWakeup'
<1> USE DEF loopVars, taskVars, callVars, peerVars
<1>1. TypeOK /\ WellFormed
  BY DEF Inv
<1>2. ASSUME Reading, Head(inbound).type \notin ReplyTypes, UNCHANGED <<call, reply, pending>>
      PROVE  NoLostWakeup'
  <2>1. Head(inbound).call = NoCall
    BY <1>1, <1>2, ReadingIn DEF InboundMessage
  <2> QED
    BY <1>2, <2>1, ReadKeepsTransit, WakeupQuiet
<1>3. CASE ReceiveRegistered \/ ReceiveReady \/ ReceiveKeepalive \/ ReceiveTransaction
  BY <1>2, <1>3 DEF ReceiveRegistered, ReceiveReady, ReceiveKeepalive, ReceiveTransaction,
                    ReplyTypes, TxTypes
<1>4. CASE ReceiveReply
  BY <1>4, ReplyWakeup
<1>5. CASE ReceiveInvalid \/ RejectAndReturn \/ StreamEnded
  BY <1>5, WakeupNotServing DEF ReceiveInvalid, RejectAndReturn, StreamEnded, LoopReturns, Serving
<1>6. CASE Register
  <2>1. PICK m \in Message : m.call = NoCall /\ LinkSend(m)
    BY <1>6, NewMessage DEF Register, MsgTypes
  <2> QED
    BY <1>6, <2>1, SendKeepsTransit, WakeupQuiet DEF Register
<1>7. CASE EchoKeepalive
  <2>1. held \in Message /\ held.call = NoCall /\ LinkSend(held)
    BY <1>1, <1>7 DEF EchoKeepalive, WellFormed, TypeOK
  <2> QED
    BY <1>7, <2>1, SendKeepsTransit, WakeupQuiet DEF EchoKeepalive
<1> QED
  BY <1>3, <1>4, <1>5, <1>6, <1>7 DEF Loop

LEMMA TaskWakeup ==
    ASSUME Inv, NoLostWakeup, ServesOn, NEW k \in TxKeys, Task(k)
    PROVE  NoLostWakeup'
<1> USE DEF loopVars, taskVars, callVars, peerVars
<1>1. TypeOK /\ WellFormed
  BY DEF Inv
<1>2. CASE TaskSends(k)
  <2>1. final[k] \in Message /\ final[k].call = NoCall /\ LinkSend(final[k])
    BY <1>1, <1>2 DEF TaskSends, WellFormed, TypeOK
  <2> QED
    BY <1>2, <2>1, SendKeepsTransit, WakeupQuiet DEF TaskSends
<1>3. CASE TaskFinishes(k)
  <2>1. /\ pending' = [pending EXCEPT ![k] = NoCall]
        /\ UNCHANGED <<out, inbound, atPeer, call, reply>>
    BY <1>3 DEF TaskFinishes, drop_pending
  <2>2. ASSUME NEW c \in Calls, Depends(c)' PROVE Depends(c)
    BY <1>1, <2>1, <2>2, KeyOfCall, NoneAssumption DEF Depends, TypeOK
  <2> QED
    BY <2>1, <2>2, WireSame, WakeupStays DEF TransitSame
<1>4. CASE TaskRejects(k) \/ TaskDescribes(k) \/ TaskRuns(k)
  BY <1>4, WireSame, WakeupQuiet DEF TaskRejects, TaskDescribes, TaskRuns
<1> QED
  BY <1>2, <1>3, <1>4 DEF Task

LEMMA RequestWakeup ==
    ASSUME Inv, NoLostWakeup, ServesOn, NEW c \in Calls, Request(c)
    PROVE  NoLostWakeup'
<1> USE DEF loopVars, taskVars, callVars, peerVars
<1>1. /\ call \in [Calls -> CallState] /\ pending \in [TxKeys -> Calls \cup {NoCall}]
      /\ out \in Seq(Message) /\ TypeOK
  BY DEF Inv, TypeOK
<1>2. CASE CallSends(c) /\ OutAlive
  <2>1. CallMessage("REQUEST", c) \in Message /\ CallMessage("REQUEST", c).call = c
    BY CallMessages DEF MsgTypes
  <2>2. PICK m \in Message : m.call = c /\ out' = Append(out, m)
    BY <1>2, <2>1 DEF CallSends, LinkSend
  <2>3. \A d : Carries(out', d) <=> Carries(out, d) \/ d = c
    BY <1>1, <2>2, CarryAppend
  <2>4. UNCHANGED <<inbound, atPeer, reply, pending>> /\ call' = [call EXCEPT ![c] = "wait"]
    BY <1>2 DEF CallSends
  <2>5. InTransit(c)' /\ \A d \in Calls : InTransit(d) => InTransit(d)'
    BY <2>3, <2>4, TransitCarries, TransitCarriesPrime
  <2>6. \A d \in Calls : d # c => call'[d] = call[d]
    BY <1>1, <2>4
  <2> QED
    BY <2>4, <2>5, <2>6, WakeupStays DEF Depends
<1>3. CASE CallSends(c) /\ ~OutAlive
  BY <1>3, WakeupNotServing DEF CallSends, OutAlive, Serving
<1>4. CASE CallRegisters(c)
  <2>1. /\ call' = [call EXCEPT ![c] = "send"] /\ pending' = [pending EXCEPT ![KeyOf(c)] = c]
        /\ UNCHANGED <<out, inbound, atPeer, reply>>
    BY <1>4 DEF CallRegisters
  <2>2. ASSUME NEW d \in Calls, Depends(d)' PROVE Depends(d)
    BY <1>1, <2>1, <2>2, KeyOfCall DEF Depends
  <2> QED
    BY <2>1, <2>2, WireSame, WakeupStays DEF TransitSame
<1>5. CASE CallRefused(c) \/ CallReturns(c) \/ CallClosed(c)
  <2>1. PICK x : /\ x # "wait" /\ call' = [call EXCEPT ![c] = x]
                 /\ UNCHANGED <<out, inbound, atPeer, reply, pending>>
    BY <1>5 DEF CallRefused, CallReturns, CallClosed
  <2>2. ASSUME NEW d \in Calls, Depends(d)' PROVE Depends(d)
    BY <1>1, <2>1, <2>2 DEF Depends
  <2> QED
    BY <2>1, <2>2, WireSame, WakeupStays DEF TransitSame
<1> QED
  BY <1>2, <1>3, <1>4, <1>5 DEF Request

LEMMA ChaincodeWakeup ==
    ASSUME Inv, NoLostWakeup, ServesOn, Chaincode
    PROVE  NoLostWakeup'
<1> USE DEF loopVars, taskVars, callVars, peerVars
<1>1. call \in [Calls -> CallState]
  BY DEF Inv, TypeOK
<1>2. ASSUME NEW k \in TxKeys, NEW e, SetEvent(k, e) PROVE NoLostWakeup'
  BY <1>2, WireSame, WakeupQuiet DEF SetEvent
<1>3. ASSUME UNCHANGED <<out, inbound, atPeer, reply, pending>>,
             \A d \in Calls : call'[d] = "wait" => call[d] = "wait"
      PROVE  NoLostWakeup'
  BY <1>3, WireSame, WakeupStays DEF TransitSame, Depends
<1>4. ASSUME NEW k \in TxKeys, NEW kept, HandlerEnds(k, kept) PROVE NoLostWakeup'
  BY <1>3, <1>4 DEF HandlerEnds
<1>5. ASSUME NEW c \in Calls, CallStarts(c) \/ CallCancelled(c) PROVE NoLostWakeup'
  BY <1>1, <1>3, <1>5 DEF CallStarts, CallCancelled
<1> QED
  BY <1>2, <1>4, <1>5 DEF Chaincode

LEMMA PeerWakeup ==
    ASSUME Inv, NoLostWakeup, ServesOn, Peer
    PROVE  NoLostWakeup'
<1> USE DEF loopVars, taskVars, callVars, peerVars
<1>1. TypeOK /\ WellFormed /\ out \in Seq(Message) /\ inbound \in Seq(Message)
  BY DEF Inv, TypeOK
<1>2. ASSUME UNCHANGED <<call, reply, pending>>,
             Serving' => \A c \in Calls : InTransit(c) => InTransit(c)'
      PROVE  NoLostWakeup'
  BY <1>2, WakeupStays DEF Depends
<1>3. CASE PeerReading
  <2>1. PeerReads
    BY <1>3 DEF PeerReading, PeerReadsRegister, PeerReadsRequest, PeerReadsEcho, PeerReadsVerdict
  <2>2. out # <<>> /\ out' = Tail(out) /\ UNCHANGED <<call, reply, pending, inbound>>
    BY <2>1 DEF PeerReads
  <2>3. OutboundMessage(Head(out))
    BY <1>1, <2>1, PeerReadsOut
  <2>4. atPeer \subseteq atPeer' /\ (Head(out).call # NoCall => Head(out).call \in atPeer')
    BY <1>3, <2>3 DEF PeerReading, PeerReadsRegister, PeerReadsRequest, PeerReadsEcho,
                      PeerReadsVerdict, OutboundMessage
  <2>5. \A c \in Calls : Carries(out, c) => Carries(out', c) \/ c \in atPeer'
    BY <1>1, <2>2, <2>4, CarryTail, NoneAssumption
  <2> QED
    BY <1>2, <2>2, <2>4, <2>5, TransitCarries, TransitCarriesPrime
<1>4. ASSUME NEW m \in Message, PeerSends(m),
             \A c \in atPeer : c \in atPeer' \/ c = m.call
      PROVE  NoLostWakeup'
  <2>1. UNCHANGED <<call, reply, pending, out>>
    BY <1>4 DEF PeerSends
  <2>2. ASSUME Serving', NEW c \in Calls, InTransit(c) PROVE InTransit(c)'
    <3>1. inbound' = Append(inbound, m)
      BY <1>4, <2>2 DEF PeerSends, Serving
    <3>2. Carries(inbound', c) <=> Carries(inbound, c) \/ m.call = c
      BY <1>1, <3>1, CarryAppend
    <3> QED
      BY <1>4, <2>1, <2>2, <3>2, TransitCarries, TransitCarriesPrime
  <2> QED
    BY <1>2, <2>1, <2>2
<1>5. CASE PeerShakesHands \/ PeerPings
  BY <1>4, <1>5, PeerMessages DEF PeerShakesHands, PeerPings, StrayTypes
<1>6. ASSUME NEW k \in TxKeys, NEW type \in TxTypes, PeerStarts(k, type) PROVE NoLostWakeup'
  BY <1>4, <1>6, PeerMessages DEF PeerStarts
<1>7. ASSUME NEW c \in Calls, NEW type \in ReplyTypes, PeerAnswers(c, type) PROVE NoLostWakeup'
  <2>1. CallMessage(type, c) \in Message /\ CallMessage(type, c).call = c
    BY CallMessages DEF MsgTypes, ReplyTypes
  <2> QED
    BY <1>4, <1>7, <2>1 DEF PeerAnswers
<1>8. ASSUME NEW type \in StrayTypes, NEW k \in TxKeys \cup {NoKey}, PeerStrays(type, k)
      PROVE NoLostWakeup'
  BY <1>4, <1>8, PeerMessages DEF PeerStrays
<1>9. CASE PeerCloses
  BY <1>9, WireSame, WakeupQuiet DEF PeerCloses
<1>10. CASE StreamBreaks
  BY <1>10, WakeupNotServing DEF StreamBreaks, Serving
<1> QED
  BY <1>3, <1>5, <1>6, <1>7, <1>8, <1>9, <1>10 DEF Peer

-----------------------------------------------------------------------------
(* Transactions *)

(***************************************************************************)
(* Steps that start no transaction and end no task.                        *)
(***************************************************************************)
LEMMA TxStays ==
    ASSUME NoTxLost, ServesOn, started' = started,
           \A k \in TxKeys :
              /\ task'[k] = "none" => task[k] = "none"
              /\ task'[k] = "none" /\ Serving' /\ Unread(k) => Unread(k)'
              /\ task'[k] \in {"answered", "done"} => task[k] = task'[k]
              /\ stream' # "broken" /\ Answered(k) => Answered(k)',
           started \subseteq TxKeys
    PROVE  NoTxLost'
  BY DEF NoTxLost, ServesOn

LEMMA AnsweredGrows ==
    ASSUME TypeOK, NEW m \in Message, LinkSend(m), verdicts' = verdicts, NEW k
    PROVE  /\ Answered(k) => Answered(k)'
           /\ m.type \in {"COMPLETED", "ERROR"} /\ m.key = k /\ OutAlive => Answered(k)'
<1>1. CASE OutAlive
  <2>1. out \in Seq(Message) /\ out' = Append(out, m)
    BY <1>1 DEF TypeOK, LinkSend
  <2>2. /\ Len(out') = Len(out) + 1 /\ Len(out) \in Nat
        /\ \A i \in 1 .. Len(out') : out'[i] = IF i <= Len(out) THEN out[i] ELSE m
    BY <2>1, AppendElements
  <2>3. \A i \in 1 .. Len(out) : i \in 1 .. Len(out') /\ out'[i] = out[i]
    BY <2>2
  <2>4. Len(out') \in 1 .. Len(out') /\ out'[Len(out')] = m
    BY <2>2
  <2> QED
    BY <2>3, <2>4 DEF Answered
<1>2. CASE ~OutAlive
  BY <1>2 DEF LinkSend, Answered
<1> QED
  BY <1>1, <1>2

LEMMA UnreadGrows ==
    ASSUME TypeOK, NEW m \in Message, inbound' = Append(inbound, m), NEW k
    PROVE  /\ Unread(k) => Unread(k)'
           /\ m.type \in TxTypes /\ m.key = k => Unread(k)'
<1>1. inbound \in Seq(Message)
  BY DEF TypeOK
<1>2. /\ Len(inbound') = Len(inbound) + 1 /\ Len(inbound) \in Nat
      /\ \A i \in 1 .. Len(inbound') : inbound'[i] = IF i <= Len(inbound) THEN inbound[i] ELSE m
  BY <1>1, AppendElements
<1>3. \A i \in 1 .. Len(inbound) : i \in 1 .. Len(inbound') /\ inbound'[i] = inbound[i]
  BY <1>2
<1>4. Len(inbound') \in 1 .. Len(inbound') /\ inbound'[Len(inbound')] = m
  BY <1>2
<1> QED
  BY <1>3, <1>4 DEF Unread

LEMMA UnreadReading ==
    ASSUME TypeOK, Reading, NEW k, ~(Head(inbound).type \in TxTypes /\ Head(inbound).key = k)
    PROVE  Unread(k) => Unread(k)'
<1>1. inbound \in Seq(Message) /\ inbound # <<>> /\ inbound' = Tail(inbound)
  BY DEF TypeOK, Reading
<1>2. /\ Head(inbound) = inbound[1] /\ Len(inbound) \in Nat /\ Len(inbound') = Len(inbound) - 1
      /\ \A i \in 1 .. Len(inbound') : inbound'[i] = inbound[i + 1]
  BY <1>1, TailElements
<1>3. \A i \in 1 .. Len(inbound) : i # 1 => i - 1 \in 1 .. Len(inbound') /\ inbound'[i - 1] = inbound[i]
  BY <1>2
<1> QED
  BY <1>2, <1>3 DEF Unread

LEMMA LoopTx ==
    ASSUME Inv, PInv, ServesOn, Loop
    PROVE  NoTxLost'
<1> USE DEF loopVars, taskVars, callVars, peerVars
<1>1. /\ TypeOK /\ WellFormed /\ NoTxLost /\ started \subseteq TxKeys /\ held \in Message
      /\ task \in [TxKeys -> TaskState]
  BY DEF Inv, PInv, TypeOK
<1>2. ASSUME Reading, Head(inbound).type \notin TxTypes, task' = task PROVE NoTxLost'
  <2>1. UNCHANGED <<out, verdicts, started>>
    BY <1>2 DEF Reading
  <2>2. \A k \in TxKeys : Unread(k) => Unread(k)'
    BY <1>1, <1>2, UnreadReading
  <2>3. \A k \in TxKeys : Answered(k) => Answered(k)'
    BY <2>1 DEF Answered
  <2> QED
    BY <1>1, <1>2, <2>1, <2>2, <2>3, TxStays
<1>3. CASE ReceiveRegistered \/ ReceiveReady \/ ReceiveKeepalive \/ ReceiveReply
  BY <1>2, <1>3 DEF ReceiveRegistered, ReceiveReady, ReceiveKeepalive, ReceiveReply,
                    ReplyTypes, TxTypes
<1>4. CASE ReceiveTransaction
  <2>1. Reading /\ task' = [task EXCEPT ![Head(inbound).key] = "spawned"]
    BY <1>4 DEF ReceiveTransaction
  <2>2. UNCHANGED <<out, verdicts, started>>
    BY <2>1 DEF Reading
  <2>3. \A k \in TxKeys : task'[k] = IF k = Head(inbound).key THEN "spawned" ELSE task[k]
    BY <1>1, <2>1
  <2>4. \A k \in TxKeys : task'[k] = "none" /\ Unread(k) => Unread(k)'
    BY <1>1, <2>1, <2>3, UnreadReading
  <2>5. \A k \in TxKeys : Answered(k) => Answered(k)'
    BY <2>2 DEF Answered
  <2> QED
    BY <1>1, <2>2, <2>3, <2>4, <2>5, TxStays
<1>5. CASE ReceiveInvalid
  <2>1. UNCHANGED <<out, verdicts, started, task>> /\ ~Serving'
    BY <1>5 DEF ReceiveInvalid, Reading, Serving
  <2>2. \A k \in TxKeys : Answered(k) => Answered(k)'
    BY <2>1 DEF Answered
  <2> QED
    BY <1>1, <2>1, <2>2, TxStays
<1>6. CASE Register \/ EchoKeepalive \/ RejectAndReturn
  <2>1. PICK m \in Message : LinkSend(m)
    BY <1>1, <1>6, NewMessage DEF Register, EchoKeepalive, RejectAndReturn, MsgTypes
  <2>2. /\ UNCHANGED <<verdicts, started, task>>
        /\ Serving' => inbound' = inbound
    BY <1>6 DEF Register, EchoKeepalive, RejectAndReturn, LoopReturns, Serving
  <2>3. \A k \in TxKeys : Answered(k) => Answered(k)'
    BY <1>1, <2>1, <2>2, AnsweredGrows
  <2>4. \A k \in TxKeys : Serving' /\ Unread(k) => Unread(k)'
    BY <2>2 DEF Unread
  <2> QED
    BY <1>1, <2>2, <2>3, <2>4, TxStays
<1>7. CASE StreamEnded
  <2>1. UNCHANGED <<out, verdicts, started, task>> /\ ~Serving'
    BY <1>7 DEF StreamEnded, LoopReturns, Serving
  <2>2. \A k \in TxKeys : Answered(k) => Answered(k)'
    BY <2>1 DEF Answered
  <2> QED
    BY <1>1, <2>1, <2>2, TxStays
<1> QED
  BY <1>3, <1>4, <1>5, <1>6, <1>7 DEF Loop

(***************************************************************************)
(* Steps of tasks and calls that send no verdict.                          *)
(***************************************************************************)
LEMMA QuietTx ==
    ASSUME TypeOK, NoTxLost, ServesOn, UNCHANGED <<inbound, out, verdicts, started>>,
           \A k \in TxKeys : task'[k] \in {"none", "answered", "done"} => task[k] = task'[k]
    PROVE  NoTxLost'
<1>1. \A k \in TxKeys : (Unread(k) => Unread(k)') /\ (Answered(k) => Answered(k)')
  BY DEF Unread, Answered
<1>2. started \subseteq TxKeys
  BY DEF TypeOK
<1> QED
  BY <1>1, <1>2, TxStays

LEMMA TaskTx ==
    ASSUME Inv, SInv, PInv, ServesOn, NEW k \in TxKeys, Task(k)
    PROVE  NoTxLost'
<1> USE DEF loopVars, taskVars, callVars, peerVars
<1>1. /\ TypeOK /\ NoTxLost /\ started \subseteq TxKeys /\ task \in [TxKeys -> TaskState]
  BY DEF Inv, PInv, TypeOK
<1>2. CASE TaskSends(k)
  <2>1. /\ final[k] \in Message /\ LinkSend(final[k]) /\ task[k] \in {"answering", "sending"}
        /\ UNCHANGED <<inbound, verdicts, started, stream>>
        /\ task' = [task EXCEPT ![k] = IF @ = "sending" THEN "done" ELSE "answered"]
    BY <1>1, <1>2 DEF TaskSends, TypeOK
  <2>2. final[k].key = k /\ final[k].type \in {"COMPLETED", "ERROR"}
    BY <2>1 DEF SInv, Keys, PInv, ToSend
  <2>3. \A j \in TxKeys : Answered(j) => Answered(j)'
    BY <1>1, <2>1, AnsweredGrows
  <2>4. stream # "broken" => Answered(k)'
    BY <1>1, <2>1, <2>2, AnsweredGrows DEF OutAlive
  <2>5. /\ \A j \in TxKeys : j # k => task'[j] = task[j]
        /\ task'[k] \in {"answered", "done"}
    BY <1>1, <2>1
  <2>6. \A j \in TxKeys : Unread(j)' <=> Unread(j)
    BY <2>1 DEF Unread
  <2> QED
    BY <1>1, <2>1, <2>3, <2>4, <2>5, <2>6 DEF NoTxLost, ServesOn
<1>3. CASE ~TaskSends(k)
  <2>1. PICK x : /\ x \notin {"none", "answered", "done"} /\ task' = [task EXCEPT ![k] = x]
                 /\ UNCHANGED <<inbound, out, verdicts, started>>
    BY <1>3 DEF Task, TaskRejects, TaskDescribes, TaskRuns, TaskFinishes
  <2>2. \A j \in TxKeys : task'[j] \in {"none", "answered", "done"} => task[j] = task'[j]
    BY <1>1, <2>1
  <2> QED
    BY <1>1, <2>1, <2>2, QuietTx
<1> QED
  BY <1>2, <1>3

LEMMA RequestTx ==
    ASSUME Inv, PInv, ServesOn, NEW c \in Calls, Request(c)
    PROVE  NoTxLost'
<1> USE DEF loopVars, taskVars, callVars, peerVars
<1>1. TypeOK /\ NoTxLost /\ started \subseteq TxKeys
  BY DEF Inv, PInv, TypeOK
<1>2. CASE CallSends(c)
  <2>1. /\ CallMessage("REQUEST", c) \in Message /\ LinkSend(CallMessage("REQUEST", c))
        /\ UNCHANGED <<inbound, verdicts, started, task>>
    BY <1>2, CallMessages DEF CallSends, MsgTypes
  <2>2. \A k \in TxKeys : (Answered(k) => Answered(k)') /\ (Unread(k) => Unread(k)')
    BY <1>1, <2>1, AnsweredGrows DEF Unread
  <2> QED
    BY <1>1, <2>1, <2>2, TxStays
<1>3. CASE ~CallSends(c)
  BY <1>1, <1>3, QuietTx DEF Request, CallRegisters, CallRefused, CallReturns, CallClosed
<1> QED
  BY <1>2, <1>3

LEMMA ChaincodeTx ==
    ASSUME Inv, PInv, ServesOn, Chaincode
    PROVE  NoTxLost'
<1> USE DEF loopVars, taskVars, callVars, peerVars
<1>1. TypeOK /\ NoTxLost /\ task \in [TxKeys -> TaskState]
  BY DEF Inv, PInv, TypeOK
<1>2. /\ UNCHANGED <<inbound, out, verdicts, started>>
      /\ \A k \in TxKeys : task'[k] \in {"none", "answered", "done"} => task[k] = task'[k]
  BY <1>1 DEF Chaincode, SetEvent, HandlerEnds, CallStarts, CallCancelled
<1> QED
  BY <1>1, <1>2, QuietTx

LEMMA PeerTx ==
    ASSUME Inv, PInv, ServesOn, Peer
    PROVE  NoTxLost'
<1> USE DEF loopVars, taskVars, callVars, peerVars
<1>1. /\ TypeOK /\ WellFormed /\ NoTxLost /\ started \subseteq TxKeys
      /\ out \in Seq(Message) /\ verdicts \in [TxKeys -> MessageLog]
  BY DEF Inv, PInv, TypeOK
<1>2. CASE PeerReading
  <2>1. PeerReads
    BY <1>2 DEF PeerReading, PeerReadsRegister, PeerReadsRequest, PeerReadsEcho, PeerReadsVerdict
  <2>2. out # <<>> /\ out' = Tail(out) /\ UNCHANGED <<inbound, started, task>>
    BY <2>1 DEF PeerReads
  <2>3. /\ Head(out) = out[1] /\ Head(out) \in Message /\ Len(out) \in Nat
        /\ Len(out') = Len(out) - 1
        /\ \A i \in 1 .. Len(out') : out'[i] = out[i + 1]
    BY <1>1, <2>2, TailElements
  <2>4. \A i \in 1 .. Len(out) : i # 1 => i - 1 \in 1 .. Len(out') /\ out'[i - 1] = out[i]
    BY <2>3
  <2>5. ASSUME NEW k \in TxKeys, Answered(k) PROVE Answered(k)'
    <3>1. verdicts[k] # <<>> => verdicts'[k] # <<>>
      <4>1. verdicts[k] \in Seq(Message)
        BY <1>1 DEF MessageLog
      <4>2. PICK u \in Seq(Message), h \in Message : u = verdicts[k] /\ h = Head(out)
        BY <2>3, <4>1
      <4>3. Append(u, h) # <<>>
        <5>1. Len(Append(u, h)) = Len(u) + 1 /\ Len(u) \in Nat
          BY AppendElements
        <5>2. Len(Append(u, h)) # 0 /\ Len(<<>>) = 0
          BY <5>1
        <5> QED
          BY <5>2, Zenon
      <4> QED
        BY <1>1, <1>2, <4>2, <4>3 DEF PeerReading, PeerReadsRegister, PeerReadsRequest,
                                      PeerReadsEcho, PeerReadsVerdict
    <3>2. ASSUME NEW i \in 1 .. Len(out), out[i].type \in {"COMPLETED", "ERROR"}, out[i].key = k
          PROVE  Answered(k)'
      <4>1. CASE i = 1
        <5>1. PeerReadsVerdict /\ Head(out).key = k
          BY <1>2, <2>3, <3>2, <4>1 DEF PeerReading, PeerReadsRegister, PeerReadsRequest, PeerReadsEcho
        <5>2. verdicts' = [verdicts EXCEPT ![k] = Append(@, Head(out))]
          BY <5>1, NoneAssumption DEF PeerReadsVerdict
        <5>3. verdicts'[k] = Append(verdicts[k], Head(out)) /\ verdicts[k] \in Seq(Message)
          BY <1>1, <5>2 DEF MessageLog
        <5>4. verdicts'[k] # <<>>
          BY <2>3, <5>3
        <5> QED
          BY <5>4 DEF Answered
      <4>2. CASE i # 1
        BY <2>4, <3>2, <4>2 DEF Answered
      <4> QED
        BY <4>1, <4>2
    <3> QED
      BY <2>5, <3>1, <3>2 DEF Answered
  <2>6. \A k \in TxKeys : Unread(k) => Unread(k)'
    BY <2>2 DEF Unread
  <2> QED
    BY <1>1, <2>2, <2>5, <2>6, TxStays
<1>3. ASSUME NEW m \in Message, PeerSends(m),
             \/ started' = started
             \/ m.type \in TxTypes /\ started' = started \cup {m.key} /\ m.key \in TxKeys \ started
      PROVE  NoTxLost'
  <2>1. UNCHANGED <<out, verdicts, task, stream>>
    BY <1>3 DEF PeerSends
  <2>2. ASSUME Serving', NEW k
        PROVE  (Unread(k) => Unread(k)') /\ (m.type \in TxTypes /\ m.key = k => Unread(k)')
    <3>1. inbound' = Append(inbound, m)
      BY <1>3, <2>2 DEF PeerSends, Serving
    <3> QED
      BY <1>1, <3>1, UnreadGrows
  <2>3. \A k \in TxKeys : Answered(k)' <=> Answered(k)
    BY <2>1 DEF Answered
  <2>4. \A k \in TxKeys \ started : task[k] = "none"
    BY DEF Inv, DispatchedOnce
  <2> QED
    BY <1>1, <1>3, <2>1, <2>2, <2>3, <2>4 DEF NoTxLost, ServesOn
<1>4. CASE PeerShakesHands \/ PeerPings
  BY <1>3, <1>4, PeerMessages DEF PeerShakesHands, PeerPings, StrayTypes
<1>5. ASSUME NEW k \in TxKeys, NEW type \in TxTypes, PeerStarts(k, type) PROVE NoTxLost'
  <2>1. new_message(type, k) \in Message /\ new_message(type, k).key = k
        /\ new_message(type, k).type = type
    BY PeerMessages DEF new_message
  <2> QED
    BY <1>3, <1>5, <2>1 DEF PeerStarts
<1>6. ASSUME NEW c \in Calls, NEW type \in ReplyTypes, PeerAnswers(c, type) PROVE NoTxLost'
  BY <1>3, <1>6, PeerMessages DEF PeerAnswers
<1>7. ASSUME NEW type \in StrayTypes, NEW k \in TxKeys \cup {NoKey}, PeerStrays(type, k)
      PROVE NoTxLost'
  BY <1>3, <1>7, PeerMessages DEF PeerStrays
<1>8. CASE PeerCloses
  BY <1>1, <1>8, QuietTx DEF PeerCloses
<1>9. CASE StreamBreaks
  BY <1>9 DEF StreamBreaks, NoTxLost, Serving
<1> QED
  BY <1>2, <1>4, <1>5, <1>6, <1>7, <1>8, <1>9 DEF Peer

-----------------------------------------------------------------------------
(* Keepalives *)

(***************************************************************************)
(* The messages of S in a queue when it is read and written.               *)
(***************************************************************************)
Counts(m, S) == IF m \in S THEN 1 ELSE 0

LEMMA CountIsNat == ASSUME NEW s \in Seq(Message), NEW S PROVE Among(s, S) \in Nat
<1>1. Len(s) \in Nat
  OBVIOUS
<1>2. IsFiniteSet(1 .. Len(s))
  BY <1>1, FS_Interval
<1>3. IsFiniteSet({i \in 1 .. Len(s) : s[i] \in S})
  BY <1>2, FS_Subset
<1> QED
  BY <1>3, FS_CardinalityType DEF Among

LEMMA CountEmpty == ASSUME NEW S PROVE Among(<<>>, S) = 0
<1>1. {i \in 1 .. Len(<<>>) : <<>>[i] \in S} = {}
  OBVIOUS
<1> QED
  BY <1>1, FS_EmptySet DEF Among

LEMMA CountAppend ==
    ASSUME NEW s \in Seq(Message), NEW m \in Message, NEW S
    PROVE  Among(Append(s, m), S) = Among(s, S) + Counts(m, S)
<1> DEFINE t == Append(s, m)
           I == {i \in 1 .. Len(s) : s[i] \in S}
           T == {i \in 1 .. Len(t) : t[i] \in S}
<1>1. /\ Len(t) = Len(s) + 1 /\ Len(s) \in Nat
      /\ \A i \in 1 .. Len(t) : t[i] = IF i <= Len(s) THEN s[i] ELSE m
  BY AppendElements
<1> HIDE DEF t
<1>2. IsFiniteSet(I)
  <2>1. IsFiniteSet(1 .. Len(s))
    BY <1>1, FS_Interval
  <2> QED
    BY <2>1, FS_Subset
<1>3. PICK n : n = Len(s) + 1 /\ n \notin I /\ n \in 1 .. Len(t) /\ t[n] = m
  BY <1>1
<1>4. \A i \in 1 .. Len(t) : i # n => i \in 1 .. Len(s) /\ t[i] = s[i]
  BY <1>1, <1>3
<1>5. \A i \in 1 .. Len(s) : i \in 1 .. Len(t) /\ i # n /\ t[i] = s[i]
  BY <1>1, <1>3
<1>6. CASE m \in S
  <2>1. T = I \cup {n}
    BY <1>3, <1>4, <1>5, <1>6
  <2>2. Cardinality(I \cup {n}) = Cardinality(I) + 1
    BY <1>2, <1>3, FS_AddElement
  <2> QED
    BY <1>6, <2>1, <2>2 DEF Among, Counts, t
<1>7. CASE m \notin S
  <2>1. T = I
    BY <1>3, <1>4, <1>5, <1>7
  <2>2. PICK c \in Nat : c = Cardinality(I)
    BY <1>2, FS_CardinalityType
  <2>3. Among(s, S) = c /\ Among(Append(s, m), S) = c
    BY <2>1, <2>2, Zenon DEF Among, t
  <2> QED
    BY <1>7, <2>3 DEF Counts
<1> QED
  BY <1>6, <1>7

LEMMA CountTail ==
    ASSUME NEW s \in Seq(Message), s # <<>>, NEW S
    PROVE  Among(s, S) = Among(Tail(s), S) + Counts(Head(s), S)
<1> DEFINE h == Head(s)
           t == Tail(s)
           I == {i \in 1 .. Len(s) : s[i] \in S}
           T == {i \in 1 .. Len(t) : t[i] \in S}
           R == {i \in I : i # 1}
<1>1. /\ h = s[1] /\ 1 \in 1 .. Len(s) /\ Len(s) \in Nat
      /\ Len(t) = Len(s) - 1 /\ Len(t) \in Nat
      /\ \A i \in 1 .. Len(t) : i + 1 \in 1 .. Len(s) /\ t[i] = s[i + 1]
  BY TailElements
<1> HIDE DEF h, t
<1>2. IsFiniteSet(R) /\ IsFiniteSet(T)
  <2>1. IsFiniteSet(1 .. Len(s)) /\ IsFiniteSet(1 .. Len(t))
    BY <1>1, FS_Interval
  <2>2. R \in SUBSET (1 .. Len(s)) /\ T \in SUBSET (1 .. Len(t))
    OBVIOUS
  <2> QED
    BY <2>1, <2>2, FS_Subset
<1>3. PICK f : f = [i \in T |-> i + 1]
  OBVIOUS
<1>4. f \in [T -> R]
  <2>1. ASSUME NEW i \in T PROVE i + 1 \in R
    BY <1>1
  <2> QED
    BY <1>3, <2>1
<1>5. \A i, j \in T : f[i] = f[j] => i = j
  BY <1>1, <1>3
<1>6. ASSUME NEW r \in R PROVE \E i \in T : f[i] = r
  <2>1. r - 1 \in 1 .. Len(t) /\ (r - 1) + 1 = r
    BY <1>1
  <2>2. r - 1 \in T
    BY <1>1, <2>1
  <2> QED
    BY <1>3, <2>1, <2>2
<1>7. f \in Surjection(T, R)
  BY <1>4, <1>6 DEF Surjection
<1>8. f \in Injection(T, R)
  BY <1>4, <1>5 DEF Injection, IsInjective
<1>9. Cardinality(R) = Cardinality(T) /\ Cardinality(T) \in Nat
  BY <1>2, <1>7, <1>8, FS_Surjection, FS_CardinalityType
<1>10. CASE h \in S
  <2>1. I = R \cup {1} /\ 1 \notin R
    BY <1>1, <1>10
  <2>2. Cardinality(R \cup {1}) = Cardinality(R) + 1
    BY <1>2, <2>1, FS_AddElement
  <2>3. Cardinality(I) = Cardinality(T) + 1
    BY <1>9, <2>1, <2>2
  <2> QED
    BY <1>10, <2>3 DEF Among, Counts, h, t
<1>11. CASE h \notin S
  <2>1. I = R
    BY <1>1, <1>11
  <2>2. PICK c \in Nat : c = Cardinality(T)
    BY <1>9
  <2>3. Among(s, S) = c /\ Among(Tail(s), S) = c
    BY <1>9, <2>1, <2>2, Zenon DEF Among, t
  <2> QED
    BY <1>11, <2>3 DEF Counts, h
<1> QED
  BY <1>10, <1>11

(***************************************************************************)
(* Keepalives, counted in the same way.                                    *)
(***************************************************************************)
One(m) == IF m.type = "KEEPALIVE" THEN 1 ELSE 0

LEMMA KeepaliveCounts ==
    /\ Keepalives(<<>>) = 0
    /\ \A s \in Seq(Message) : Keepalives(s) \in Nat
    /\ \A s \in Seq(Message), m \in Message : Keepalives(Append(s, m)) = Keepalives(s) + One(m)
    /\ \A s \in Seq(Message) :
          s # <<>> => Keepalives(s) = Keepalives(Tail(s)) + One(Head(s))
<1> DEFINE K == {m \in Message : m.type = "KEEPALIVE"}
<1>1. \A s : Keepalives(s) = Among(s, K)
  BY DEF Keepalives
<1>2. ASSUME NEW m \in Message PROVE Counts(m, K) = One(m)
  BY DEF Counts, One
<1> HIDE DEF K
<1>3. ASSUME NEW s \in Seq(Message), s # <<>>
      PROVE  Keepalives(s) = Keepalives(Tail(s)) + One(Head(s))
  <2>1. Head(s) \in Message
    BY <1>3, TailElements
  <2> QED
    BY <1>1, <1>2, <1>3, <2>1, CountTail
<1> QED
  BY <1>1, <1>2, <1>3, CountEmpty, CountIsNat, CountAppend

(***************************************************************************)
(* The balance after a step, from what the step adds to each of its terms. *)
(***************************************************************************)
Echoing == IF loop = "echo" THEN 1 ELSE 0

LEMMA PingsBalance ==
    PingsAccounted <=>
        (Serving => ping = pong + Keepalives(inbound) + Keepalives(out) + Echoing)
  BY DEF PingsAccounted, Echoing

LEMMA PingsBalancePrime ==
    PingsAccounted' <=>
        (Serving' => ping' = pong' + Keepalives(inbound') + Keepalives(out') + Echoing')
  BY DEF PingsAccounted, Echoing, Keepalives, Among

LEMMA PingsCounts ==
    ASSUME TypeOK
    PROVE  /\ ping \in Nat /\ pong \in Nat /\ Echoing \in Nat
           /\ Keepalives(inbound) \in Nat /\ Keepalives(out) \in Nat
  BY BoundsAssumption, KeepaliveCounts DEF TypeOK, Echoing

LEMMA PingsQuiet ==
    ASSUME PingsAccounted, ServesOn, UNCHANGED <<ping, pong, inbound, out>>, Echoing' = Echoing
    PROVE  PingsAccounted'
  BY PingsBalance, PingsBalancePrime DEF ServesOn

LEMMA PingsSend ==
    ASSUME TypeOK, PingsAccounted, ServesOn, NEW m \in Message, LinkSend(m),
           UNCHANGED <<ping, pong, inbound>>, Echoing = Echoing' + One(m)
    PROVE  PingsAccounted'
<1> SUFFICES ASSUME Serving' PROVE PingsAccounted'
  BY PingsBalancePrime
<1>1. Serving /\ out \in Seq(Message)
  BY DEF ServesOn, TypeOK
<1>2. out' = Append(out, m)
  BY <1>1 DEF Serving, LinkSend, OutAlive
<1>3. Keepalives(out') = Keepalives(out) + One(m)
  BY <1>1, <1>2, KeepaliveCounts
<1>4. One(m) \in Nat /\ Echoing' \in Nat
  BY DEF One, Echoing
<1>5. ping = pong + Keepalives(inbound) + Keepalives(out) + Echoing
  BY <1>1, PingsBalance
<1>6. ping' = pong' + Keepalives(inbound') + Keepalives(out') + Echoing'
  BY <1>3, <1>4, <1>5, PingsCounts
<1> QED
  BY <1>6, PingsBalancePrime

LEMMA PingsRead ==
    ASSUME TypeOK, PingsAccounted, ServesOn, Reading, Echoing' = Echoing + One(Head(inbound))
    PROVE  PingsAccounted'
<1>1. inbound \in Seq(Message) /\ inbound # <<>> /\ inbound' = Tail(inbound)
  BY DEF TypeOK, Reading
<1>2. UNCHANGED <<ping, pong, out>>
  BY DEF Reading, peerVars
<1>3. Keepalives(inbound') \in Nat
  <2>1. inbound' \in Seq(Message)
    BY <1>1
  <2> QED
    BY <2>1, KeepaliveCounts
<1>4. Keepalives(inbound) = Keepalives(inbound') + One(Head(inbound))
  BY <1>1, KeepaliveCounts
<1>5. One(Head(inbound)) \in Nat
  BY DEF One
<1>6. Serving' => ping = pong + Keepalives(inbound) + Keepalives(out) + Echoing
  BY PingsBalance DEF ServesOn
<1>7. Serving' => ping' = pong' + Keepalives(inbound') + Keepalives(out') + Echoing'
  BY <1>2, <1>3, <1>4, <1>5, <1>6, PingsCounts
<1> QED
  BY <1>7, PingsBalancePrime

LEMMA LoopPings ==
    ASSUME TypeOK, WellFormed, ToSend, PingsAccounted, ServesOn, Loop
    PROVE  PingsAccounted'
<1> USE DEF loopVars, taskVars, callVars, peerVars
<1>1. CASE ReceiveRegistered \/ ReceiveReady \/ ReceiveTransaction \/ ReceiveReply
  <2>1. Reading /\ loop' = loop /\ Head(inbound).type # "KEEPALIVE"
    BY <1>1 DEF ReceiveRegistered, ReceiveReady, ReceiveTransaction, ReceiveReply, TxTypes, ReplyTypes
  <2>2. Echoing \in Nat /\ Echoing' = Echoing /\ One(Head(inbound)) = 0
    BY <2>1 DEF Echoing, One
  <2>3. Echoing' = Echoing + One(Head(inbound))
    BY <2>2
  <2> QED
    BY <2>1, <2>3, PingsRead
<1>2. CASE ReceiveKeepalive
  <2>1. Reading /\ loop = "recv" /\ loop' = "echo" /\ Head(inbound).type = "KEEPALIVE"
    BY <1>2 DEF ReceiveKeepalive, Reading
  <2>2. Echoing' = Echoing + One(Head(inbound))
    BY <2>1 DEF Echoing, One
  <2> QED
    BY <2>1, <2>2, PingsRead
<1>3. CASE ReceiveInvalid \/ RejectAndReturn \/ StreamEnded
  BY <1>3, PingsBalancePrime DEF ReceiveInvalid, RejectAndReturn, StreamEnded, LoopReturns, Serving
<1>4. CASE Register
  <2>1. PICK m \in Message : m.type = "REGISTER" /\ LinkSend(m)
    BY <1>4, NewMessage DEF Register, MsgTypes, new_message
  <2>2. Echoing = 0 /\ Echoing' = 0 /\ One(m) = 0
    BY <1>4, <2>1 DEF Register, Echoing, One
  <2> QED
    BY <1>4, <2>1, <2>2, PingsSend DEF Register
<1>5. CASE EchoKeepalive
  <2>1. held \in Message /\ held.type = "KEEPALIVE" /\ LinkSend(held)
    BY <1>5 DEF EchoKeepalive, ToSend, TypeOK
  <2>2. Echoing = 1 /\ Echoing' = 0 /\ One(held) = 1
    BY <1>5, <2>1 DEF EchoKeepalive, Echoing, One
  <2> QED
    BY <1>5, <2>1, <2>2, PingsSend DEF EchoKeepalive
<1> QED
  BY <1>1, <1>2, <1>3, <1>4, <1>5 DEF Loop

LEMMA SilentSend ==
    ASSUME TypeOK, PingsAccounted, ServesOn, NEW m \in Message, LinkSend(m),
           m.type # "KEEPALIVE", UNCHANGED <<ping, pong, inbound, loop>>
    PROVE  PingsAccounted'
<1>1. Echoing \in Nat /\ Echoing' = Echoing /\ One(m) = 0
  BY DEF Echoing, One
<1>2. Echoing = Echoing' + One(m)
  BY <1>1
<1> QED
  BY <1>2, PingsSend

LEMMA TaskPings ==
    ASSUME TypeOK, ToSend, PingsAccounted, ServesOn, NEW k \in TxKeys, Task(k)
    PROVE  PingsAccounted'
<1> USE DEF loopVars, taskVars, callVars, peerVars
<1>1. CASE TaskSends(k)
  <2>1. final[k] \in Message /\ final[k].type # "KEEPALIVE" /\ LinkSend(final[k])
    BY <1>1 DEF TaskSends, ToSend, TypeOK
  <2> QED
    BY <1>1, <2>1, SilentSend DEF TaskSends
<1>2. CASE TaskRejects(k) \/ TaskDescribes(k) \/ TaskRuns(k) \/ TaskFinishes(k)
  BY <1>2, PingsQuiet DEF TaskRejects, TaskDescribes, TaskRuns, TaskFinishes, Echoing
<1> QED
  BY <1>1, <1>2 DEF Task

LEMMA RequestPings ==
    ASSUME TypeOK, PingsAccounted, ServesOn, NEW c \in Calls, Request(c)
    PROVE  PingsAccounted'
<1> USE DEF loopVars, taskVars, callVars, peerVars
<1>1. CASE CallSends(c)
  <2>1. CallMessage("REQUEST", c) \in Message /\ CallMessage("REQUEST", c).type = "REQUEST"
    BY CallMessages DEF MsgTypes, CallMessage
  <2>2. PICK m \in Message : m.type = "REQUEST" /\ LinkSend(m)
    BY <1>1, <2>1 DEF CallSends
  <2> QED
    BY <1>1, <2>2, SilentSend DEF CallSends
<1>2. CASE CallRegisters(c) \/ CallRefused(c) \/ CallReturns(c) \/ CallClosed(c)
  BY <1>2, PingsQuiet DEF CallRegisters, CallRefused, CallReturns, CallClosed, Echoing
<1> QED
  BY <1>1, <1>2 DEF Request

LEMMA ChaincodePings ==
    ASSUME PingsAccounted, ServesOn, Chaincode
    PROVE  PingsAccounted'
<1>1. UNCHANGED <<ping, pong, inbound, out, loop>>
  BY DEF Chaincode, SetEvent, HandlerEnds, CallStarts, CallCancelled, loopVars, peerVars
<1> QED
  BY <1>1, PingsQuiet DEF Echoing

LEMMA PeerKeepsPings ==
    ASSUME TypeOK, PingsAccounted, ServesOn, Peer
    PROVE  PingsAccounted'
<1> USE DEF loopVars, taskVars, callVars, peerVars
<1>1. out \in Seq(Message) /\ inbound \in Seq(Message)
  BY DEF TypeOK
<1>2. CASE PeerReading
  <2>1. PeerReads /\ pong' = pong + One(Head(out))
    <3>1. CASE PeerReadsEcho
      BY <3>1 DEF PeerReadsEcho, One
    <3>2. CASE PeerReadsRegister \/ PeerReadsRequest \/ PeerReadsVerdict
      <4>1. PeerReads /\ pong' = pong /\ One(Head(out)) = 0
        BY <3>2 DEF PeerReadsRegister, PeerReadsRequest, PeerReadsVerdict, One
      <4> QED
        BY <4>1, PingsCounts
    <3> QED
      BY <1>2, <3>1, <3>2 DEF PeerReading
  <2>2. out # <<>> /\ out' = Tail(out) /\ UNCHANGED <<ping, inbound, loop>>
    BY <2>1 DEF PeerReads
  <2>3. Keepalives(out') \in Nat
    <3>1. out' \in Seq(Message)
      BY <1>1, <2>2
    <3> QED
      BY <3>1, KeepaliveCounts
  <2>4. Keepalives(out) = Keepalives(out') + One(Head(out))
    BY <1>1, <2>2, KeepaliveCounts
  <2>5. One(Head(out)) \in Nat /\ Echoing' = Echoing
    BY <2>2 DEF One, Echoing
  <2>6. Serving' => ping = pong + Keepalives(inbound) + Keepalives(out) + Echoing
    BY PingsBalance DEF ServesOn
  <2>7. Serving' => ping' = pong' + Keepalives(inbound') + Keepalives(out') + Echoing'
    BY <2>1, <2>2, <2>3, <2>4, <2>5, <2>6, PingsCounts
  <2> QED
    BY <2>7, PingsBalancePrime
<1>3. ASSUME NEW m \in Message, PeerSends(m), ping' = ping + One(m) PROVE PingsAccounted'
  <2> SUFFICES ASSUME Serving' PROVE PingsAccounted'
    BY PingsBalancePrime
  <2>1. inbound' = Append(inbound, m) /\ UNCHANGED <<out, pong, loop>>
    BY <1>3 DEF PeerSends, Serving
  <2>2. Keepalives(inbound') = Keepalives(inbound) + One(m)
    BY <1>1, <2>1, KeepaliveCounts
  <2>3. One(m) \in Nat /\ Echoing' = Echoing
    BY <2>1 DEF One, Echoing
  <2>4. ping = pong + Keepalives(inbound) + Keepalives(out) + Echoing
    BY PingsBalance DEF ServesOn
  <2>5. ping' = pong' + Keepalives(inbound') + Keepalives(out') + Echoing'
    BY <1>3, <2>1, <2>2, <2>3, <2>4, PingsCounts
  <2> QED
    BY <2>5, PingsBalancePrime
<1>4. ASSUME NEW m \in Message, PeerSends(m), m.type # "KEEPALIVE", ping' = ping
      PROVE  PingsAccounted'
  <2>1. ping' = ping + One(m)
    BY <1>4, PingsCounts DEF One
  <2> QED
    BY <1>3, <1>4, <2>1
<1>5. CASE PeerShakesHands
  <2>1. PICK type \in StrayTypes : PeerSends(new_message(type, NoKey)) /\ ping' = ping
    BY <1>5 DEF PeerShakesHands, StrayTypes
  <2>2. new_message(type, NoKey) \in Message /\ new_message(type, NoKey).type # "KEEPALIVE"
    BY PeerMessages DEF StrayTypes, new_message
  <2> QED
    BY <1>4, <2>1, <2>2
<1>6. CASE PeerPings
  <2>1. /\ new_message("KEEPALIVE", NoKey) \in Message
        /\ One(new_message("KEEPALIVE", NoKey)) = 1
    BY PeerMessages DEF new_message, One
  <2> QED
    BY <1>3, <1>6, <2>1 DEF PeerPings
<1>7. ASSUME NEW k \in TxKeys, NEW type \in TxTypes, PeerStarts(k, type) PROVE PingsAccounted'
  <2>1. new_message(type, k) \in Message /\ new_message(type, k).type # "KEEPALIVE"
    BY PeerMessages DEF TxTypes, new_message
  <2> QED
    BY <1>4, <1>7, <2>1 DEF PeerStarts
<1>8. ASSUME NEW c \in Calls, NEW type \in ReplyTypes, PeerAnswers(c, type) PROVE PingsAccounted'
  <2>1. CallMessage(type, c) \in Message /\ CallMessage(type, c).type # "KEEPALIVE"
    BY PeerMessages DEF ReplyTypes, CallMessage
  <2> QED
    BY <1>4, <1>8, <2>1 DEF PeerAnswers
<1>9. ASSUME NEW type \in StrayTypes, NEW k \in TxKeys \cup {NoKey}, PeerStrays(type, k)
      PROVE PingsAccounted'
  <2>1. new_message(type, k) \in Message /\ new_message(type, k).type # "KEEPALIVE"
    BY PeerMessages DEF StrayTypes, new_message
  <2> QED
    BY <1>4, <1>9, <2>1 DEF PeerStrays
<1>10. CASE PeerCloses
  BY <1>10, PingsQuiet DEF PeerCloses, Echoing
<1>11. CASE StreamBreaks
  BY <1>11, PingsBalancePrime DEF StreamBreaks, Serving
<1> QED
  BY <1>2, <1>5, <1>6, <1>7, <1>8, <1>9, <1>10, <1>11 DEF Peer

-----------------------------------------------------------------------------
(* Together *)

LEMMA ToSendStays == ASSUME TypeOK, ToSend, [Next]_vars PROVE ToSend'
<1> USE DEF loopVars, taskVars, callVars, peerVars, ToSend
<1>1. task \in [TxKeys -> TaskState] /\ final \in [TxKeys -> Message]
  BY DEF TypeOK
<1>2. CASE Loop
  <2>1. CASE ReceiveTransaction
    <3>1. \A k \in TxKeys : task'[k] \in {"answering", "sending"} => task[k] = task'[k]
      BY <1>1, <2>1 DEF ReceiveTransaction
    <3> QED
      BY <2>1, <3>1 DEF ReceiveTransaction
  <2>2. CASE ReceiveKeepalive
    BY <2>2 DEF ReceiveKeepalive, new_message
  <2>3. CASE ~ReceiveTransaction /\ ~ReceiveKeepalive
    BY <1>2, <2>3 DEF Loop, Register, Reading, ReceiveRegistered, ReceiveReady, ReceiveReply,
                      ReceiveInvalid, EchoKeepalive, RejectAndReturn, StreamEnded, LoopReturns
  <2> QED
    BY <2>1, <2>2, <2>3
<1>3. ASSUME NEW k \in TxKeys, Task(k) PROVE ToSend'
  <2>1. CASE TaskRejects(k) \/ TaskDescribes(k) \/ TaskFinishes(k)
    <3>1. ASSUME NEW m, final' = [final EXCEPT ![k] = m], m.type \in {"COMPLETED", "ERROR"}
          PROVE  /\ final'[k].type \in {"COMPLETED", "ERROR"}
                 /\ \A l \in TxKeys : l # k => final'[l] = final[l]
      BY <1>1, <3>1
    <3>2. /\ final'[k].type \in {"COMPLETED", "ERROR"}
          /\ \A l \in TxKeys : l # k => final'[l] = final[l]
      <4>1. CASE TaskRejects(k)
        BY <3>1, <4>1 DEF TaskRejects, new_message
      <4>2. CASE TaskDescribes(k)
        BY <3>1, <4>2 DEF TaskDescribes, Completed
      <4>3. CASE TaskFinishes(k)
        BY <3>1, <4>3 DEF TaskFinishes, Completed
      <4> QED
        BY <2>1, <4>1, <4>2, <4>3
    <3>3. \A l \in TxKeys : l # k => task'[l] = task[l]
      BY <1>1, <2>1 DEF TaskRejects, TaskDescribes, TaskFinishes
    <3>4. UNCHANGED <<loop, held>>
      BY <2>1 DEF TaskRejects, TaskDescribes, TaskFinishes
    <3> QED
      BY <3>2, <3>3, <3>4
  <2>2. CASE TaskRuns(k) \/ TaskSends(k)
    <3>1. \A l \in TxKeys : task'[l] \in {"answering", "sending"} => task[l] = task'[l]
      BY <1>1, <2>2 DEF TaskRuns, TaskSends
    <3> QED
      BY <2>2, <3>1 DEF TaskRuns, TaskSends
  <2> QED
    BY <1>3, <2>1, <2>2 DEF Task
<1>4. ASSUME NEW c \in Calls, Request(c) PROVE ToSend'
  BY <1>4 DEF Request, CallRegisters, CallRefused, CallSends, CallReturns, CallClosed
<1>5. CASE Chaincode
  <2>1. UNCHANGED <<loop, held, final>>
    BY <1>5 DEF Chaincode, SetEvent, HandlerEnds, CallStarts, CallCancelled
  <2>2. \A l \in TxKeys : task'[l] \in {"answering", "sending"} => task[l] = task'[l]
    BY <1>1, <1>5 DEF Chaincode, SetEvent, HandlerEnds, CallStarts, CallCancelled
  <2> QED
    BY <2>1, <2>2
<1>6. CASE Peer
  BY <1>6 DEF Peer, PeerReading, PeerReadsRegister, PeerReadsRequest, PeerReadsEcho,
              PeerReadsVerdict, PeerReads, PeerShakesHands, PeerSends, PeerPings, PeerCloses,
              StreamBreaks, PeerStarts, PeerAnswers, PeerStrays
<1>7. CASE UNCHANGED vars
  BY <1>7 DEF vars
<1> QED
  BY <1>2, <1>3, <1>4, <1>5, <1>6, <1>7 DEF Next, Shim

LEMMA LostInit == Init => PInv
<1> SUFFICES ASSUME Init PROVE PInv
  OBVIOUS
<1>1. ToSend
  BY DEF Init, ToSend
<1>2. NoLostWakeup
  BY DEF Init, NoLostWakeup
<1>3. NoTxLost
  BY DEF Init, NoTxLost
<1>4. inbound = <<>> /\ out = <<>> /\ ping = 0 /\ pong = 0 /\ loop # "echo"
  BY DEF Init
<1>5. Keepalives(inbound) = 0 /\ Keepalives(out) = 0
  BY <1>4, KeepaliveCounts, Zenon
<1>6. PingsAccounted
  BY <1>4, <1>5 DEF PingsAccounted
<1> QED
  BY <1>1, <1>2, <1>3, <1>6 DEF PInv

LEMMA LostStep == Inv /\ SInv /\ PInv /\ [Next]_vars => PInv'
<1> SUFFICES ASSUME Inv, SInv, PInv, [Next]_vars PROVE PInv'
  OBVIOUS
<1>1. TypeOK /\ WellFormed /\ ToSend /\ NoLostWakeup /\ NoTxLost /\ PingsAccounted
  BY DEF Inv, PInv
<1>2. ServesOn
  BY ServingBefore
<1>3. ToSend'
  BY <1>1, ToSendStays
<1>4. NoLostWakeup' /\ NoTxLost' /\ PingsAccounted'
  <2>1. CASE Loop
    BY <1>1, <1>2, <2>1, LoopWakeup, LoopTx, LoopPings
  <2>2. ASSUME NEW k \in TxKeys, Task(k) PROVE NoLostWakeup' /\ NoTxLost' /\ PingsAccounted'
    BY <1>1, <1>2, <2>2, TaskWakeup, TaskTx, TaskPings
  <2>3. ASSUME NEW c \in Calls, Request(c) PROVE NoLostWakeup' /\ NoTxLost' /\ PingsAccounted'
    BY <1>1, <1>2, <2>3, RequestWakeup, RequestTx, RequestPings
  <2>4. CASE Chaincode
    BY <1>1, <1>2, <2>4, ChaincodeWakeup, ChaincodeTx, ChaincodePings
  <2>5. CASE Peer
    BY <1>1, <1>2, <2>5, PeerWakeup, PeerTx, PeerKeepsPings
  <2>6. CASE UNCHANGED vars
    BY <1>1, <2>6 DEF vars, loopVars, taskVars, callVars, peerVars, NoLostWakeup, NoTxLost,
                      PingsAccounted, Serving, InTransit, Requested, Replied, Unread, Answered
  <2> QED
    BY <2>1, <2>2, <2>3, <2>4, <2>5, <2>6 DEF Next, Shim
<1> QED
  BY <1>3, <1>4 DEF PInv

LEMMA NothingLost == Spec => []PInv
  BY LostInit, LostStep, SessionInvariance, PTL DEF Spec

(***************************************************************************)
(* No order of registering, sending, routing, cancelling and dropping in   *)
(* PeerLink leaves a call on its oneshot with nothing to wake it, for any  *)
(* number of channels, transactions and calls and any channel capacity.    *)
(***************************************************************************)
THEOREM NeverLostWakeup == Spec => []NoLostWakeup
<1>1. PInv => NoLostWakeup
  BY DEF PInv
<1> QED
  BY <1>1, NothingLost, PTL

(***************************************************************************)
(* No transaction is lost between the peer, the match of run_connection    *)
(* and the task of spawn_transaction, and none ends without its message.   *)
(***************************************************************************)
THEOREM NeverTxLost == Spec => []NoTxLost
<1>1. PInv => NoTxLost
  BY DEF PInv
<1> QED
  BY <1>1, NothingLost, PTL

(***************************************************************************)
(* The receive loop drops no keepalive and echoes none twice, in any state *)
(* of the handshake and however full the outbound channel is.              *)
(***************************************************************************)
THEOREM AlwaysPingsAccounted == Spec => []PingsAccounted
<1>1. PInv => PingsAccounted
  BY DEF PInv
<1> QED
  BY <1>1, NothingLost, PTL

-----------------------------------------------------------------------------
(* Verdicts *)

(***************************************************************************)
(* The two who owe a verdict about k, and what has become of theirs.       *)
(***************************************************************************)
TaskDue(k) == IF task[k] \in {"answered", "done"} THEN 1 ELSE 0

LoopDue(k) == IF loop = "ended" /\ Rejected(k) THEN 1 ELSE 0

Balanced(said, due, s) == said <= due /\ (s # "broken" => said = due)

LEMMA VerdictsBalance ==
    VerdictsAccounted <=>
        \A k \in TxKeys :
            Balanced(Len(verdicts[k]) + Among(out, VerdictsOf(k)), TaskDue(k) + LoopDue(k), stream)
  BY DEF VerdictsAccounted, VerdictsSaid, VerdictsDue, TaskDue, LoopDue, Balanced

LEMMA VerdictsBalancePrime ==
    VerdictsAccounted' <=>
        \A k \in TxKeys :
            Balanced(Len(verdicts'[k]) + Among(out', VerdictsOf(k)), TaskDue(k)' + LoopDue(k)', stream')
  BY DEF VerdictsAccounted, VerdictsSaid, VerdictsDue, TaskDue, LoopDue, Balanced, VerdictsOf, Among

LEMMA VerdictCounts ==
    ASSUME TypeOK, NEW k \in TxKeys
    PROVE  /\ Len(verdicts[k]) \in Nat /\ Among(out, VerdictsOf(k)) \in Nat
           /\ TaskDue(k) \in Nat /\ LoopDue(k) \in Nat
           /\ TaskDue(k)' \in Nat /\ LoopDue(k)' \in Nat
<1>1. out \in Seq(Message) /\ verdicts[k] \in Seq(Message)
  BY DEF TypeOK, MessageLog
<1> QED
  BY <1>1, CountIsNat DEF TaskDue, LoopDue

(***************************************************************************)
(* Nobody speaks, and nobody owes more than before.                        *)
(***************************************************************************)
LEMMA VerdictsQuiet ==
    ASSUME TypeOK, VerdictsAccounted, UNCHANGED <<out, verdicts>>, stream' # "broken" => stream # "broken",
           \A k \in TxKeys : TaskDue(k)' = TaskDue(k) /\ LoopDue(k)' = LoopDue(k)
    PROVE  VerdictsAccounted'
  BY VerdictsBalance, VerdictsBalancePrime DEF Balanced

(***************************************************************************)
(* m is sent, or the stream is broken, and m is owed no longer.            *)
(***************************************************************************)
LEMMA VerdictsGrow ==
    ASSUME TypeOK, VerdictsAccounted, NEW m \in Message, LinkSend(m), UNCHANGED <<verdicts, stream>>,
           \A k \in TxKeys :
               TaskDue(k)' + LoopDue(k)' = TaskDue(k) + LoopDue(k) + Counts(m, VerdictsOf(k))
    PROVE  VerdictsAccounted'
<1> SUFFICES ASSUME NEW k \in TxKeys
             PROVE  Balanced(Len(verdicts[k]) + Among(out', VerdictsOf(k)),
                             TaskDue(k)' + LoopDue(k)', stream)
  BY VerdictsBalancePrime
<1>1. out \in Seq(Message)
  BY DEF TypeOK
<1>2. Balanced(Len(verdicts[k]) + Among(out, VerdictsOf(k)), TaskDue(k) + LoopDue(k), stream)
  BY VerdictsBalance
<1>3. Counts(m, VerdictsOf(k)) \in Nat
  BY DEF Counts
<1>4. CASE stream # "broken"
  <2>1. out' = Append(out, m)
    BY <1>4 DEF LinkSend, OutAlive
  <2>2. Among(out', VerdictsOf(k)) = Among(out, VerdictsOf(k)) + Counts(m, VerdictsOf(k))
    BY <1>1, <2>1, CountAppend
  <2> QED
    BY <1>2, <1>3, <2>2, VerdictCounts DEF Balanced
<1>5. CASE stream = "broken"
  <2>1. out' = out
    BY <1>5 DEF LinkSend, OutAlive
  <2> QED
    BY <1>2, <1>3, <1>5, <2>1, VerdictCounts DEF Balanced
<1> QED
  BY <1>4, <1>5

(***************************************************************************)
(* A message that is no verdict is sent.                                   *)
(***************************************************************************)
LEMMA VerdictsOther ==
    ASSUME TypeOK, VerdictsAccounted, NEW m \in Message, LinkSend(m), UNCHANGED <<verdicts, stream>>,
           m.type \notin {"COMPLETED", "ERROR"},
           \A k \in TxKeys : TaskDue(k)' = TaskDue(k) /\ LoopDue(k)' = LoopDue(k)
    PROVE  VerdictsAccounted'
<1>1. ASSUME NEW k \in TxKeys
      PROVE  TaskDue(k)' + LoopDue(k)' = TaskDue(k) + LoopDue(k) + Counts(m, VerdictsOf(k))
  <2>1. Counts(m, VerdictsOf(k)) = 0
    BY DEF Counts, VerdictsOf
  <2> QED
    BY <2>1, VerdictCounts
<1> QED
  BY <1>1, VerdictsGrow

LEMMA LoopAccounts ==
    ASSUME Inv, SInv, PInv, VerdictsAccounted, Loop
    PROVE  VerdictsAccounted'
<1> USE DEF loopVars, taskVars, callVars, peerVars
<1>1. /\ TypeOK /\ Keys /\ ToSend /\ DispatchedOnce /\ held \in Message
      /\ task \in [TxKeys -> TaskState]
  BY DEF Inv, SInv, PInv, TypeOK
<1>2. CASE Reading
  <2>1. /\ loop = "recv" /\ loop' # "ended" /\ UNCHANGED <<out, verdicts, stream>>
    BY <1>2 DEF Loop, Reading, Register, ReceiveRegistered, ReceiveReady, ReceiveKeepalive,
                ReceiveTransaction, ReceiveReply, ReceiveInvalid, EchoKeepalive,
                RejectAndReturn, StreamEnded
  <2>2. \A k \in TxKeys : LoopDue(k)' = LoopDue(k)
    BY <2>1 DEF LoopDue
  <2>3. ASSUME NEW k \in TxKeys PROVE TaskDue(k)' = TaskDue(k)
    <3>1. CASE ReceiveTransaction
      <4>1. /\ inbound # <<>> /\ inbound \in Seq(Message) /\ Head(inbound).type \in TxTypes
            /\ task' = [task EXCEPT ![Head(inbound).key] = "spawned"]
        BY <1>1, <3>1 DEF ReceiveTransaction, Reading, TypeOK
      <4>2. Head(inbound) = inbound[1] /\ 1 \in 1 .. Len(inbound)
        BY <4>1, TailElements
      <4>3. task[Head(inbound).key] = "none"
        BY <1>1, <4>1, <4>2 DEF DispatchedOnce
      <4>4. task'[k] = task[k] \/ (task'[k] = "spawned" /\ task[k] = "none")
        BY <1>1, <4>1, <4>3
      <4> QED
        BY <4>4 DEF TaskDue
    <3>2. CASE ~ReceiveTransaction
      <4>1. task' = task
        BY <2>1, <3>2 DEF Loop, Register, ReceiveRegistered, ReceiveReady, ReceiveKeepalive,
                ReceiveReply, ReceiveInvalid, EchoKeepalive, RejectAndReturn, StreamEnded, LoopReturns
      <4> QED
        BY <4>1 DEF TaskDue
    <3> QED
      BY <3>1, <3>2
  <2> QED
    BY <1>1, <2>1, <2>2, <2>3, VerdictsQuiet
<1>3. CASE Register
  <2>1. PICK m \in Message : m.type = "REGISTER" /\ LinkSend(m)
    BY <1>3, NewMessage DEF Register, MsgTypes, new_message
  <2>2. UNCHANGED <<verdicts, stream, task, held>> /\ held.type # "ERROR"
    BY <1>1, <1>3 DEF Register, Keys
  <2>3. \A k \in TxKeys : TaskDue(k)' = TaskDue(k) /\ LoopDue(k)' = LoopDue(k)
    BY <2>2 DEF TaskDue, LoopDue, Rejected
  <2> QED
    BY <1>1, <2>1, <2>2, <2>3, VerdictsOther
<1>4. CASE EchoKeepalive
  <2>1. held.type = "KEEPALIVE" /\ LinkSend(held) /\ UNCHANGED <<verdicts, stream, task>>
        /\ loop # "ended" /\ loop' # "ended"
    BY <1>1, <1>4 DEF EchoKeepalive, ToSend
  <2>2. \A k \in TxKeys : TaskDue(k)' = TaskDue(k) /\ LoopDue(k)' = LoopDue(k)
    BY <2>1 DEF TaskDue, LoopDue
  <2> QED
    BY <1>1, <2>1, <2>2, VerdictsOther
<1>5. CASE RejectAndReturn
  <2>1. /\ held.type = "ERROR" /\ LinkSend(held) /\ UNCHANGED <<verdicts, stream, task, held>>
        /\ loop = "reject" /\ loop' = "ended"
    BY <1>1, <1>5 DEF RejectAndReturn, LoopReturns, Keys
  <2>2. ASSUME NEW k \in TxKeys
        PROVE  TaskDue(k)' + LoopDue(k)' = TaskDue(k) + LoopDue(k) + Counts(held, VerdictsOf(k))
    <3>1. TaskDue(k)' = TaskDue(k) /\ LoopDue(k) = 0
      BY <2>1 DEF TaskDue, LoopDue
    <3>2. LoopDue(k)' = Counts(held, VerdictsOf(k))
      BY <1>1, <2>1 DEF LoopDue, Rejected, Counts, VerdictsOf
    <3> QED
      BY <1>1, <3>1, <3>2, VerdictCounts
  <2> QED
    BY <1>1, <2>1, <2>2, VerdictsGrow
<1>6. CASE StreamEnded
  <2>1. UNCHANGED <<out, verdicts, stream, task, held>> /\ held.type # "ERROR"
    BY <1>1, <1>6 DEF StreamEnded, LoopReturns, Keys
  <2>2. \A k \in TxKeys : TaskDue(k)' = TaskDue(k) /\ LoopDue(k)' = LoopDue(k)
    BY <2>1 DEF TaskDue, LoopDue, Rejected
  <2> QED
    BY <1>1, <2>1, <2>2, VerdictsQuiet
<1> QED
  BY <1>2, <1>3, <1>4, <1>5, <1>6 DEF Loop, ReceiveRegistered, ReceiveReady, ReceiveKeepalive,
                                      ReceiveTransaction, ReceiveReply, ReceiveInvalid

LEMMA TaskAccounts ==
    ASSUME Inv, SInv, PInv, VerdictsAccounted, NEW k \in TxKeys, Task(k)
    PROVE  VerdictsAccounted'
<1> USE DEF loopVars, taskVars, callVars, peerVars
<1>1. TypeOK /\ Keys /\ ToSend /\ task \in [TxKeys -> TaskState] /\ final[k] \in Message
  BY DEF Inv, SInv, PInv, TypeOK
<1>2. UNCHANGED <<loop, held, verdicts, stream>>
  BY DEF Task, TaskRejects, TaskDescribes, TaskRuns, TaskFinishes, TaskSends
<1>3. \A j \in TxKeys : LoopDue(j)' = LoopDue(j)
  BY <1>2 DEF LoopDue, Rejected
<1>4. CASE TaskSends(k)
  <2>1. /\ LinkSend(final[k]) /\ task[k] \in {"answering", "sending"}
        /\ task' = [task EXCEPT ![k] = IF @ = "sending" THEN "done" ELSE "answered"]
    BY <1>4 DEF TaskSends
  <2>2. final[k].key = k /\ final[k].type \in {"COMPLETED", "ERROR"}
    BY <1>1, <2>1 DEF Keys, ToSend
  <2>3. task'[k] \in {"answered", "done"} /\ \A j \in TxKeys : j # k => task'[j] = task[j]
    BY <1>1, <2>1
  <2>4. ASSUME NEW j \in TxKeys
        PROVE  TaskDue(j)' + LoopDue(j)' = TaskDue(j) + LoopDue(j) + Counts(final[k], VerdictsOf(j))
    <3>1. TaskDue(j)' = TaskDue(j) + Counts(final[k], VerdictsOf(j))
      BY <1>1, <2>1, <2>2, <2>3 DEF TaskDue, Counts, VerdictsOf
    <3>2. Counts(final[k], VerdictsOf(j)) \in Nat
      BY DEF Counts
    <3> QED
      BY <1>1, <1>3, <3>1, <3>2, VerdictCounts
  <2> QED
    BY <1>1, <1>2, <2>1, <2>4, VerdictsGrow
<1>5. CASE ~TaskSends(k)
  <2>1. /\ out' = out /\ task[k] \notin {"answered", "done"}
        /\ \E x : x \notin {"answered", "done"} /\ task' = [task EXCEPT ![k] = x]
    BY <1>5 DEF Task, TaskRejects, TaskDescribes, TaskRuns, TaskFinishes
  <2>2. \A j \in TxKeys : TaskDue(j)' = TaskDue(j)
    BY <1>1, <2>1 DEF TaskDue
  <2> QED
    BY <1>1, <1>2, <1>3, <2>1, <2>2, VerdictsQuiet
<1> QED
  BY <1>4, <1>5

LEMMA RequestAccounts ==
    ASSUME TypeOK, VerdictsAccounted, NEW c \in Calls, Request(c)
    PROVE  VerdictsAccounted'
<1> USE DEF loopVars, taskVars, callVars, peerVars
<1>1. UNCHANGED <<loop, held, task, verdicts, stream>>
  BY DEF Request, CallRegisters, CallRefused, CallSends, CallReturns, CallClosed
<1>2. \A k \in TxKeys : TaskDue(k)' = TaskDue(k) /\ LoopDue(k)' = LoopDue(k)
  BY <1>1 DEF TaskDue, LoopDue, Rejected
<1>3. CASE CallSends(c)
  <2>1. CallMessage("REQUEST", c) \in Message /\ CallMessage("REQUEST", c).type = "REQUEST"
    BY CallMessages DEF MsgTypes, CallMessage
  <2>2. PICK m \in Message : m.type = "REQUEST" /\ LinkSend(m)
    BY <1>3, <2>1 DEF CallSends
  <2> QED
    BY <1>1, <1>2, <2>2, VerdictsOther
<1>4. CASE ~CallSends(c)
  <2>1. out' = out
    BY <1>4 DEF Request, CallRegisters, CallRefused, CallReturns, CallClosed
  <2> QED
    BY <1>1, <1>2, <2>1, VerdictsQuiet
<1> QED
  BY <1>3, <1>4

LEMMA ChaincodeAccounts ==
    ASSUME TypeOK, VerdictsAccounted, Chaincode
    PROVE  VerdictsAccounted'
<1>1. UNCHANGED <<loop, held, out, verdicts, stream>> /\ task \in [TxKeys -> TaskState]
  BY DEF Chaincode, SetEvent, HandlerEnds, CallStarts, CallCancelled, loopVars, peerVars, TypeOK
<1>2. \A k \in TxKeys : task'[k] = task[k] \/ (task[k] = "running" /\ task'[k] = "returned")
  BY <1>1 DEF Chaincode, SetEvent, HandlerEnds, CallStarts, CallCancelled, taskVars
<1>3. \A k \in TxKeys : TaskDue(k)' = TaskDue(k) /\ LoopDue(k)' = LoopDue(k)
  BY <1>1, <1>2 DEF TaskDue, LoopDue, Rejected
<1> QED
  BY <1>1, <1>3, VerdictsQuiet

LEMMA PeerAccounts ==
    ASSUME TypeOK, VerdictsAccounted, Peer
    PROVE  VerdictsAccounted'
<1> USE DEF loopVars, taskVars, callVars, peerVars
<1>1. out \in Seq(Message) /\ verdicts \in [TxKeys -> MessageLog]
  BY DEF TypeOK
<1>2. UNCHANGED <<loop, held, task>>
  BY DEF Peer, PeerReading, PeerReadsRegister, PeerReadsRequest, PeerReadsEcho,
         PeerReadsVerdict, PeerReads, PeerShakesHands, PeerSends, PeerPings, PeerCloses,
         StreamBreaks, PeerStarts, PeerAnswers, PeerStrays
<1>3. \A k \in TxKeys : TaskDue(k)' = TaskDue(k) /\ LoopDue(k)' = LoopDue(k)
  BY <1>2 DEF TaskDue, LoopDue, Rejected
<1>4. CASE PeerReading
  <2>1. out # <<>> /\ out' = Tail(out) /\ stream' = stream
    BY <1>4 DEF PeerReading, PeerReadsRegister, PeerReadsRequest, PeerReadsEcho,
                PeerReadsVerdict, PeerReads
  <2>2. Head(out) \in Message /\ Tail(out) \in Seq(Message)
    BY <1>1, <2>1, TailElements
  <2>3. ASSUME NEW k \in TxKeys
        PROVE  Balanced(Len(verdicts'[k]) + Among(out', VerdictsOf(k)),
                        TaskDue(k)' + LoopDue(k)', stream')
    <3>1. Among(out, VerdictsOf(k)) = Among(out', VerdictsOf(k)) + Counts(Head(out), VerdictsOf(k))
      BY <1>1, <2>1, CountTail
    <3>2. Among(out', VerdictsOf(k)) \in Nat /\ Counts(Head(out), VerdictsOf(k)) \in Nat
      BY <2>1, <2>2, CountIsNat DEF Counts
    <3>3. verdicts[k] \in Seq(Message) /\ Len(verdicts[k]) \in Nat
      BY <1>1 DEF MessageLog
    <3>4. Len(verdicts'[k]) = Len(verdicts[k]) + Counts(Head(out), VerdictsOf(k))
      <4>1. CASE Head(out) \in VerdictsOf(k)
        <5>1. PeerReadsVerdict /\ Head(out).key = k
          BY <1>4, <4>1 DEF VerdictsOf, PeerReading, PeerReadsRegister, PeerReadsRequest, PeerReadsEcho
        <5>2. verdicts'[k] = Append(verdicts[k], Head(out))
          BY <1>1, <5>1, NoneAssumption DEF PeerReadsVerdict
        <5>3. Len(verdicts'[k]) = Len(verdicts[k]) + 1
          BY <2>2, <3>3, <5>2, AppendElements
        <5> QED
          BY <4>1, <5>3 DEF Counts
      <4>2. CASE Head(out) \notin VerdictsOf(k)
        <5>1. verdicts'[k] = verdicts[k]
          BY <1>1, <1>4, <2>2, <4>2 DEF VerdictsOf, PeerReading, PeerReadsRegister,
             PeerReadsRequest, PeerReadsEcho, PeerReadsVerdict
        <5>2. Counts(Head(out), VerdictsOf(k)) = 0
          BY <4>2 DEF Counts
        <5> QED
          BY <3>3, <5>1, <5>2
      <4> QED
        BY <4>1, <4>2
    <3>5. Balanced(Len(verdicts[k]) + Among(out, VerdictsOf(k)), TaskDue(k) + LoopDue(k), stream)
      BY VerdictsBalance
    <3>6. Len(verdicts'[k]) + Among(out', VerdictsOf(k)) = Len(verdicts[k]) + Among(out, VerdictsOf(k))
      BY <3>1, <3>2, <3>3, <3>4
    <3> QED
      BY <1>3, <2>1, <3>5, <3>6, Zenon
  <2> QED
    BY <2>3, VerdictsBalancePrime
<1>5. CASE StreamBreaks
  <2>1. out' = <<>> /\ verdicts' = verdicts /\ stream' = "broken"
    BY <1>5 DEF StreamBreaks
  <2>2. ASSUME NEW k \in TxKeys
        PROVE  Balanced(Len(verdicts'[k]) + Among(out', VerdictsOf(k)),
                        TaskDue(k)' + LoopDue(k)', stream')
    <3>1. Among(out', VerdictsOf(k)) = 0
      BY <2>1, CountEmpty, Zenon
    <3>2. Balanced(Len(verdicts[k]) + Among(out, VerdictsOf(k)), TaskDue(k) + LoopDue(k), stream)
      BY VerdictsBalance
    <3> QED
      BY <1>3, <2>1, <3>1, <3>2, VerdictCounts DEF Balanced
  <2> QED
    BY <2>2, VerdictsBalancePrime
<1>6. CASE ~PeerReading /\ ~StreamBreaks
  <2>1. UNCHANGED <<out, verdicts>> /\ (stream' # "broken" => stream # "broken")
    BY <1>6 DEF Peer, PeerShakesHands, PeerSends, PeerPings, PeerCloses, PeerStarts,
                PeerAnswers, PeerStrays
  <2> QED
    BY <1>3, <2>1, VerdictsQuiet
<1> QED
  BY <1>4, <1>5, <1>6

(***************************************************************************)
(* The tasks of spawn_transaction and the loop that rejects a message are  *)
(* the only ones to say COMPLETED or ERROR about a transaction, each says  *)
(* it once, and it is lost only with the stream: for any number of         *)
(* channels, transactions, calls and messages out of turn, whatever they   *)
(* name, and with calls left behind by handlers.                           *)
(***************************************************************************)
THEOREM AlwaysVerdictsAccounted == Spec => []VerdictsAccounted
<1>1. ASSUME Init PROVE VerdictsAccounted
  <2>1. /\ out = <<>> /\ loop = "register" /\ \A k \in TxKeys : verdicts[k] = <<>> /\ task[k] = "none"
    BY <1>1 DEF Init
  <2>2. ASSUME NEW k \in TxKeys
        PROVE  Balanced(Len(verdicts[k]) + Among(out, VerdictsOf(k)), TaskDue(k) + LoopDue(k), stream)
    <3>1. Among(out, VerdictsOf(k)) = 0
      BY <2>1, CountEmpty, Zenon
    <3>2. Len(verdicts[k]) = 0
      BY <2>1
    <3>3. TaskDue(k) = 0 /\ LoopDue(k) = 0
      BY <2>1 DEF TaskDue, LoopDue
    <3> QED
      BY <3>1, <3>2, <3>3 DEF Balanced
  <2> QED
    BY <2>2, VerdictsBalance
<1>2. ASSUME Inv, SInv, PInv, VerdictsAccounted, [Next]_vars PROVE VerdictsAccounted'
  <2>1. TypeOK
    BY <1>2 DEF Inv
  <2>2. CASE UNCHANGED vars
    <3>1. UNCHANGED <<out, verdicts, stream, task, loop, held>>
      BY <2>2 DEF vars, loopVars, taskVars, peerVars
    <3>2. \A k \in TxKeys : TaskDue(k)' = TaskDue(k) /\ LoopDue(k)' = LoopDue(k)
      BY <3>1 DEF TaskDue, LoopDue, Rejected
    <3> QED
      BY <1>2, <2>1, <3>1, <3>2, VerdictsQuiet
  <2> QED
    BY <1>2, <2>1, <2>2, LoopAccounts, TaskAccounts, RequestAccounts, ChaincodeAccounts,
       PeerAccounts DEF Next, Shim
<1> QED
  BY <1>1, <1>2, SessionInvariance, NothingLost, PTL DEF Spec

=============================================================================
