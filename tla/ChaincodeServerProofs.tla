----------------------- MODULE ChaincodeServerProofs ------------------------
(***************************************************************************)
(* Proofs about ChaincodeServer, for any number of connections and tasks.  *)
(***************************************************************************)
EXTENDS ChaincodeServer, TLAPS

Types ==
    /\ phase \in Phases /\ conn \in [Conns -> ConnStates]
    /\ running \in [Conns -> Nat] /\ waiting \in [Conns -> Nat]

(***************************************************************************)
(* A connection that never was, or whose response stream has ended, has no *)
(* tasks; when the server has returned no other is left but lost ones.     *)
(***************************************************************************)
Idle(c) == running[c] = 0 /\ waiting[c] = 0

IInv ==
    /\ Types
    /\ \A c \in Conns : conn[c] \in {"none", "done"} => Idle(c)
    /\ phase = "exited" => \A c \in Conns : conn[c] \in {"none", "done", "lost"}

(***************************************************************************)
(* A step of one connection while the server is up.                        *)
(***************************************************************************)
LEMMA ConnStep ==
    ASSUME IInv, NEW c \in Conns, Types', Up, phase' = phase,
           conn'[c] \in {"none", "done"} => Idle(c)',
           \A d \in Conns \ {c} : /\ conn'[d] = conn[d] /\ running'[d] = running[d]
                                  /\ waiting'[d] = waiting[d]
    PROVE  IInv'
  BY DEF IInv, Idle, Up

LEMMA TasksKeep ==
    ASSUME IInv, NEW c \in Conns, TaskStarts(c) \/ TaskAsks(c) \/ TaskAnswered(c) \/ TaskEnds(c)
    PROVE  IInv'
<1>1. /\ Types /\ Up /\ UNCHANGED <<phase, conn>>
      /\ conn[c] \in {"none", "done"} => Idle(c)
  BY DEF IInv, TaskStarts, TaskAsks, TaskAnswered, TaskEnds
<1>2. running[c] \in Nat /\ waiting[c] \in Nat
  BY <1>1 DEF Types
<1>3. conn[c] \notin {"none", "done"}
  BY <1>1, <1>2 DEF Idle, TaskStarts, TaskAsks, TaskAnswered, TaskEnds
<1>4. running' \in [Conns -> Nat] /\ \A d \in Conns \ {c} : running'[d] = running[d]
  BY <1>1, <1>2 DEF Types, TaskStarts, TaskAsks, TaskAnswered, TaskEnds
<1>5. waiting' \in [Conns -> Nat] /\ \A d \in Conns \ {c} : waiting'[d] = waiting[d]
  BY <1>1, <1>2 DEF Types, TaskStarts, TaskAsks, TaskAnswered, TaskEnds
<1> QED
  BY <1>1, <1>3, <1>4, <1>5, ConnStep DEF Types

LEMMA ConnsKeep ==
    ASSUME IInv, NEW c \in Conns, connect(c) \/ ResponseEnds(c) \/ PeerCloses(c) \/ TransportFails(c)
    PROVE  IInv'
<1>1. Types /\ Up /\ UNCHANGED <<phase, running, waiting>>
  BY DEF IInv, Up, connect, ResponseEnds, PeerCloses, TransportFails
<1>2. /\ conn' \in [Conns -> ConnStates] /\ \A d \in Conns \ {c} : conn'[d] = conn[d]
      /\ conn'[c] \in {"open", "half", "lost"} \/ (conn'[c] = "done" /\ Idle(c))
  BY <1>1 DEF Types, ConnStates, Idle, connect, ResponseEnds, PeerCloses, TransportFails
<1> QED
  BY <1>1, <1>2, ConnStep DEF Types, Idle

(***************************************************************************)
(* A step of the server itself: it returns only when no connection is left.*)
(***************************************************************************)
LEMMA ServerKeeps ==
    ASSUME IInv, from_env \/ start \/ Drains \/ Exits \/ \E s \in {"SIGTERM", "SIGINT"} : Signal(s)
    PROVE  IInv'
<1>1. Types /\ UNCHANGED <<conn, running, waiting>>
  BY DEF IInv, from_env, start, Drains, Exits, Signal
<1>2. phase' \in Phases
  BY <1>1 DEF Types, Phases, from_env, start, Drains, Exits, Signal
<1>3. phase' = "exited" => \A c \in Conns : conn[c] \in {"none", "done", "lost"}
  BY DEF IInv, Up, from_env, start, Drains, Exits, Signal
<1> QED
  BY <1>1, <1>2, <1>3 DEF IInv, Types, Idle

(***************************************************************************)
(* The inductive invariant holds.                                          *)
(***************************************************************************)
THEOREM Invariance == Spec => []IInv
<1>1. Init => IInv
  BY DEF Init, IInv, Types, Idle, Phases, ConnStates
<1>2. IInv /\ [Next]_vars => IInv'
  <2> SUFFICES ASSUME IInv, [Next]_vars PROVE IInv'
    OBVIOUS
  <2>1. CASE UNCHANGED vars
    BY <2>1 DEF vars, IInv, Types, Idle
  <2>2. CASE from_env \/ start \/ Drains \/ Exits \/ \E s \in {"SIGTERM", "SIGINT"} : Signal(s)
    BY <2>2, ServerKeeps
  <2>3. ASSUME NEW c \in Conns,
               \/ connect(c) \/ TaskStarts(c) \/ Task(c) \/ TaskAnswered(c) \/ ResponseEnds(c)
               \/ PeerCloses(c) \/ TransportFails(c)
        PROVE  IInv'
    BY <2>3, TasksKeep, ConnsKeep DEF Task
  <2> QED
    BY <2>1, <2>2, <2>3 DEF Next
<1> QED
  BY <1>1, <1>2, PTL DEF Spec

(***************************************************************************)
(* When Server::start returns, the transactions of every connection that   *)
(* was not lost have finished and were answered.                           *)
(***************************************************************************)
THEOREM ShutdownIsGraceful == Spec => []ExitDrains
<1>1. ASSUME IInv PROVE ExitDrains
  <2> SUFFICES ASSUME phase = "exited", NEW c \in Conns, conn[c] # "lost"
               PROVE  running[c] + waiting[c] = 0
    BY DEF ExitDrains
  <2>1. Idle(c)
    BY <1>1 DEF IInv
  <2> QED
    BY <2>1 DEF Idle
<1> QED
  BY <1>1, Invariance, PTL

=============================================================================
