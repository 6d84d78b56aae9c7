--------------------------- MODULE ChaincodeServer --------------------------
(***************************************************************************)
(* The life of the chaincode server (fabric-shim/src/server.rs):           *)
(* configuration, serving the connections of peers, and the graceful       *)
(* shutdown on SIGTERM or an interrupt.  Of a connection (ShimConnection)  *)
(* this module keeps what decides when it ends: the receive loop and every *)
(* transaction task hold a sender of the outbound channel, and the         *)
(* response stream ends when the last of them is dropped.                  *)
(*                                                                         *)
(* tonic's graceful shutdown is external: it stops accepting and returns   *)
(* when every connection has ended.                                        *)
(***************************************************************************)
EXTENDS Naturals, FiniteSets

CONSTANTS
    Conns,      \* connections that peers may open
    MaxTasks    \* bound: transaction tasks of a connection at a time

ASSUME MaxTasksAssumption == MaxTasks \in Nat

VARIABLES
    phase,     \* where Server::start is
    trapped,   \* the handler of SIGTERM could be installed
    signals,   \* signals the process has received
    conn,      \* the connections
    running,   \* transaction tasks that make progress by themselves
    waiting    \* transaction tasks that wait for a reply of the peer

vars == <<phase, trapped, signals, conn, running, waiting>>

(***************************************************************************)
(* "half": the peer has closed its side and the receive loop has returned; *)
(* "done": the response stream has ended as well; "lost": the transport    *)
(* has failed.                                                             *)
(***************************************************************************)
ConnStates == {"none", "open", "half", "done", "lost"}

Phases == {"new", "configured", "failed", "serving", "draining", "exited", "killed"}

Init ==
    /\ phase = "new"
    /\ trapped \in BOOLEAN
    /\ signals = {}
    /\ conn = [c \in Conns |-> "none"]
    /\ running = [c \in Conns |-> 0]
    /\ waiting = [c \in Conns |-> 0]

-----------------------------------------------------------------------------
(* Server *)

(***************************************************************************)
(* from_env and new: a chaincode id and an address that resolves, or an    *)
(* error.                                                                  *)
(***************************************************************************)
from_env ==
    /\ phase = "new"
    /\ phase' \in {"configured", "failed"}
    /\ UNCHANGED <<trapped, signals, conn, running, waiting>>

(***************************************************************************)
(* start: the address is bound and served, or an error.                    *)
(***************************************************************************)
start ==
    /\ phase = "configured"
    /\ phase' \in {"serving", "failed"}
    /\ UNCHANGED <<trapped, signals, conn, running, waiting>>

(***************************************************************************)
(* shutdown_signal resolves: one signal is enough, but none is if the      *)
(* handler of SIGTERM could not be installed.                              *)
(***************************************************************************)
Mutant_shutdown_signal == trapped /\ signals = {"SIGTERM", "SIGINT"}

shutdown_signal == trapped /\ signals # {}

(***************************************************************************)
(* serve_with_listener.                                                    *)
(***************************************************************************)
Drains ==
    /\ phase = "serving"
    /\ shutdown_signal
    /\ phase' = "draining"
    /\ UNCHANGED <<trapped, signals, conn, running, waiting>>

Exits ==
    /\ phase = "draining"
    /\ \A c \in Conns : conn[c] \in {"none", "done", "lost"}
    /\ phase' = "exited"
    /\ UNCHANGED <<trapped, signals, conn, running, waiting>>

(***************************************************************************)
(* connect: the connection's loop is spawned, its channel made.            *)
(***************************************************************************)
connect(c) ==
    /\ phase = "serving"
    /\ conn[c] = "none"
    /\ conn' = [conn EXCEPT ![c] = "open"]
    /\ UNCHANGED <<phase, trapped, signals, running, waiting>>

-----------------------------------------------------------------------------
(* Connections *)

Up == phase \in {"serving", "draining"}

TaskStarts(c) ==
    /\ Up /\ conn[c] = "open"
    /\ running[c] + waiting[c] < MaxTasks
    /\ running' = [running EXCEPT ![c] = @ + 1]
    /\ UNCHANGED <<phase, trapped, signals, conn, waiting>>

TaskAsks(c) ==
    /\ Up /\ running[c] > 0 /\ conn[c] \in {"open", "half"}
    /\ running' = [running EXCEPT ![c] = @ - 1]
    /\ waiting' = [waiting EXCEPT ![c] = @ + 1]
    /\ UNCHANGED <<phase, trapped, signals, conn>>

(***************************************************************************)
(* A reply is routed only while the receive loop runs.                     *)
(***************************************************************************)
TaskAnswered(c) ==
    /\ Up /\ waiting[c] > 0 /\ conn[c] = "open"
    /\ waiting' = [waiting EXCEPT ![c] = @ - 1]
    /\ running' = [running EXCEPT ![c] = @ + 1]
    /\ UNCHANGED <<phase, trapped, signals, conn>>

TaskEnds(c) ==
    /\ Up /\ running[c] > 0
    /\ running' = [running EXCEPT ![c] = @ - 1]
    /\ UNCHANGED <<phase, trapped, signals, conn, waiting>>

(***************************************************************************)
(* The last sender of the outbound channel is dropped.                     *)
(***************************************************************************)
Mutant_ResponseEnds(c) ==
    /\ Up /\ conn[c] = "half"
    /\ waiting[c] = 0
    /\ conn' = [conn EXCEPT ![c] = "done"]
    /\ UNCHANGED <<phase, trapped, signals, running, waiting>>

ResponseEnds(c) ==
    /\ Up /\ conn[c] = "half"
    /\ running[c] = 0 /\ waiting[c] = 0
    /\ conn' = [conn EXCEPT ![c] = "done"]
    /\ UNCHANGED <<phase, trapped, signals, running, waiting>>

-----------------------------------------------------------------------------
(* The environment (external) *)

PeerCloses(c) ==
    /\ Up /\ conn[c] = "open"
    /\ conn' = [conn EXCEPT ![c] = "half"]
    /\ UNCHANGED <<phase, trapped, signals, running, waiting>>

TransportFails(c) ==
    /\ Up /\ conn[c] \in {"open", "half"}
    /\ conn' = [conn EXCEPT ![c] = "lost"]
    /\ UNCHANGED <<phase, trapped, signals, running, waiting>>

(***************************************************************************)
(* A signal that is not trapped kills the process.                         *)
(***************************************************************************)
Signal(s) ==
    /\ Up /\ s \notin signals
    /\ signals' = signals \cup {s}
    /\ phase' = IF trapped THEN phase ELSE "killed"
    /\ UNCHANGED <<trapped, conn, running, waiting>>

Task(c) == TaskAsks(c) \/ TaskEnds(c)

Next ==
    \/ from_env \/ start \/ Drains \/ Exits
    \/ \E c \in Conns :
          \/ connect(c) \/ TaskStarts(c) \/ Task(c) \/ TaskAnswered(c) \/ ResponseEnds(c)
          \/ PeerCloses(c) \/ TransportFails(c)
    \/ \E s \in {"SIGTERM", "SIGINT"} : Signal(s)

Spec == Init /\ [][Next]_vars

(***************************************************************************)
(* The server and its tasks run, transactions come to an end (a task ends  *)
(* if it can end again and again), and the peer answers.                   *)
(***************************************************************************)
ServerFairness ==
    /\ WF_vars(Drains) /\ WF_vars(Exits)
    /\ \A c \in Conns : /\ SF_vars(TaskEnds(c))
                        /\ WF_vars(TaskAnswered(c))
                        /\ WF_vars(ResponseEnds(c))

FairSpec == Spec /\ ServerFairness

(***************************************************************************)
(* No connection lasts for ever: the peer stops, or is stopped.            *)
(***************************************************************************)
LeavingSpec == FairSpec /\ \A c \in Conns : WF_vars(TransportFails(c))

-----------------------------------------------------------------------------
(* Properties *)

(***************************************************************************)
(* The shutdown is graceful: when Server::start returns, the transactions  *)
(* of every connection that was not lost have finished and were answered.  *)
(***************************************************************************)
ExitDrains ==
    phase = "exited" =>
        \A c \in Conns : conn[c] # "lost" => running[c] + waiting[c] = 0

(***************************************************************************)
(* A trapped signal ends the server if the peers go away.                  *)
(***************************************************************************)
ExitsAfterPeers == phase = "serving" /\ trapped /\ signals # {} ~> phase = "exited"

(***************************************************************************)
(* What the deployment guide says: on SIGTERM the transactions in flight   *)
(* finish, then the process exits.                                         *)
(***************************************************************************)
ShutdownExits == phase = "serving" /\ trapped /\ "SIGTERM" \in signals ~> phase = "exited"

=============================================================================
