--------------------------- MODULE QueryIterator ----------------------------
(***************************************************************************)
(* The query iterators of one transaction (fabric-shim/src/iterators.rs)   *)
(* and the stub methods that open them: a batch of records comes with the  *)
(* answer to the query, further ones are fetched with QUERY_STATE_NEXT and *)
(* QUERY_STATE_CLOSE releases the query at the peer.                       *)
(*                                                                         *)
(* The iterators of a transaction share its gate and pending entry.  That  *)
(* part is ShimConnection; what is kept of it here is what it promises:    *)
(* one request at a time, and a call that was cancelled occupies the entry *)
(* until its reply comes, so that later calls are refused meanwhile.       *)
(*                                                                         *)
(* The records of a query are numbered 1, 2, ..., in the order in which    *)
(* the peer has them.  A definition named Mutant_X is X with a plausible   *)
(* mistake; no action uses it.                                             *)
(***************************************************************************)
EXTENDS Naturals, Sequences

CONSTANTS
    Iters,        \* the queries of the transaction
    MaxRecords,   \* bound: records of a query
    Totals,       \* how many records the queries may have
    Malformed,    \* records that do not decode as a Kv or KeyModification
    MayFail,      \* the peer may answer ERROR, or what does not decode
    MayCancel,    \* the chaincode may drop the future of an operation
    NoIter

ASSUME RecordsAssumption == MaxRecords \in Nat /\ Malformed \subseteq 1 .. MaxRecords
ASSUME TotalsAssumption == Totals \subseteq [Iters -> 0 .. MaxRecords]
ASSUME IterFlagsAssumption == {MayFail, MayCancel} \subseteq BOOLEAN
ASSUME NoIterAssumption == NoIter \notin Iters

VARIABLES
    step,        \* where the operation on an iterator is
    collecting,  \* the operation is collect_remaining
    batch, has_more, closed,   \* the fields of QueryIter
    got,         \* records next has returned, as a value or a decode error
    outcome,     \* what the last operation returned
    link,        \* the request of the transaction that is in flight
    total,       \* the number of records of a query
    cursor,      \* how many of them the peer has handed out
    open,        \* the queries that the peer keeps open
    closes,      \* QUERY_STATE_CLOSE requests the peer has read
    fault        \* ghost: "lost", records that were on their way are gone;
                 \* "unclosed", a QUERY_STATE_CLOSE failed or was given up

iterVars == <<step, collecting, batch, has_more, closed, got, outcome>>
peerVars == <<total, cursor, open, closes>>
vars == <<iterVars, link, peerVars, fault>>

-----------------------------------------------------------------------------
(* The request in flight *)

(***************************************************************************)
(* Operations that are waiting for the gate or for the reply.              *)
(***************************************************************************)
Asking == {"opening", "fetching", "closing"}

Steps == {"new", "idle", "next", "dropped"} \cup Asking

Results == UNION {[1 .. n -> 1 .. MaxRecords] : n \in 0 .. MaxRecords}

Reply == [ok: BOOLEAN, results: Results, has_more: BOOLEAN]

NoReply == [ok |-> FALSE, results |-> <<>>, has_more |-> FALSE]

Requests == [it: Iters, kind: Asking, live: BOOLEAN, answered: BOOLEAN, reply: Reply]

NoRequest ==
    [it |-> NoIter, kind |-> "closing", live |-> FALSE, answered |-> FALSE,
     reply |-> NoReply]

(***************************************************************************)
(* StubCore::request: the operation has the gate and the pending entry is  *)
(* free.                                                                   *)
(***************************************************************************)
Ask(i) ==
    /\ step[i] \in Asking
    /\ link = NoRequest
    /\ link' = [it |-> i, kind |-> step[i], live |-> TRUE, answered |-> FALSE,
                reply |-> NoReply]
    /\ UNCHANGED <<iterVars, peerVars, fault>>

Answered(i) == link.it = i /\ link.live /\ link.answered

(***************************************************************************)
(* The gate is free but the entry of a cancelled call is still pending.    *)
(***************************************************************************)
Refused(i) == step[i] \in Asking /\ link # NoRequest /\ ~link.live

Init ==
    /\ step = [i \in Iters |-> "new"]
    /\ collecting = [i \in Iters |-> FALSE]
    /\ batch = [i \in Iters |-> <<>>]
    /\ has_more = [i \in Iters |-> FALSE]
    /\ closed = [i \in Iters |-> FALSE]
    /\ got = [i \in Iters |-> <<>>]
    /\ outcome = [i \in Iters |-> "none"]
    /\ link = NoRequest
    /\ total \in Totals
    /\ cursor = [i \in Iters |-> 0]
    /\ open = {}
    /\ closes = [i \in Iters |-> 0]
    /\ fault = [i \in Iters |-> {}]

-----------------------------------------------------------------------------
(* Opening a query *)

(***************************************************************************)
(* get_state_by_range, get_query_result, get_history_for_key ...           *)
(***************************************************************************)
Query(i) ==
    /\ step[i] = "new"
    /\ step' = [step EXCEPT ![i] = "opening"]
    /\ UNCHANGED <<collecting, batch, has_more, closed, got, outcome, link, peerVars, fault>>

(***************************************************************************)
(* The reply of the query makes the iterator (QueryIter::new).             *)
(***************************************************************************)
Mutant_new(i) ==
    /\ step[i] = "opening"
    /\ Answered(i) /\ link.reply.ok
    /\ step' = [step EXCEPT ![i] = "idle"]
    /\ has_more' = [has_more EXCEPT ![i] = link.reply.has_more]
    /\ outcome' = [outcome EXCEPT ![i] = "opened"]
    /\ link' = NoRequest
    /\ UNCHANGED <<collecting, batch, closed, got, peerVars, fault>>

Mutant_new_NoMore(i) ==
    /\ step[i] = "opening"
    /\ Answered(i) /\ link.reply.ok
    /\ step' = [step EXCEPT ![i] = "idle"]
    /\ batch' = [batch EXCEPT ![i] = link.reply.results]
    /\ outcome' = [outcome EXCEPT ![i] = "opened"]
    /\ link' = NoRequest
    /\ UNCHANGED <<collecting, has_more, closed, got, peerVars, fault>>

new(i) ==
    /\ step[i] = "opening"
    /\ Answered(i) /\ link.reply.ok
    /\ step' = [step EXCEPT ![i] = "idle"]
    /\ batch' = [batch EXCEPT ![i] = link.reply.results]
    /\ has_more' = [has_more EXCEPT ![i] = link.reply.has_more]
    /\ outcome' = [outcome EXCEPT ![i] = "opened"]
    /\ link' = NoRequest
    /\ UNCHANGED <<collecting, closed, got, peerVars, fault>>

-----------------------------------------------------------------------------
(* Iterating *)

Returns(i, result) ==
    /\ step' = [step EXCEPT ![i] = IF collecting[i] THEN "dropped" ELSE "idle"]
    /\ outcome' = [outcome EXCEPT ![i] = result]

NextStarts(i) ==
    /\ step[i] = "idle"
    /\ step' = [step EXCEPT ![i] = "next"]
    /\ UNCHANGED <<collecting, batch, has_more, closed, got, outcome, link, peerVars, fault>>

(***************************************************************************)
(* collect_remaining takes the iterator: it is gone when the call ends.    *)
(***************************************************************************)
collect_remaining(i) ==
    /\ step[i] = "idle"
    /\ step' = [step EXCEPT ![i] = "next"]
    /\ collecting' = [collecting EXCEPT ![i] = TRUE]
    /\ UNCHANGED <<batch, has_more, closed, got, outcome, link, peerVars, fault>>

(***************************************************************************)
(* The batch has a record: next returns it, or that it does not decode.    *)
(* collect_remaining goes on with the next record, or fails.               *)
(***************************************************************************)
Mutant_NextPops(i) ==
    /\ step[i] = "next"
    /\ batch[i] # <<>>
    /\ got' = [got EXCEPT ![i] = Append(@, Head(batch[i]))]
    /\ Returns(i, IF Head(batch[i]) \in Malformed THEN "failed" ELSE "record")
    /\ UNCHANGED <<collecting, batch, has_more, closed, link, peerVars, fault>>

NextPops(i) ==
    /\ step[i] = "next"
    /\ batch[i] # <<>>
    /\ batch' = [batch EXCEPT ![i] = Tail(@)]
    /\ got' = [got EXCEPT ![i] = Append(@, Head(batch[i]))]
    /\ IF collecting[i] /\ Head(batch[i]) \notin Malformed
         THEN UNCHANGED <<step, outcome>>
         ELSE Returns(i, IF Head(batch[i]) \in Malformed THEN "failed" ELSE "record")
    /\ UNCHANGED <<collecting, has_more, closed, link, peerVars, fault>>

(***************************************************************************)
(* The batch is used up and nothing more is to be fetched.                 *)
(***************************************************************************)
Mutant_Exhausted(i) == batch[i] = <<>> /\ ~has_more[i]

Exhausted(i) == batch[i] = <<>> /\ (~has_more[i] \/ closed[i])

NextEnds(i) ==
    /\ step[i] = "next" /\ ~collecting[i]
    /\ Exhausted(i)
    /\ Returns(i, "end")
    /\ UNCHANGED <<collecting, batch, has_more, closed, got, link, peerVars, fault>>

NextFetches(i) ==
    /\ step[i] = "next"
    /\ batch[i] = <<>> /\ ~Exhausted(i)
    /\ step' = [step EXCEPT ![i] = "fetching"]
    /\ UNCHANGED <<collecting, batch, has_more, closed, got, outcome, link, peerVars, fault>>

Mutant_FetchReturns_KeepsMore(i) ==
    /\ step[i] = "fetching"
    /\ Answered(i) /\ link.reply.ok
    /\ step' = [step EXCEPT ![i] = "next"]
    /\ batch' = [batch EXCEPT ![i] = link.reply.results]
    /\ link' = NoRequest
    /\ UNCHANGED <<collecting, has_more, closed, got, outcome, peerVars, fault>>

FetchReturns(i) ==
    /\ step[i] = "fetching"
    /\ Answered(i) /\ link.reply.ok
    /\ step' = [step EXCEPT ![i] = "next"]
    /\ batch' = [batch EXCEPT ![i] = link.reply.results]
    /\ has_more' = [has_more EXCEPT ![i] = link.reply.has_more]
    /\ link' = NoRequest
    /\ UNCHANGED <<collecting, closed, got, outcome, peerVars, fault>>

-----------------------------------------------------------------------------
(* Closing *)

(***************************************************************************)
(* close: the flag is set before the request is sent.                      *)
(***************************************************************************)
Closing(i) ==
    IF closed[i]
      THEN /\ Returns(i, IF collecting[i] THEN "drained" ELSE "closed")
           /\ UNCHANGED closed
      ELSE /\ closed' = [closed EXCEPT ![i] = TRUE]
           /\ step' = [step EXCEPT ![i] = "closing"]
           /\ UNCHANGED outcome

close(i) ==
    /\ step[i] = "idle"
    /\ Closing(i)
    /\ UNCHANGED <<collecting, batch, has_more, got, link, peerVars, fault>>

(***************************************************************************)
(* collect_remaining has seen the last record and closes.                  *)
(***************************************************************************)
Mutant_CollectCloses(i) ==
    /\ step[i] = "next" /\ collecting[i]
    /\ Exhausted(i)
    /\ Returns(i, "drained")
    /\ UNCHANGED <<collecting, batch, has_more, closed, got, link, peerVars, fault>>

CollectCloses(i) ==
    /\ step[i] = "next" /\ collecting[i]
    /\ Exhausted(i)
    /\ Closing(i)
    /\ UNCHANGED <<collecting, batch, has_more, got, link, peerVars, fault>>

CloseReturns(i) ==
    /\ step[i] = "closing"
    /\ Answered(i) /\ link.reply.ok
    /\ Returns(i, IF collecting[i] THEN "drained" ELSE "closed")
    /\ link' = NoRequest
    /\ UNCHANGED <<collecting, batch, has_more, closed, got, peerVars, fault>>

-----------------------------------------------------------------------------
(* Failures *)

(***************************************************************************)
(* The operation ends with an error: the peer answered ERROR, its answer   *)
(* does not decode, or the request was refused.  A query that fails makes  *)
(* no iterator, even if the peer has opened one.                           *)
(***************************************************************************)
Fails(i) ==
    /\ outcome' = [outcome EXCEPT ![i] = "failed"]
    /\ step' = [step EXCEPT ![i] = IF collecting[i] \/ @ = "opening" THEN "dropped"
                                                                   ELSE "idle"]
    /\ UNCHANGED <<collecting, batch, has_more, closed, got, peerVars>>

Unclosed(i) == IF step[i] = "closing" THEN {"unclosed"} ELSE {}

RequestFails(i) ==
    /\ step[i] \in Asking
    /\ Answered(i) /\ ~link.reply.ok
    /\ Fails(i)
    /\ link' = NoRequest
    /\ fault' = [fault EXCEPT ![i] = @ \cup Unclosed(i)]

(***************************************************************************)
(* The answer is a RESPONSE with records, and it or its metadata does not  *)
(* decode.                                                                 *)
(***************************************************************************)
ReplyUndecodable(i) ==
    /\ MayFail
    /\ step[i] \in {"opening", "fetching"}
    /\ Answered(i) /\ link.reply.ok
    /\ Fails(i)
    /\ link' = NoRequest
    /\ fault' = [fault EXCEPT ![i] = @ \cup {"lost"}]

RequestRefused(i) ==
    /\ Refused(i)
    /\ Fails(i)
    /\ fault' = [fault EXCEPT ![i] = @ \cup Unclosed(i)]
    /\ UNCHANGED link

(***************************************************************************)
(* The chaincode drops the future of an operation, before or after its     *)
(* request was sent.  The iterator can still be used, unless               *)
(* collect_remaining owned it; the records of a fetch that was asked for   *)
(* are lost to it.                                                         *)
(***************************************************************************)
Cancelled(i) ==
    /\ MayCancel
    /\ step[i] \in Asking
    /\ Fails(i)
    /\ link' = IF link.it = i THEN [link EXCEPT !.live = FALSE] ELSE link
    /\ fault' = [fault EXCEPT ![i] = @ \cup Unclosed(i)
                                        \cup IF link.it = i /\ step[i] # "closing"
                                              THEN {"lost"} ELSE {}]

(***************************************************************************)
(* route_response finds the entry of a cancelled call.                     *)
(***************************************************************************)
LateReply ==
    /\ link.answered /\ ~link.live
    /\ link' = NoRequest
    /\ UNCHANGED <<iterVars, peerVars, fault>>

Dropped(i) ==
    /\ step[i] = "idle"
    /\ step' = [step EXCEPT ![i] = "dropped"]
    /\ UNCHANGED <<collecting, batch, has_more, closed, got, outcome, link, peerVars, fault>>

-----------------------------------------------------------------------------
(* The peer (external) *)

(***************************************************************************)
(* A batch holds some of the remaining records, if any remain; has_more is *)
(* TRUE if more remain, and may be TRUE with the batch that ends the query.*)
(***************************************************************************)
PeerBatch ==
    LET i == link.it IN
    /\ ~link.answered /\ link.kind \in {"opening", "fetching"}
    /\ link.kind = "fetching" => i \in open
    /\ \E n \in 0 .. total[i] - cursor[i], more \in BOOLEAN :
          /\ n = 0 => cursor[i] = total[i] /\ ~more
          /\ cursor[i] + n < total[i] => more
          /\ cursor' = [cursor EXCEPT ![i] = @ + n]
          /\ link' = [link EXCEPT !.answered = TRUE,
                        !.reply = [ok |-> TRUE, has_more |-> more,
                                   results |-> [j \in 1 .. n |-> cursor[i] + j]]]
    /\ open' = open \cup {i}
    /\ UNCHANGED <<iterVars, total, closes, fault>>

PeerReleases ==
    /\ ~link.answered /\ link.it # NoIter /\ link.kind = "closing"
    /\ link' = [link EXCEPT !.answered = TRUE, !.reply.ok = TRUE]
    /\ open' = open \ {link.it}
    /\ closes' = [closes EXCEPT ![link.it] = @ + 1]
    /\ UNCHANGED <<iterVars, total, cursor, fault>>

PeerFails ==
    /\ MayFail
    /\ ~link.answered /\ link.it # NoIter
    /\ link' = [link EXCEPT !.answered = TRUE]
    /\ closes' = IF link.kind = "closing" THEN [closes EXCEPT ![link.it] = @ + 1] ELSE closes
    /\ UNCHANGED <<iterVars, total, cursor, open, fault>>

Peer == PeerBatch \/ PeerReleases \/ PeerFails

Chaincode(i) ==
    Query(i) \/ NextStarts(i) \/ collect_remaining(i) \/ close(i) \/ Dropped(i)
    \/ Cancelled(i)

Shim(i) ==
    \/ new(i) \/ NextPops(i) \/ NextEnds(i) \/ NextFetches(i) \/ FetchReturns(i)
    \/ CollectCloses(i) \/ CloseReturns(i) \/ RequestFails(i) \/ RequestRefused(i)
    \/ ReplyUndecodable(i)

Next ==
    \/ \E i \in Iters : Chaincode(i) \/ Shim(i) \/ Ask(i)
    \/ LateReply \/ Peer

Spec == Init /\ [][Next]_vars

(***************************************************************************)
(* The runtime runs what can run, the gate (a fair mutex) serves every     *)
(* waiter in its turn, the peer answers.                                   *)
(***************************************************************************)
Fairness ==
    /\ \A i \in Iters : WF_vars(Shim(i)) /\ SF_vars(Ask(i))
    /\ WF_vars(LateReply) /\ WF_vars(Peer)

FairSpec == Spec /\ Fairness

-----------------------------------------------------------------------------
(* Properties *)

(***************************************************************************)
(* Every variable of the iterators has its type.                           *)
(***************************************************************************)
TypeOK ==
    /\ step \in [Iters -> Steps] /\ collecting \in [Iters -> BOOLEAN]
    /\ batch \in [Iters -> Results] /\ got \in [Iters -> Results]
    /\ has_more \in [Iters -> BOOLEAN] /\ closed \in [Iters -> BOOLEAN]
    /\ outcome \in [Iters -> {"none", "opened", "record", "end", "failed", "closed", "drained"}]
    /\ link \in Requests \cup {NoRequest}
    /\ total \in [Iters -> 0 .. MaxRecords] /\ cursor \in [Iters -> 0 .. MaxRecords]
    /\ \A i \in Iters : cursor[i] <= total[i]
    /\ open \subseteq Iters /\ closes \in [Iters -> Nat]
    /\ fault \in [Iters -> SUBSET {"lost", "unclosed"}]

Arriving(i) == IF link.it = i /\ link.live THEN link.reply.results ELSE <<>>

Records(i) == got[i] \o batch[i] \o Arriving(i)

(***************************************************************************)
(* No record comes twice or out of order from next_raw, across batches,    *)
(* failures, retries and cancelled calls.                                  *)
(***************************************************************************)
NoRecordTwice ==
    \A i \in Iters : \A j, k \in 1 .. Len(Records(i)) :
        j < k => Records(i)[j] < Records(i)[k]

(***************************************************************************)
(* No record is skipped: all that the peer has handed out was returned, is *)
(* in the batch or is arriving, unless an answer was undecodable or given  *)
(* up.  A retry after an ERROR of the peer continues where it was.         *)
(***************************************************************************)
NoRecordLost ==
    \A i \in Iters : "lost" \notin fault[i] => Len(Records(i)) = cursor[i]

(***************************************************************************)
(* next returns None only after the last record of the query, unless the   *)
(* iterator was closed or records were lost.                               *)
(***************************************************************************)
EndMeansAll ==
    \A i \in Iters :
        outcome[i] = "end" /\ ~closed[i] /\ "lost" \notin fault[i] /\ step[i] = "idle"
            => Len(got[i]) = total[i]

(***************************************************************************)
(* collect_remaining of an iterator that is open does not truncate: it     *)
(* asks for the close, and so returns Ok, only when the last record of the *)
(* query is in its hands, unless records were lost.  (One that was closed  *)
(* before has nothing to ask for, and is not concerned.)                   *)
(***************************************************************************)
CollectsAll ==
    \A i \in Iters :
        collecting[i] /\ step[i] = "closing" /\ "lost" \notin fault[i]
            => Len(got[i]) = total[i]

(***************************************************************************)
(* close and collect_remaining return Ok only when the peer has released   *)
(* the query, unless an earlier close of the iterator failed.              *)
(***************************************************************************)
ClosedMeansReleased ==
    \A i \in Iters :
        outcome[i] \in {"closed", "drained"} /\ "unclosed" \notin fault[i] => i \notin open

(***************************************************************************)
(* Once close was called, the query is asked for nothing but to be closed, *)
(* and that once.                                                          *)
(***************************************************************************)
NothingAfterClose ==
    \A i \in Iters :
        /\ closes[i] <= 1
        /\ closed[i] /\ link.it = i /\ link.live => link.kind = "closing"
        /\ closes[i] = 1 /\ link.it = i => link.answered

(***************************************************************************)
(* Every operation on an iterator ends, also when iterators of one         *)
(* transaction compete for its gate.                                       *)
(***************************************************************************)
OperationsEnd ==
    \A i \in Iters : step[i] \in {"next"} \cup Asking ~> step[i] \in {"idle", "dropped"}

(***************************************************************************)
(* What the comment of collect_remaining says: it closes the iterator.     *)
(***************************************************************************)
CollectReleases ==
    \A i \in Iters :
        collecting[i] /\ step[i] = "dropped" => i \notin open

=============================================================================
