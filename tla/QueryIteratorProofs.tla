------------------------ MODULE QueryIteratorProofs -------------------------
(***************************************************************************)
(* Proofs about QueryIterator, for any number of queries and of records.   *)
(***************************************************************************)
EXTENDS QueryIterator, TLAPS, SequenceTheorems

Rec == 1 .. MaxRecords

Outcomes == {"none", "opened", "record", "end", "failed", "closed", "drained"}

(***************************************************************************)
(* What a sequence of records is after the peer has handed out c of them:  *)
(* in order, the j-th not before the j-th of the query, and complete       *)
(* unless some were lost.                                                  *)
(***************************************************************************)
InOrder(r, c) ==
    /\ \A j \in 1 .. Len(r) : j <= r[j] /\ r[j] <= c
    /\ \A j, k \in 1 .. Len(r) : j < k => r[j] < r[k]

Complete(r, c, lost) == ~lost => Len(r) = c

Lost(i) == "lost" \in fault[i]

RecordsOK(i) ==
    /\ Records(i) \in Seq(Rec)
    /\ InOrder(Records(i), cursor[i])
    /\ Complete(Records(i), cursor[i], Lost(i))

(***************************************************************************)
(* The reply to the request in flight has records only if it is a batch.   *)
(***************************************************************************)
LinkOK ==
    /\ ~link.answered => link.reply = NoReply
    /\ ~link.reply.ok \/ link.kind = "closing" => link.reply.results = <<>>

(***************************************************************************)
(* What a request in flight says of its iterator: its operation waits for  *)
(* it, or was given up, and records may be lost if it was no close; the    *)
(* last batch has been handed out if the reply says so; a close that was   *)
(* given up is not asked for again.                                        *)
(***************************************************************************)
RequestOK(i) ==
    link.it = i =>
        /\ IF link.live THEN step[i] = link.kind ELSE Lost(i) \/ link.kind = "closing"
        /\ link.kind # "closing" /\ link.reply.ok /\ ~link.reply.has_more
              => cursor[i] = total[i]
        /\ link.kind = "closing" => closed[i] /\ (step[i] = "closing" => link.live)

(***************************************************************************)
(* What the place of an operation says of the iterator.                    *)
(***************************************************************************)
PlaceOK(i) ==
    /\ step[i] \in {"new", "opening"} =>
          /\ batch[i] = <<>> /\ got[i] = <<>> /\ ~closed[i] /\ ~collecting[i]
          /\ outcome[i] = "none"
    /\ step[i] = "fetching" => batch[i] = <<>> /\ ~closed[i]
    /\ step[i] \notin {"new", "opening", "dropped"} /\ ~has_more[i] /\ ~Lost(i) =>
          Len(got[i]) + Len(batch[i]) = total[i]
    /\ outcome[i] = "end" /\ ~closed[i] /\ ~Lost(i) /\ step[i] = "idle" =>
          ~has_more[i] /\ batch[i] = <<>>
    /\ collecting[i] => step[i] # "idle"
    /\ collecting[i] /\ step[i] = "closing" => ~has_more[i] /\ batch[i] = <<>>

(***************************************************************************)
(* The close of an iterator is asked for once, and the query is released   *)
(* when it has returned.                                                   *)
(***************************************************************************)
CloseOK(i) ==
    /\ closes[i] <= 1
    /\ closes[i] = 1 => closed[i]
    /\ closes[i] = 1 /\ link.it = i => link.answered
    /\ step[i] = "closing" /\ ~(link.it = i /\ link.live) => closes[i] = 0
    /\ step[i] = "closing" => closed[i]
    /\ outcome[i] \in {"closed", "drained"} => closed[i] /\ step[i] # "closing"
    /\ closed[i] /\ "unclosed" \notin fault[i] /\ step[i] # "closing" =>
          i \notin open /\ link.it # i
    /\ step[i] = "closing" /\ link.it = i /\ link.live /\ link.reply.ok => i \notin open

IterOK(i) == RecordsOK(i) /\ RequestOK(i) /\ PlaceOK(i) /\ CloseOK(i)

IInv ==
    /\ TypeOK /\ LinkOK
    /\ \A i \in Iters : IterOK(i)

-----------------------------------------------------------------------------
(* Sequences of records *)

(***************************************************************************)
(* Results are the sequences of at most MaxRecords records.                *)
(***************************************************************************)
LEMMA ResultsAreSequences ==
    ASSUME NEW r
    PROVE  r \in Results <=> r \in Seq(Rec) /\ Len(r) <= MaxRecords
<1>1. ASSUME r \in Results PROVE r \in Seq(Rec) /\ Len(r) <= MaxRecords
  <2>1. PICK n \in 0 .. MaxRecords : r \in [1 .. n -> Rec]
    BY <1>1 DEF Results, Rec
  <2>2. n \in Nat /\ n <= MaxRecords
    BY RecordsAssumption
  <2>3. r \in Seq(Rec) /\ Len(r) = n
    BY <2>1, <2>2
  <2> QED
    BY <2>2, <2>3
<1>2. ASSUME r \in Seq(Rec), Len(r) <= MaxRecords PROVE r \in Results
  <2>1. Len(r) \in 0 .. MaxRecords /\ r \in [1 .. Len(r) -> Rec]
    BY <1>2, RecordsAssumption
  <2> QED
    BY <2>1 DEF Results, Rec
<1> QED
  BY <1>1, <1>2

(***************************************************************************)
(* Records are numbers.                                                    *)
(***************************************************************************)
LEMMA RecordIsNat == \A r \in Seq(Rec) : \A j \in 1 .. Len(r) : r[j] \in Nat
<1>1. \A r \in Seq(Rec) : \A j \in 1 .. Len(r) : r[j] \in Rec
  OBVIOUS
<1>2. Rec \subseteq Nat
  BY RecordsAssumption DEF Rec
<1> QED
  BY <1>1, <1>2

(***************************************************************************)
(* A sequence in order is no longer than the records handed out.           *)
(***************************************************************************)
LEMMA InOrderBounds ==
    ASSUME NEW c \in Nat, NEW r \in Seq(Rec), InOrder(r, c)
    PROVE  Len(r) <= c
<1>1. Len(r) \in Nat
  OBVIOUS
<1>2. CASE Len(r) = 0
  BY <1>2
<1>3. CASE Len(r) # 0
  <2>1. Len(r) \in 1 .. Len(r)
    BY <1>1, <1>3
  <2>2. r[Len(r)] \in Nat
    BY <2>1, RecordIsNat
  <2>3. Len(r) <= r[Len(r)] /\ r[Len(r)] <= c
    BY <2>1 DEF InOrder
  <2> QED
    BY <1>1, <2>2, <2>3
<1> QED
  BY <1>2, <1>3

(***************************************************************************)
(* What comes first in a sequence in order is in order.                    *)
(***************************************************************************)
LEMMA InOrderPrefix ==
    ASSUME NEW c \in Nat, NEW r \in Seq(Rec), NEW s \in Seq(Rec), InOrder(r \o s, c)
    PROVE  InOrder(r, c)
<1>1. /\ Len(r \o s) = Len(r) + Len(s) /\ Len(r) \in Nat /\ Len(s) \in Nat
      /\ \A j \in 1 .. Len(r) : (r \o s)[j] = r[j]
  BY ConcatProperties, LenProperties
<1>2. \A j \in 1 .. Len(r) : j \in 1 .. Len(r \o s)
  BY <1>1
<1> QED
  BY <1>1, <1>2 DEF InOrder

(***************************************************************************)
(* The next n records of the query continue a sequence in order.           *)
(***************************************************************************)
LEMMA InOrderExtends ==
    ASSUME NEW c \in Nat, NEW n \in Nat, c + n <= MaxRecords,
           NEW r \in Seq(Rec), InOrder(r, c)
    PROVE  LET s == [j \in 1 .. n |-> c + j] IN
           /\ s \in Seq(Rec) /\ Len(s) = n
           /\ r \o s \in Seq(Rec) /\ Len(r \o s) = Len(r) + n
           /\ InOrder(r \o s, c + n)
<1> DEFINE s == [j \in 1 .. n |-> c + j]
<1>1. MaxRecords \in Nat
  BY RecordsAssumption
<1>2. \A j \in 1 .. n : c + j \in Rec
  BY <1>1 DEF Rec
<1>3. s \in [1 .. n -> Rec]
  BY <1>2
<1>4. s \in Seq(Rec) /\ Len(s) = n
  BY <1>3
<1> HIDE DEF s
<1>5. /\ r \o s \in Seq(Rec) /\ Len(r \o s) = Len(r) + n /\ Len(r) \in Nat
      /\ \A j \in 1 .. Len(r) + n : (r \o s)[j] = IF j <= Len(r) THEN r[j] ELSE s[j - Len(r)]
  BY <1>4, ConcatProperties, LenProperties
<1>6. Len(r) <= c
  BY InOrderBounds
<1>7. \A j \in 1 .. n : s[j] = c + j
  BY DEF s
<1>8. \A j \in 1 .. Len(r) : r[j] \in Nat /\ j <= r[j] /\ r[j] <= c
  BY RecordIsNat DEF InOrder
<1>9. ASSUME NEW j \in 1 .. Len(r) + n
      PROVE  /\ (r \o s)[j] = IF j <= Len(r) THEN r[j] ELSE c + (j - Len(r))
             /\ j <= (r \o s)[j] /\ (r \o s)[j] <= c + n
  <2>1. CASE j <= Len(r)
    BY <1>5, <1>8, <2>1
  <2>2. CASE ~(j <= Len(r))
    <3>1. j - Len(r) \in 1 .. n
      BY <1>5, <2>2
    <3>2. (r \o s)[j] = c + (j - Len(r))
      BY <1>5, <1>7, <2>2, <3>1
    <3> QED
      BY <1>5, <1>6, <2>2, <3>1, <3>2
  <2> QED
    BY <2>1, <2>2
<1>10. ASSUME NEW j \in 1 .. Len(r) + n, NEW k \in 1 .. Len(r) + n, j < k
       PROVE  (r \o s)[j] < (r \o s)[k]
  <2>1. CASE k <= Len(r)
    <3>1. j \in 1 .. Len(r) /\ k \in 1 .. Len(r)
      BY <1>5, <1>10, <2>1
    <3>2. r[j] < r[k]
      BY <1>10, <3>1 DEF InOrder
    <3> QED
      BY <1>9, <3>1, <3>2
  <2>2. CASE j <= Len(r) /\ ~(k <= Len(r))
    <3>1. r[j] \in Nat /\ r[j] <= c
      BY <1>5, <1>8, <2>2
    <3> QED
      BY <1>5, <1>9, <2>2, <3>1
  <2>3. CASE ~(j <= Len(r))
    BY <1>5, <1>9, <1>10, <2>3
  <2> QED
    BY <1>5, <1>10, <2>1, <2>2, <2>3
<1>11. InOrder(r \o s, c + n)
  BY <1>5, <1>9, <1>10 DEF InOrder
<1> QED
  BY <1>4, <1>5, <1>11 DEF s

-----------------------------------------------------------------------------
(* Steps *)

(***************************************************************************)
(* Types of the parts of a request.                                        *)
(***************************************************************************)
LEMMA LinkTypes ==
    ASSUME TypeOK
    PROVE  /\ link.it \in Iters \cup {NoIter} /\ link.kind \in Asking
           /\ link.live \in BOOLEAN /\ link.answered \in BOOLEAN
           /\ link.reply \in Reply /\ link.reply.ok \in BOOLEAN
           /\ link.reply.has_more \in BOOLEAN
           /\ link.reply.results \in Seq(Rec) /\ Len(link.reply.results) <= MaxRecords
           /\ link # NoRequest => link.it \in Iters
           /\ link.it \in Iters => link \in Requests
<1>1. NoReply \in Reply
  <2>1. <<>> \in Seq(Rec) /\ Len(<<>>) <= MaxRecords
    BY RecordsAssumption
  <2>2. <<>> \in Results
    BY ONLY <2>1, ResultsAreSequences, Zenon
  <2> QED
    BY <2>2 DEF NoReply, Reply
<1>2. CASE link = NoRequest
  <2>1. NoRequest.it = NoIter /\ NoRequest.kind = "closing" /\ NoRequest.live = FALSE
        /\ NoRequest.answered = FALSE /\ NoRequest.reply = NoReply
    BY DEF NoRequest
  <2>2. link.reply.ok \in BOOLEAN /\ link.reply.has_more \in BOOLEAN
        /\ link.reply.results \in Results
    BY <1>1, <1>2, <2>1 DEF Reply
  <2> QED
    BY <1>1, <1>2, <2>1, <2>2, ResultsAreSequences, NoIterAssumption DEF Asking
<1>3. CASE link \in Requests
  <2>1. link.it \in Iters /\ link.kind \in Asking /\ link.live \in BOOLEAN
        /\ link.answered \in BOOLEAN /\ link.reply \in Reply
    BY <1>3 DEF Requests
  <2>2. link.reply.ok \in BOOLEAN /\ link.reply.has_more \in BOOLEAN
        /\ link.reply.results \in Results
    BY <2>1 DEF Reply
  <2> QED
    BY <1>3, <2>1, <2>2, ResultsAreSequences
<1> QED
  BY <1>2, <1>3 DEF TypeOK

(***************************************************************************)
(* What belongs to the iterator u stays as it is.                          *)
(***************************************************************************)
Same(u) ==
    /\ step'[u] = step[u] /\ collecting'[u] = collecting[u] /\ batch'[u] = batch[u]
    /\ has_more'[u] = has_more[u] /\ closed'[u] = closed[u] /\ got'[u] = got[u]
    /\ outcome'[u] = outcome[u] /\ total'[u] = total[u] /\ cursor'[u] = cursor[u]
    /\ closes'[u] = closes[u] /\ fault'[u] = fault[u]
    /\ u \in open' <=> u \in open
    /\ link' = link \/ (link.it # u /\ link'.it # u)

(***************************************************************************)
(* An iterator that a step leaves alone stays as the invariant says.       *)
(***************************************************************************)
LEMMA SameKeeps ==
    ASSUME IInv, NEW u \in Iters, Same(u)
    PROVE  IterOK(u)'
<1>1. RecordsOK(u) /\ RequestOK(u) /\ PlaceOK(u) /\ CloseOK(u)
  BY DEF IInv, IterOK
<1>2. Arriving(u)' = Arriving(u)
  BY DEF Same, Arriving
<1>3. Records(u)' = Records(u)
  BY <1>2 DEF Same, Records
<1>4. RecordsOK(u)'
  BY <1>1, <1>3 DEF Same, RecordsOK, Lost
<1>5. PlaceOK(u)'
  BY <1>1 DEF Same, PlaceOK, Lost
<1>6. CloseOK(u)'
  BY <1>1 DEF Same, CloseOK
<1>7. RequestOK(u)'
  BY <1>1 DEF Same, RequestOK, Lost
<1> QED
  BY <1>4, <1>5, <1>6, <1>7 DEF IterOK

(***************************************************************************)
(* A step on one iterator.                                                 *)
(***************************************************************************)
LEMMA StepKeeps ==
    ASSUME IInv, NEW i \in Iters, TypeOK', LinkOK', IterOK(i)',
           \A u \in Iters \ {i} : Same(u)
    PROVE  IInv'
<1>1. \A u \in Iters : IterOK(u)'
  BY SameKeeps
<1> QED
  BY <1>1 DEF IInv

(***************************************************************************)
(* The records of an iterator stay what they are.                          *)
(***************************************************************************)
LEMMA RecordsStay ==
    ASSUME IInv, NEW i \in Iters, Records(i)' = Records(i), cursor' = cursor,
           Lost(i)' <=> Lost(i)
    PROVE  RecordsOK(i)'
<1>1. RecordsOK(i)
  BY DEF IInv, IterOK
<1> QED
  BY <1>1 DEF RecordsOK, Complete

(***************************************************************************)
(* No records are arriving but with a batch that its operation waits for.  *)
(***************************************************************************)
LEMMA ArrivingEmpty ==
    ASSUME IInv, NEW i \in Iters, link = NoRequest \/ ~link.answered \/ link.it # i
                                   \/ ~link.live \/ ~link.reply.ok \/ link.kind = "closing"
    PROVE  Arriving(i) = <<>>
<1>1. NoReply.results = <<>> /\ NoRequest.reply = NoReply
  BY DEF NoReply, NoRequest
<1> QED
  BY <1>1 DEF IInv, LinkOK, Arriving

(***************************************************************************)
(* Types of the parts of an iterator.                                      *)
(***************************************************************************)
LEMMA RecordTypes ==
    ASSUME TypeOK, NEW i \in Iters
    PROVE  /\ got[i] \in Seq(Rec) /\ batch[i] \in Seq(Rec) /\ Arriving(i) \in Seq(Rec)
           /\ Len(got[i]) \in Nat /\ Len(batch[i]) \in Nat
           /\ cursor[i] \in Nat /\ total[i] \in Nat /\ cursor[i] <= total[i]
           /\ total[i] <= MaxRecords
<1>1. got[i] \in Results /\ batch[i] \in Results
  BY DEF TypeOK
<1>2. got[i] \in Seq(Rec) /\ batch[i] \in Seq(Rec)
  BY <1>1, ResultsAreSequences
<1>3. Arriving(i) \in Seq(Rec)
  BY LinkTypes DEF Arriving
<1>4. cursor[i] \in 0 .. MaxRecords /\ total[i] \in 0 .. MaxRecords /\ cursor[i] <= total[i]
  BY DEF TypeOK
<1> QED
  BY <1>2, <1>3, <1>4, RecordsAssumption

(***************************************************************************)
(* No request of an operation is in flight that does not wait for one.     *)
(***************************************************************************)
LEMMA NoneAsked ==
    ASSUME IInv, NEW i \in Iters, step[i] \notin Asking
    PROVE  ~(link.it = i /\ link.live)
  BY LinkTypes DEF IInv, IterOK, RequestOK

(***************************************************************************)
(* A step that only moves the operation of an iterator and leaves its      *)
(* records, the request and the peer alone.                                *)
(***************************************************************************)
Moves(i) ==
    /\ step[i] \notin Asking
    /\ \E s \in Steps : step' = [step EXCEPT ![i] = s]
    /\ UNCHANGED <<batch, has_more, got, link, peerVars, fault>>
    /\ collecting' = collecting \/ collecting' = [collecting EXCEPT ![i] = TRUE]
    /\ closed' = closed \/ closed' = [closed EXCEPT ![i] = TRUE]
    /\ closed[i] => step'[i] # "closing"
    /\ \/ outcome' = outcome
       \/ \E r \in {"end", "closed", "drained"} : outcome' = [outcome EXCEPT ![i] = r]

LEMMA MovesKeeps ==
    ASSUME IInv, NEW i \in Iters, Moves(i), PlaceOK(i)', CloseOK(i)'
    PROVE  IInv'
<1>1. TypeOK'
  <2>1. TypeOK
    BY DEF IInv
  <2>2. step' \in [Iters -> Steps]
    BY <2>1 DEF TypeOK, Moves
  <2>3. collecting' \in [Iters -> BOOLEAN]
    BY <2>1 DEF TypeOK, Moves
  <2>4. closed' \in [Iters -> BOOLEAN]
    BY <2>1 DEF TypeOK, Moves
  <2>5. outcome' \in [Iters -> Outcomes]
    BY <2>1 DEF TypeOK, Moves, Outcomes
  <2> QED
    BY <2>1, <2>2, <2>3, <2>4, <2>5 DEF TypeOK, Moves, peerVars, Outcomes
<1>2. RecordsOK(i)'
  <2>1. Records(i)' = Records(i) /\ cursor' = cursor /\ Lost(i)' = Lost(i)
    BY DEF Moves, Records, Arriving, Lost, peerVars
  <2> QED
    BY <2>1, RecordsStay
<1>3. \A u \in Iters \ {i} : Same(u)
  BY DEF IInv, TypeOK, Moves, Same, peerVars
<1>4. LinkOK'
  BY DEF IInv, LinkOK, Moves
<1>5. RequestOK(i)'
  <2>1. RequestOK(i) /\ ~(link.it = i /\ link.live)
    BY NoneAsked DEF IInv, IterOK, Moves
  <2>2. closed[i] => closed'[i]
    BY DEF IInv, TypeOK, Moves
  <2> QED
    BY <2>1, <2>2 DEF RequestOK, Moves, Lost, peerVars
<1> QED
  BY <1>1, <1>2, <1>3, <1>4, <1>5, StepKeeps DEF IterOK

LEMMA QueryKeeps ==
    ASSUME IInv, NEW i \in Iters, Query(i)
    PROVE  IInv'
<1>1. Moves(i)
  BY DEF Query, Moves, Steps, Asking, IInv, TypeOK
<1>2. /\ step[i] = "new" /\ step'[i] = "opening" /\ PlaceOK(i) /\ CloseOK(i)
      /\ ~(link.it = i /\ link.live)
  BY NoneAsked DEF IInv, IterOK, TypeOK, Query, Asking
<1>3. PlaceOK(i)'
  BY <1>2 DEF Query, PlaceOK, Lost, peerVars
<1>4. CloseOK(i)'
  BY <1>2 DEF Query, CloseOK, peerVars
<1> QED
  BY <1>1, <1>3, <1>4, MovesKeeps

LEMMA NextStartsKeeps ==
    ASSUME IInv, NEW i \in Iters, NextStarts(i) \/ collect_remaining(i)
    PROVE  IInv'
<1>1. Moves(i)
  BY DEF NextStarts, collect_remaining, Moves, Steps, Asking, IInv, TypeOK
<1>2. /\ step[i] = "idle" /\ step'[i] = "next" /\ PlaceOK(i) /\ CloseOK(i)
      /\ ~(link.it = i /\ link.live)
  BY NoneAsked DEF IInv, IterOK, TypeOK, NextStarts, collect_remaining, Asking
<1>3. PlaceOK(i)'
  BY <1>2 DEF NextStarts, collect_remaining, PlaceOK, Lost, peerVars
<1>4. CloseOK(i)'
  BY <1>2 DEF NextStarts, collect_remaining, CloseOK, peerVars
<1> QED
  BY <1>1, <1>3, <1>4, MovesKeeps

LEMMA DroppedKeeps ==
    ASSUME IInv, NEW i \in Iters, Dropped(i)
    PROVE  IInv'
<1>1. Moves(i)
  BY DEF Dropped, Moves, Steps, Asking, IInv, TypeOK
<1>2. /\ step[i] = "idle" /\ step'[i] = "dropped" /\ PlaceOK(i) /\ CloseOK(i)
      /\ ~(link.it = i /\ link.live)
  BY NoneAsked DEF IInv, IterOK, TypeOK, Dropped, Asking
<1>3. PlaceOK(i)'
  BY <1>2 DEF Dropped, PlaceOK, Lost, peerVars
<1>4. CloseOK(i)'
  BY <1>2 DEF Dropped, CloseOK, peerVars
<1> QED
  BY <1>1, <1>3, <1>4, MovesKeeps

LEMMA NextFetchesKeeps ==
    ASSUME IInv, NEW i \in Iters, NextFetches(i)
    PROVE  IInv'
<1>1. Moves(i)
  BY DEF NextFetches, Moves, Steps, Asking, IInv, TypeOK
<1>2. /\ step[i] = "next" /\ step'[i] = "fetching" /\ PlaceOK(i) /\ CloseOK(i)
      /\ ~(link.it = i /\ link.live)
  BY NoneAsked DEF IInv, IterOK, TypeOK, NextFetches, Asking
<1>3. PlaceOK(i)'
  BY <1>2 DEF NextFetches, Exhausted, PlaceOK, Lost, peerVars
<1>4. CloseOK(i)'
  BY <1>2 DEF NextFetches, CloseOK, peerVars
<1> QED
  BY <1>1, <1>3, <1>4, MovesKeeps

LEMMA NextEndsKeeps ==
    ASSUME IInv, NEW i \in Iters, NextEnds(i)
    PROVE  IInv'
<1>1. Moves(i)
  BY DEF NextEnds, Returns, Moves, Steps, Asking, IInv, TypeOK
<1>2. /\ step[i] = "next" /\ step'[i] = "idle" /\ outcome'[i] = "end"
      /\ PlaceOK(i) /\ CloseOK(i) /\ ~(link.it = i /\ link.live)
  BY NoneAsked DEF IInv, IterOK, TypeOK, NextEnds, Returns, Asking
<1>3. PlaceOK(i)'
  BY <1>2 DEF NextEnds, Exhausted, PlaceOK, Lost, peerVars
<1>4. CloseOK(i)'
  BY <1>2 DEF NextEnds, CloseOK, peerVars
<1> QED
  BY <1>1, <1>3, <1>4, MovesKeeps

(***************************************************************************)
(* close, called by the chaincode or at the end of collect_remaining: the  *)
(* first call sets the flag and goes on to the request, a later one        *)
(* returns.                                                                *)
(***************************************************************************)
LEMMA CloseKeeps ==
    ASSUME IInv, NEW i \in Iters, close(i) \/ CollectCloses(i)
    PROVE  IInv'
<1>1. /\ Closing(i) /\ step[i] \in {"idle", "next"}
      /\ UNCHANGED <<collecting, batch, has_more, got, link, peerVars, fault>>
  BY DEF close, CollectCloses
<1>2. Moves(i)
  BY <1>1 DEF Closing, Returns, Moves, Steps, Asking, IInv, TypeOK
<1>3. /\ PlaceOK(i) /\ CloseOK(i) /\ ~(link.it = i /\ link.live)
  BY <1>1, NoneAsked DEF IInv, IterOK, Asking
<1>4. CASE closed[i]
  <2>1. /\ step'[i] \in {"idle", "dropped"} /\ outcome'[i] \in {"closed", "drained"}
        /\ closed' = closed /\ (collecting[i] => step'[i] # "idle")
    BY <1>1, <1>4 DEF IInv, TypeOK, Closing, Returns
  <2>2. PlaceOK(i)'
    BY <1>1, <1>3, <1>4, <2>1 DEF PlaceOK, Lost, peerVars
  <2>3. CloseOK(i)'
    BY <1>1, <1>3, <1>4, <2>1 DEF CloseOK, peerVars
  <2> QED
    BY <1>2, <2>2, <2>3, MovesKeeps
<1>5. CASE ~closed[i]
  <2>1. step'[i] = "closing" /\ closed'[i] = TRUE /\ outcome' = outcome
    BY <1>1, <1>5 DEF IInv, TypeOK, Closing
  <2>2. closes[i] \in Nat
    BY DEF IInv, TypeOK
  <2>3. PlaceOK(i)'
    <3>1. collecting[i] => ~has_more[i] /\ batch[i] = <<>>
      BY <1>3, <1>5 DEF close, CollectCloses, Exhausted, PlaceOK
    <3> QED
      BY <1>1, <1>3, <1>5, <2>1, <3>1 DEF PlaceOK, Lost, peerVars
  <2>4. CloseOK(i)'
    BY <1>1, <1>3, <1>5, <2>1, <2>2 DEF CloseOK, peerVars
  <2> QED
    BY <1>2, <2>3, <2>4, MovesKeeps
<1> QED
  BY <1>4, <1>5

-----------------------------------------------------------------------------
(* Records on their way *)

(***************************************************************************)
(* next takes the first record of the batch: the records stay the same.    *)
(***************************************************************************)
LEMMA PopKeeps ==
    ASSUME NEW g \in Seq(Rec), NEW b \in Seq(Rec), NEW a \in Seq(Rec), b # <<>>
    PROVE  /\ Append(g, Head(b)) \o Tail(b) \o a = g \o b \o a
           /\ Append(g, Head(b)) \in Seq(Rec) /\ Tail(b) \in Seq(Rec)
           /\ Len(Append(g, Head(b))) = Len(g) + 1 /\ Len(Tail(b)) = Len(b) - 1
<1>1. /\ Head(b) \in Rec /\ Head(b) = b[1] /\ Tail(b) \in Seq(Rec) /\ Len(Tail(b)) = Len(b) - 1
      /\ \A j \in 1 .. Len(Tail(b)) : Tail(b)[j] = b[j + 1]
      /\ Len(b) \in Nat /\ Len(b) > 0
  BY HeadTailProperties, EmptySeq, LenProperties
<1>2. /\ Append(g, Head(b)) \in Seq(Rec) /\ Len(Append(g, Head(b))) = Len(g) + 1
      /\ \A j \in 1 .. Len(g) : Append(g, Head(b))[j] = g[j]
      /\ Append(g, Head(b))[Len(g) + 1] = Head(b)
      /\ Len(g) \in Nat
  BY <1>1, AppendProperties, LenProperties
<1>3. Append(g, Head(b)) \o Tail(b) = g \o b
  <2> DEFINE x == Append(g, Head(b)) \o Tail(b)
             y == g \o b
  <2>1. /\ x \in Seq(Rec) /\ Len(x) = Len(g) + Len(b)
        /\ \A j \in 1 .. Len(g) + Len(b) :
              x[j] = IF j <= Len(g) + 1 THEN Append(g, Head(b))[j] ELSE Tail(b)[j - (Len(g) + 1)]
    BY <1>1, <1>2, ConcatProperties
  <2>2. /\ y \in Seq(Rec) /\ Len(y) = Len(g) + Len(b)
        /\ \A j \in 1 .. Len(g) + Len(b) : y[j] = IF j <= Len(g) THEN g[j] ELSE b[j - Len(g)]
    BY ConcatProperties
  <2>3. ASSUME NEW j \in 1 .. Len(g) + Len(b) PROVE x[j] = y[j]
    <3>1. CASE j <= Len(g)
      BY <1>1, <1>2, <2>1, <2>2, <3>1
    <3>2. CASE j = Len(g) + 1
      BY <1>1, <1>2, <2>1, <2>2, <3>2
    <3>3. CASE j > Len(g) + 1
      <4>1. j - (Len(g) + 1) \in 1 .. Len(Tail(b)) /\ (j - (Len(g) + 1)) + 1 = j - Len(g)
        BY <1>1, <1>2, <3>3
      <4> QED
        BY <1>1, <1>2, <2>1, <2>2, <3>3, <4>1
    <3> QED
      BY <1>1, <1>2, <3>1, <3>2, <3>3
  <2> HIDE DEF x, y
  <2>4. x = y
    BY <2>1, <2>2, <2>3, SeqEqual
  <2> QED
    BY <2>4 DEF x, y
<1> QED
  BY <1>1, <1>2, <1>3

(***************************************************************************)
(* next returns the first record of the batch, or that it does not decode. *)
(***************************************************************************)
LEMMA NextPopsKeeps ==
    ASSUME IInv, NEW i \in Iters, NextPops(i)
    PROVE  IInv'
<1> USE DEF peerVars
<1>1. /\ TypeOK /\ LinkOK /\ RecordsOK(i) /\ RequestOK(i) /\ PlaceOK(i) /\ CloseOK(i)
      /\ step[i] = "next" /\ batch[i] # <<>> /\ ~(link.it = i /\ link.live)
  BY NoneAsked DEF IInv, IterOK, NextPops, Asking
<1>2. /\ batch' = [batch EXCEPT ![i] = Tail(batch[i])]
      /\ got' = [got EXCEPT ![i] = Append(got[i], Head(batch[i]))]
      /\ UNCHANGED <<collecting, has_more, closed, link, peerVars, fault>>
  BY DEF NextPops
<1>3. /\ got'[i] = Append(got[i], Head(batch[i])) /\ batch'[i] = Tail(batch[i])
      /\ \A u \in Iters \ {i} : got'[u] = got[u] /\ batch'[u] = batch[u]
  BY <1>1, <1>2 DEF TypeOK
<1>4. /\ step' \in [Iters -> Steps] /\ outcome' \in [Iters -> Outcomes]
      /\ \/ step'[i] = "next" /\ outcome'[i] = outcome[i]
         \/ step'[i] \in {"idle", "dropped"} /\ outcome'[i] \in {"failed", "record"}
      /\ collecting[i] => step'[i] # "idle"
      /\ \A u \in Iters \ {i} : step'[u] = step[u] /\ outcome'[u] = outcome[u]
  BY <1>1 DEF NextPops, Returns, TypeOK, Outcomes, Steps
<1>5. /\ got[i] \in Seq(Rec) /\ batch[i] \in Seq(Rec) /\ Arriving(i) \in Seq(Rec)
      /\ Len(got[i]) \in Nat /\ Len(batch[i]) \in Nat /\ cursor[i] \in Nat
      /\ cursor[i] <= MaxRecords
  BY <1>1, RecordTypes, RecordsAssumption
<1>6. /\ got'[i] \in Seq(Rec) /\ batch'[i] \in Seq(Rec)
      /\ Len(got'[i]) = Len(got[i]) + 1 /\ Len(batch'[i]) = Len(batch[i]) - 1
      /\ got'[i] \o batch'[i] \o Arriving(i) = got[i] \o batch[i] \o Arriving(i)
  <2> DEFINE g == got[i]
             b == batch[i]
             a == Arriving(i)
  <2>1. g \in Seq(Rec) /\ b \in Seq(Rec) /\ a \in Seq(Rec) /\ b # <<>>
    BY <1>1, <1>5
  <2>2. got'[i] = Append(g, Head(b)) /\ batch'[i] = Tail(b)
    BY <1>3
  <2> HIDE DEF g, b, a
  <2>3. /\ Append(g, Head(b)) \o Tail(b) \o a = g \o b \o a
        /\ Append(g, Head(b)) \in Seq(Rec) /\ Tail(b) \in Seq(Rec)
        /\ Len(Append(g, Head(b))) = Len(g) + 1 /\ Len(Tail(b)) = Len(b) - 1
    BY <2>1, PopKeeps
  <2>4. /\ got'[i] \in Seq(Rec) /\ batch'[i] \in Seq(Rec)
        /\ Len(got'[i]) = Len(g) + 1 /\ Len(batch'[i]) = Len(b) - 1
        /\ got'[i] \o batch'[i] \o a = g \o b \o a
    BY ONLY <2>2, <2>3, Zenon
  <2> QED
    BY <2>4, Zenon DEF g, b, a
<1>7. Records(i)' = Records(i)
  BY <1>2, <1>6 DEF Records, Arriving
<1>8. RecordsOK(i)'
  BY <1>2, <1>7, RecordsStay DEF Lost
<1>9. Len(got'[i]) <= MaxRecords /\ Len(batch'[i]) <= MaxRecords
  <2>1. Len(Records(i)) <= cursor[i]
    BY <1>1, <1>5, InOrderBounds DEF RecordsOK
  <2>2. Len(got'[i] \o batch'[i]) = Len(got'[i]) + Len(batch'[i])
        /\ got'[i] \o batch'[i] \in Seq(Rec)
    BY <1>6, ConcatProperties
  <2>3. Len(got'[i] \o batch'[i] \o Arriving(i)) = Len(got'[i] \o batch'[i]) + Len(Arriving(i))
    BY <1>5, <2>2, ConcatProperties
  <2>4. Records(i) = got'[i] \o batch'[i] \o Arriving(i)
    BY <1>6 DEF Records
  <2>5. Len(Arriving(i)) \in Nat /\ Len(got'[i]) \in Nat /\ Len(batch'[i]) \in Nat
    BY <1>5, <1>6, LenProperties
  <2>6. Len(Records(i)) = (Len(got'[i]) + Len(batch'[i])) + Len(Arriving(i))
    BY <2>2, <2>3, <2>4, Zenon
  <2>7. Len(got'[i]) <= cursor[i] /\ Len(batch'[i]) <= cursor[i]
    <3>1. (Len(got'[i]) + Len(batch'[i])) + Len(Arriving(i)) <= cursor[i]
      BY ONLY <2>1, <2>6, Zenon
    <3> DEFINE x == Len(got'[i])
               y == Len(batch'[i])
               z == Len(Arriving(i))
    <3>2. (x + y) + z <= cursor[i] /\ x \in Nat /\ y \in Nat /\ z \in Nat /\ cursor[i] \in Nat
      BY <1>5, <2>5, <3>1
    <3> HIDE DEF x, y, z
    <3>3. x <= cursor[i] /\ y <= cursor[i]
      BY ONLY <3>2
    <3> QED
      BY <3>3 DEF x, y, z
  <2>8. \A a, b, c \in Nat : a <= b /\ b <= c => a <= c
    OBVIOUS
  <2> QED
    BY <1>5, <2>5, <2>7, <2>8, RecordsAssumption, Zenon
<1>10. TypeOK'
  <2>1. got'[i] \in Results /\ batch'[i] \in Results
    BY <1>6, <1>9, ResultsAreSequences
  <2>2. got' \in [Iters -> Results] /\ batch' \in [Iters -> Results]
    BY <1>1, <1>2, <1>3, <2>1 DEF TypeOK
  <2> QED
    BY <1>1, <1>2, <1>4, <2>2 DEF TypeOK, Outcomes
<1>11. LinkOK'
  BY <1>1, <1>2 DEF LinkOK
<1>12. RequestOK(i)'
  BY <1>1, <1>2, <1>4 DEF RequestOK, Lost
<1>13. PlaceOK(i)'
  <2>1. Len(got'[i]) + Len(batch'[i]) = Len(got[i]) + Len(batch[i])
    <3>1. \A a, b \in Nat : (a + 1) + (b - 1) = a + b
      OBVIOUS
    <3> QED
      BY <1>5, <1>6, <3>1, Zenon
  <2> QED
    BY <1>1, <1>2, <1>4, <2>1 DEF PlaceOK, Lost
<1>14. CloseOK(i)'
  BY <1>1, <1>2, <1>4 DEF CloseOK
<1>15. \A u \in Iters \ {i} : Same(u)
  BY <1>2, <1>3, <1>4 DEF Same
<1> QED
  BY <1>8, <1>10, <1>11, <1>12, <1>13, <1>14, <1>15, StepKeeps DEF IterOK

-----------------------------------------------------------------------------
(* Requests *)

(***************************************************************************)
(* The request is taken out of flight.                                     *)
(***************************************************************************)
LEMMA LinkIsFree ==
    ASSUME NEW i \in Iters, link' = NoRequest
    PROVE  LinkOK' /\ RequestOK(i)' /\ Arriving(i)' = <<>> /\ link'.it # i
<1>1. /\ NoRequest.it = NoIter /\ NoRequest.kind = "closing" /\ NoRequest.live = FALSE
      /\ NoRequest.answered = FALSE /\ NoRequest.reply = NoReply
      /\ NoReply.ok = FALSE /\ NoReply.results = <<>>
  BY DEF NoRequest, NoReply
<1>2. NoIter # i
  BY NoIterAssumption
<1> QED
  BY <1>1, <1>2 DEF LinkOK, RequestOK, Arriving

(***************************************************************************)
(* An answer with records makes the batch: they move, and none is added.   *)
(***************************************************************************)
LEMMA BatchArrivesKeeps ==
    ASSUME IInv, NEW i \in Iters, new(i) \/ FetchReturns(i)
    PROVE  IInv'
<1> USE DEF peerVars
<1>1. /\ TypeOK /\ LinkOK /\ RecordsOK(i) /\ RequestOK(i) /\ PlaceOK(i) /\ CloseOK(i)
      /\ step[i] \in {"opening", "fetching"} /\ link.it = i /\ link.live /\ link.reply.ok
      /\ link.kind = step[i]
  BY DEF IInv, IterOK, new, FetchReturns, Answered, RequestOK
<1>2. /\ link' = NoRequest /\ batch' = [batch EXCEPT ![i] = link.reply.results]
      /\ has_more' = [has_more EXCEPT ![i] = link.reply.has_more]
      /\ UNCHANGED <<collecting, closed, got, peerVars, fault>>
  BY DEF new, FetchReturns
<1>3. /\ step' \in [Iters -> Steps] /\ outcome' \in [Iters -> Outcomes]
      /\ step'[i] \in {"idle", "next"} /\ outcome'[i] \in {"opened", outcome[i]}
      /\ step'[i] = "idle" => outcome'[i] = "opened" /\ step[i] = "opening"
      /\ \A u \in Iters \ {i} : step'[u] = step[u] /\ outcome'[u] = outcome[u]
  BY <1>1 DEF new, FetchReturns, TypeOK, Outcomes, Steps
<1>4. /\ batch[i] = <<>> /\ ~closed[i]
      /\ batch'[i] = link.reply.results /\ has_more'[i] = link.reply.has_more
      /\ \A u \in Iters \ {i} : batch'[u] = batch[u] /\ has_more'[u] = has_more[u]
  BY <1>1, <1>2 DEF TypeOK, PlaceOK
<1>5. /\ got[i] \in Seq(Rec) /\ link.reply.results \in Seq(Rec) /\ link.reply.results \in Results
      /\ link.reply.has_more \in BOOLEAN
      /\ Arriving(i) = link.reply.results
  BY <1>1, RecordTypes, LinkTypes, ResultsAreSequences DEF Arriving
<1>6. LinkOK' /\ RequestOK(i)' /\ Arriving(i)' = <<>> /\ link'.it # i
  BY <1>2, LinkIsFree
<1>7. /\ Records(i) = got[i] \o link.reply.results /\ Records(i)' = Records(i)
      /\ Len(Records(i)) = Len(got[i]) + Len(batch'[i])
  <2>1. /\ got[i] \o <<>> = got[i]
        /\ (got[i] \o link.reply.results) \o <<>> = got[i] \o link.reply.results
        /\ Len(got[i] \o link.reply.results) = Len(got[i]) + Len(link.reply.results)
    BY <1>5, ConcatProperties, ConcatEmptySeq
  <2> QED
    BY <1>2, <1>4, <1>5, <1>6, <2>1 DEF Records
<1>8. RecordsOK(i)'
  BY <1>2, <1>7, RecordsStay DEF Lost
<1>9. TypeOK'
  <2>1. batch' \in [Iters -> Results] /\ has_more' \in [Iters -> BOOLEAN]
    BY <1>1, <1>2, <1>5 DEF TypeOK
  <2> QED
    BY <1>1, <1>2, <1>3, <2>1 DEF TypeOK, Outcomes
<1>10. ~has_more'[i] /\ ~Lost(i) => Len(got[i]) + Len(batch'[i]) = total[i]
  BY <1>1, <1>4, <1>7 DEF RecordsOK, Complete, RequestOK
<1>11. PlaceOK(i)'
  BY <1>1, <1>2, <1>3, <1>4, <1>10 DEF PlaceOK, Lost
<1>12. CloseOK(i)'
  BY <1>1, <1>2, <1>3, <1>4, <1>6 DEF CloseOK
<1>13. \A u \in Iters \ {i} : Same(u)
  <2>1. \A u \in Iters \ {i} : link.it # u /\ link'.it # u
    BY <1>1, <1>2, LinkIsFree
  <2> QED
    BY <1>2, <1>3, <1>4, <2>1 DEF Same
<1> QED
  BY <1>6, <1>8, <1>9, <1>11, <1>12, <1>13, StepKeeps DEF IterOK

LEMMA CloseReturnsKeeps ==
    ASSUME IInv, NEW i \in Iters, CloseReturns(i)
    PROVE  IInv'
<1> USE DEF peerVars
<1>1. /\ TypeOK /\ LinkOK /\ RecordsOK(i) /\ RequestOK(i) /\ PlaceOK(i) /\ CloseOK(i)
      /\ step[i] = "closing" /\ link.it = i /\ link.live /\ link.reply.ok
      /\ link.kind = "closing"
  BY DEF IInv, IterOK, CloseReturns, Answered, RequestOK
<1>2. /\ link' = NoRequest
      /\ UNCHANGED <<collecting, batch, has_more, closed, got, peerVars, fault>>
  BY DEF CloseReturns
<1>3. /\ step' \in [Iters -> Steps] /\ outcome' \in [Iters -> Outcomes]
      /\ step'[i] \in {"idle", "dropped"} /\ outcome'[i] \in {"closed", "drained"}
      /\ collecting[i] => step'[i] # "idle"
      /\ \A u \in Iters \ {i} : step'[u] = step[u] /\ outcome'[u] = outcome[u]
  BY <1>1 DEF CloseReturns, Returns, TypeOK, Outcomes, Steps
<1>4. LinkOK' /\ RequestOK(i)' /\ Arriving(i)' = <<>> /\ link'.it # i
  BY <1>2, LinkIsFree
<1>5. RecordsOK(i)'
  <2>1. Arriving(i) = <<>>
    BY <1>1, ArrivingEmpty
  <2>2. Records(i)' = Records(i)
    BY <1>2, <1>4, <2>1 DEF Records
  <2> QED
    BY <1>2, <2>2, RecordsStay DEF Lost
<1>6. TypeOK'
  BY <1>1, <1>2, <1>3 DEF TypeOK, Outcomes
<1>7. PlaceOK(i)'
  BY <1>1, <1>2, <1>3 DEF PlaceOK, Lost
<1>8. CloseOK(i)'
  BY <1>1, <1>2, <1>3, <1>4 DEF CloseOK
<1>9. \A u \in Iters \ {i} : Same(u)
  <2>1. \A u \in Iters \ {i} : link.it # u /\ link'.it # u
    BY <1>1, <1>2, LinkIsFree
  <2> QED
    BY <1>2, <1>3, <2>1 DEF Same
<1> QED
  BY <1>4, <1>5, <1>6, <1>7, <1>8, <1>9, StepKeeps DEF IterOK

-----------------------------------------------------------------------------
(* Failures *)

(***************************************************************************)
(* An operation that ends with an error: the fault it leaves behind is     *)
(* "unclosed" for a close, "lost" where records were on their way.         *)
(***************************************************************************)
FailsWith(i, F) ==
    /\ step[i] \in Asking
    /\ Fails(i)
    /\ F \subseteq {"lost", "unclosed"} /\ Unclosed(i) \subseteq F
    /\ fault' = [fault EXCEPT ![i] = @ \cup F]
    /\ link' \in Requests \cup {NoRequest}

LEMMA FailsKeeps ==
    ASSUME IInv, NEW i \in Iters, NEW F, FailsWith(i, F),
           LinkOK', RequestOK(i)', RecordsOK(i)',
           link' = link \/ (link.it = i /\ link'.it \in {i, NoIter}),
           link'.it = i => link.it = i /\ link'.answered = link.answered
    PROVE  IInv'
<1> USE DEF peerVars
<1>1. /\ TypeOK /\ RecordsOK(i) /\ RequestOK(i) /\ PlaceOK(i) /\ CloseOK(i)
      /\ step[i] \in {"opening", "fetching", "closing"}
  BY DEF IInv, IterOK, FailsWith, Asking
<1>2. /\ step' \in [Iters -> Steps] /\ outcome' \in [Iters -> Outcomes]
      /\ step'[i] \in {"idle", "dropped"} /\ outcome'[i] = "failed"
      /\ step[i] = "opening" \/ collecting[i] => step'[i] = "dropped"
      /\ \A u \in Iters \ {i} : step'[u] = step[u] /\ outcome'[u] = outcome[u]
  BY <1>1 DEF FailsWith, Fails, TypeOK, Outcomes, Steps
<1>3. UNCHANGED <<collecting, batch, has_more, closed, got, peerVars>>
  BY DEF FailsWith, Fails
<1>4. /\ fault' \in [Iters -> SUBSET {"lost", "unclosed"}]
      /\ fault'[i] = fault[i] \cup F
      /\ \A u \in Iters \ {i} : fault'[u] = fault[u]
  BY <1>1 DEF FailsWith, TypeOK
<1>5. TypeOK'
  BY <1>1, <1>2, <1>3, <1>4 DEF TypeOK, Outcomes, FailsWith
<1>6. PlaceOK(i)'
  <2>1. ~Lost(i)' => ~Lost(i)
    BY <1>4 DEF Lost
  <2> QED
    BY <1>1, <1>2, <1>3, <2>1 DEF PlaceOK
<1>7. CloseOK(i)'
  <2>1. step[i] = "closing" => "unclosed" \in fault'[i]
    BY <1>4 DEF FailsWith, Unclosed
  <2>2. step[i] # "closing" => ~closed[i] /\ closes[i] # 1
    BY <1>1 DEF PlaceOK, CloseOK
  <2>3. closes[i] = 1 /\ link'.it = i => link'.answered
    BY <1>1 DEF CloseOK
  <2> QED
    BY <1>1, <1>2, <1>3, <2>1, <2>2, <2>3 DEF CloseOK
<1>8. \A u \in Iters \ {i} : Same(u)
  <2>1. \A u \in Iters \ {i} : link' = link \/ (link.it # u /\ link'.it # u)
    BY NoIterAssumption
  <2> QED
    BY <1>2, <1>3, <1>4, <2>1 DEF Same
<1> QED
  BY <1>5, <1>6, <1>7, <1>8, StepKeeps DEF IterOK

LEMMA RequestFailsKeeps ==
    ASSUME IInv, NEW i \in Iters, RequestFails(i)
    PROVE  IInv'
<1>1. FailsWith(i, Unclosed(i))
  BY DEF RequestFails, FailsWith, Unclosed
<1>2. /\ link.it = i /\ link' = NoRequest
      /\ LinkOK' /\ RequestOK(i)' /\ Arriving(i)' = <<>> /\ link'.it # i
  BY LinkIsFree DEF RequestFails, Answered
<1>3. RecordsOK(i)'
  <2>1. Arriving(i) = <<>>
    BY ArrivingEmpty DEF RequestFails
  <2>2. got' = got /\ batch' = batch /\ cursor' = cursor
    BY DEF RequestFails, Fails, peerVars
  <2>3. Lost(i)' <=> Lost(i)
    BY DEF IInv, TypeOK, RequestFails, Unclosed, Lost
  <2>4. Records(i)' = Records(i)
    BY <1>2, <2>1, <2>2 DEF Records
  <2> QED
    BY <2>2, <2>3, <2>4, RecordsStay
<1>4. link'.it = NoIter
  BY <1>2 DEF NoRequest
<1> QED
  BY <1>1, <1>2, <1>3, <1>4, FailsKeeps

LEMMA RequestRefusedKeeps ==
    ASSUME IInv, NEW i \in Iters, RequestRefused(i)
    PROVE  IInv'
<1>1. FailsWith(i, Unclosed(i))
  BY DEF RequestRefused, Refused, FailsWith, Unclosed, IInv, TypeOK
<1>2. ~link.live /\ link' = link /\ TypeOK /\ LinkOK /\ RequestOK(i)
  BY DEF RequestRefused, Refused, IInv, IterOK
<1>3. UNCHANGED <<got, batch, closed, cursor, total>>
  BY DEF RequestRefused, Fails, peerVars
<1>4. Lost(i)' <=> Lost(i)
  BY <1>2 DEF TypeOK, RequestRefused, Unclosed, Lost
<1>5. RecordsOK(i)'
  <2>1. Records(i)' = Records(i)
    BY <1>2, <1>3 DEF Records, Arriving
  <2> QED
    BY <1>3, <1>4, <2>1, RecordsStay
<1>6. LinkOK'
  BY <1>2 DEF LinkOK
<1>7. RequestOK(i)'
  <2>1. step'[i] # "closing"
    BY <1>2 DEF RequestRefused, Fails, TypeOK
  <2> QED
    BY <1>2, <1>3, <1>4, <2>1 DEF RequestOK
<1> QED
  BY <1>1, <1>2, <1>5, <1>6, <1>7, FailsKeeps

(***************************************************************************)
(* Records that were arriving are gone: the others are still in order.     *)
(***************************************************************************)
LEMMA RecordsAreLost ==
    ASSUME IInv, NEW i \in Iters, UNCHANGED <<got, batch, cursor>>,
           Arriving(i)' = <<>>, Lost(i)'
    PROVE  RecordsOK(i)'
<1>1. /\ got[i] \in Seq(Rec) /\ batch[i] \in Seq(Rec) /\ Arriving(i) \in Seq(Rec)
      /\ cursor[i] \in Nat /\ InOrder(Records(i), cursor[i])
  BY RecordTypes DEF IInv, IterOK, RecordsOK
<1> DEFINE r == got[i] \o batch[i]
<1>2. r \in Seq(Rec) /\ Records(i) = r \o Arriving(i)
  BY <1>1, ConcatProperties DEF Records
<1>3. Records(i)' = r \o <<>>
  BY DEF Records
<1> HIDE DEF r
<1>4. Records(i)' = r
  BY <1>2, <1>3, ConcatEmptySeq
<1>5. InOrder(r, cursor[i])
  BY <1>1, <1>2, InOrderPrefix
<1> QED
  BY <1>2, <1>4, <1>5 DEF RecordsOK, Complete

LEMMA ReplyUndecodableKeeps ==
    ASSUME IInv, NEW i \in Iters, ReplyUndecodable(i)
    PROVE  IInv'
<1>1. FailsWith(i, {"lost"})
  BY DEF ReplyUndecodable, FailsWith, Unclosed, Asking
<1>2. /\ link.it = i /\ link' = NoRequest
      /\ LinkOK' /\ RequestOK(i)' /\ Arriving(i)' = <<>> /\ link'.it # i
  BY LinkIsFree DEF ReplyUndecodable, Answered
<1>3. RecordsOK(i)'
  <2>1. UNCHANGED <<got, batch, cursor>>
    BY DEF ReplyUndecodable, Fails, peerVars
  <2>2. Lost(i)'
    BY DEF IInv, TypeOK, ReplyUndecodable, Lost
  <2> QED
    BY <1>2, <2>1, <2>2, RecordsAreLost
<1>4. link'.it = NoIter
  BY <1>2 DEF NoRequest
<1> QED
  BY <1>1, <1>2, <1>3, <1>4, FailsKeeps

(***************************************************************************)
(* A future is dropped, before or after its request was sent.              *)
(***************************************************************************)
LEMMA CancelledKeeps ==
    ASSUME IInv, NEW i \in Iters, Cancelled(i)
    PROVE  IInv'
<1>1. TypeOK /\ LinkOK /\ RequestOK(i) /\ PlaceOK(i)
  BY DEF IInv, IterOK
<1>2. UNCHANGED <<got, batch, closed, cursor, total>> /\ step'[i] \in {"idle", "dropped"}
  BY <1>1 DEF Cancelled, Fails, peerVars, TypeOK
<1>3. CASE link.it = i
  <2>1. /\ link \in Requests /\ link' = [link EXCEPT !.live = FALSE]
        /\ link' \in Requests
    BY <1>1, <1>3, LinkTypes DEF Cancelled, Requests
  <2>2. /\ link'.it = i /\ ~link'.live /\ link'.kind = link.kind
        /\ link'.answered = link.answered /\ link'.reply = link.reply
    BY <1>3, <2>1 DEF Requests
  <2>3. FailsWith(i, IF step[i] = "closing" THEN {"unclosed"} ELSE {"lost"})
    BY <1>3, <2>1 DEF Cancelled, FailsWith, Unclosed
  <2>4. Lost(i)' \/ (link.kind = "closing" /\ (Lost(i)' <=> Lost(i)))
    <3>1. CASE step[i] = "closing"
      <4>1. Lost(i)' <=> Lost(i)
        BY <1>1, <2>3, <3>1 DEF TypeOK, FailsWith, Lost
      <4> QED
        BY <1>1, <1>3, <3>1, <4>1 DEF RequestOK
    <3>2. CASE step[i] # "closing"
      BY <1>1, <2>3, <3>2 DEF TypeOK, FailsWith, Lost
    <3> QED
      BY <3>1, <3>2
  <2>5. RecordsOK(i)'
    <3>1. Arriving(i)' = <<>>
      BY <2>2 DEF Arriving
    <3>2. CASE Lost(i)'
      BY <1>2, <3>1, <3>2, RecordsAreLost
    <3>3. CASE link.kind = "closing" /\ (Lost(i)' <=> Lost(i))
      <4>1. Arriving(i) = <<>>
        BY <1>1, <3>3 DEF LinkOK, Arriving
      <4>2. Records(i)' = Records(i)
        BY <1>2, <3>1, <4>1 DEF Records
      <4> QED
        BY <1>2, <3>3, <4>2, RecordsStay
    <3> QED
      BY <2>4, <3>2, <3>3
  <2>6. LinkOK' /\ RequestOK(i)'
    BY <1>1, <1>2, <1>3, <2>2, <2>4 DEF LinkOK, RequestOK
  <2> QED
    BY <1>3, <2>2, <2>3, <2>5, <2>6, FailsKeeps
<1>4. CASE link.it # i
  <2>1. link' = link
    BY <1>4 DEF Cancelled
  <2>2. FailsWith(i, Unclosed(i))
    BY <1>1, <1>4, <2>1 DEF Cancelled, FailsWith, Unclosed, TypeOK
  <2>3. Lost(i)' <=> Lost(i)
    BY <1>1, <1>4 DEF TypeOK, Cancelled, Unclosed, Lost
  <2>4. RecordsOK(i)'
    <3>1. Records(i)' = Records(i)
      BY <1>2, <2>1 DEF Records, Arriving
    <3> QED
      BY <1>2, <2>3, <3>1, RecordsStay
  <2>5. LinkOK' /\ RequestOK(i)'
    BY <1>1, <1>4, <2>1 DEF LinkOK, RequestOK
  <2> QED
    BY <1>4, <2>1, <2>2, <2>4, <2>5, FailsKeeps
<1> QED
  BY <1>3, <1>4

-----------------------------------------------------------------------------
(* The request and the peer *)

(***************************************************************************)
(* A step of the request in flight, or of the peer, on one iterator.       *)
(***************************************************************************)
LEMMA PeerStepKeeps ==
    ASSUME IInv, NEW i \in Iters, UNCHANGED <<iterVars, total, fault>>,
           link' \in Requests \cup {NoRequest},
           link.it \in {i, NoIter}, link'.it \in {i, NoIter},
           cursor' \in [Iters -> 0 .. MaxRecords], cursor'[i] <= total[i],
           open' \subseteq Iters, closes' \in [Iters -> Nat],
           \A u \in Iters \ {i} : /\ cursor'[u] = cursor[u] /\ closes'[u] = closes[u]
                                  /\ u \in open' <=> u \in open,
           LinkOK', RequestOK(i)', RecordsOK(i)', CloseOK(i)'
    PROVE  IInv'
<1> USE DEF iterVars
<1>1. TypeOK /\ PlaceOK(i)
  BY DEF IInv, IterOK
<1>2. TypeOK'
  <2>1. \A u \in Iters : cursor'[u] <= total'[u]
    BY <1>1 DEF TypeOK
  <2> QED
    BY <1>1, <2>1 DEF TypeOK
<1>3. PlaceOK(i)'
  BY <1>1 DEF PlaceOK, Lost
<1>4. \A u \in Iters \ {i} : Same(u)
  BY NoIterAssumption DEF Same
<1> QED
  BY <1>2, <1>3, <1>4, StepKeeps DEF IterOK

(***************************************************************************)
(* The reply to a cancelled call comes.                                    *)
(***************************************************************************)
LEMMA LateReplyKeeps ==
    ASSUME IInv, LateReply
    PROVE  IInv'
<1>1. TypeOK /\ LinkOK
  BY DEF IInv
<1>2. PICK i \in Iters : link.it = i
  BY <1>1, LinkTypes DEF LateReply, NoRequest
<1>3. RecordsOK(i) /\ CloseOK(i) /\ ~link.live /\ UNCHANGED <<iterVars, peerVars, fault>>
  BY <1>2 DEF IInv, IterOK, LateReply
<1>4. /\ LinkOK' /\ RequestOK(i)' /\ Arriving(i)' = <<>> /\ link'.it # i
  BY <1>2, LinkIsFree DEF LateReply
<1>5. RecordsOK(i)'
  <2>1. Records(i)' = Records(i)
    BY <1>3, <1>4 DEF Records, Arriving, iterVars
  <2> QED
    BY <1>2, <1>3, <2>1, RecordsStay DEF peerVars, Lost
<1>6. CloseOK(i)'
  BY <1>3, <1>4 DEF CloseOK, iterVars, peerVars
<1>7. link' = NoRequest /\ link'.it = NoIter
  BY DEF LateReply, NoRequest
<1> QED
  BY <1>1, <1>2, <1>3, <1>4, <1>5, <1>6, <1>7, PeerStepKeeps DEF peerVars, TypeOK

(***************************************************************************)
(* An operation has the gate and sends its request.                        *)
(***************************************************************************)
LEMMA AskKeeps ==
    ASSUME IInv, NEW i \in Iters, Ask(i)
    PROVE  IInv'
<1>1. /\ TypeOK /\ RecordsOK(i) /\ PlaceOK(i) /\ CloseOK(i) /\ step[i] \in Asking
      /\ link = NoRequest /\ UNCHANGED <<iterVars, peerVars, fault>>
  BY DEF IInv, IterOK, Ask
<1>2. /\ link'.it = i /\ link'.kind = step[i] /\ link'.live /\ ~link'.answered
      /\ link'.reply = NoReply /\ ~NoReply.ok /\ NoReply.results = <<>>
      /\ link.it = NoIter
  BY <1>1 DEF Ask, NoReply, NoRequest
<1>3. link' \in Requests
  <2>1. NoReply \in Reply
    BY <1>1, LinkTypes DEF NoRequest
  <2> QED
    BY <1>1, <2>1 DEF Ask, Requests
<1>4. LinkOK'
  BY <1>2 DEF LinkOK
<1>5. closes[i] # 1
  <2>1. step[i] = "closing" => closes[i] = 0
    BY <1>1, <1>2, NoIterAssumption DEF CloseOK
  <2> QED
    BY <1>1, <2>1 DEF CloseOK, PlaceOK, Asking
<1>6. RequestOK(i)'
  BY <1>1, <1>2 DEF RequestOK, CloseOK, iterVars
<1>7. RecordsOK(i)'
  <2>1. Arriving(i) = <<>> /\ Arriving(i)' = <<>>
    BY <1>1, <1>2, ArrivingEmpty DEF Arriving
  <2>2. Records(i)' = Records(i)
    BY <1>1, <2>1 DEF Records, iterVars
  <2> QED
    BY <1>1, <2>2, RecordsStay DEF peerVars, Lost
<1>8. CloseOK(i)'
  <2>1. step[i] # "closing" => ~closed[i]
    BY <1>1 DEF PlaceOK, Asking
  <2> QED
    BY <1>1, <1>2, <1>5, <2>1 DEF CloseOK, iterVars, peerVars
<1> QED
  BY <1>1, <1>2, <1>3, <1>4, <1>6, <1>7, <1>8, PeerStepKeeps DEF peerVars, TypeOK

(***************************************************************************)
(* The peer answers with a batch of the next records.                      *)
(***************************************************************************)
LEMMA PeerBatchKeeps ==
    ASSUME IInv, PeerBatch
    PROVE  IInv'
<1>1. TypeOK /\ LinkOK
  BY DEF IInv
<1>2. link.it \in Iters /\ link \in Requests
  BY <1>1, LinkTypes DEF PeerBatch, NoRequest
<1>i. PICK i \in Iters : link.it = i
  BY <1>2
<1>3. RecordsOK(i) /\ RequestOK(i) /\ PlaceOK(i) /\ CloseOK(i)
  BY DEF IInv, IterOK
<1>4. PICK n \in 0 .. total[i] - cursor[i], more \in BOOLEAN :
          /\ cursor[i] + n < total[i] => more
          /\ cursor' = [cursor EXCEPT ![i] = cursor[i] + n]
          /\ link' = [link EXCEPT !.answered = TRUE,
                        !.reply = [ok |-> TRUE, has_more |-> more,
                                   results |-> [j \in 1 .. n |-> cursor[i] + j]]]
  <2>1. PICK n \in 0 .. total[link.it] - cursor[link.it], more \in BOOLEAN :
          /\ cursor[link.it] + n < total[link.it] => more
          /\ cursor' = [cursor EXCEPT ![link.it] = cursor[link.it] + n]
          /\ link' = [link EXCEPT !.answered = TRUE,
                        !.reply = [ok |-> TRUE, has_more |-> more,
                                   results |-> [j \in 1 .. n |-> cursor[link.it] + j]]]
    BY DEF PeerBatch
  <2>2. [j \in 1 .. n |-> cursor[link.it] + j] = [j \in 1 .. n |-> cursor[i] + j]
    BY <1>i
  <2>3. n \in 0 .. total[i] - cursor[i]
    BY <1>i
  <2> WITNESS n \in 0 .. total[i] - cursor[i], more \in BOOLEAN
  <2> QED
    BY <1>i, <2>1, <2>2
<1>5. /\ UNCHANGED <<iterVars, total, closes, fault>> /\ open' = open \cup {i}
      /\ ~link.answered /\ link.kind \in {"opening", "fetching"}
  BY <1>i DEF PeerBatch
<1> DEFINE s == [j \in 1 .. n |-> cursor[i] + j]
<1>7. /\ cursor[i] \in Nat /\ total[i] \in Nat /\ cursor[i] <= total[i] /\ total[i] <= MaxRecords
      /\ got[i] \in Seq(Rec) /\ batch[i] \in Seq(Rec)
  BY <1>1, <1>2, RecordTypes
<1>8. n \in Nat /\ cursor[i] + n \in Nat /\ cursor[i] + n <= total[i] /\ cursor[i] + n <= MaxRecords
  BY <1>7, RecordsAssumption
<1>9. /\ cursor'[i] = cursor[i] + n
      /\ \A u \in Iters \ {i} : cursor'[u] = cursor[u]
      /\ cursor' \in [Iters -> 0 .. MaxRecords]
  <2>1. cursor[i] + n \in 0 .. MaxRecords
    BY <1>8, RecordsAssumption
  <2> QED
    BY <1>1, <1>2, <1>4, <2>1 DEF TypeOK
<1>10. Arriving(i) = <<>>
  BY <1>2, <1>5, ArrivingEmpty
<1> DEFINE r == got[i] \o batch[i]
<1>11. r \in Seq(Rec) /\ Records(i) = r
  <2>1. r \in Seq(Rec) /\ Records(i) = r \o <<>>
    BY <1>7, <1>10, ConcatProperties DEF Records
  <2> HIDE DEF r
  <2> QED
    BY <2>1, ConcatEmptySeq
<1>12. InOrder(r, cursor[i]) /\ Complete(r, cursor[i], Lost(i))
  BY <1>3, <1>11 DEF RecordsOK
<1> HIDE DEF r
<1>13. /\ s \in Seq(Rec) /\ Len(s) = n /\ r \o s \in Seq(Rec) /\ Len(r \o s) = Len(r) + n
       /\ InOrder(r \o s, cursor[i] + n)
  BY <1>7, <1>8, <1>11, <1>12, InOrderExtends
<1>14. s \in Results
  <2>1. n <= MaxRecords
    BY <1>7, <1>8, RecordsAssumption
  <2> HIDE DEF s
  <2> QED
    BY <1>13, <2>1, ResultsAreSequences
<1>15. /\ link'.it = i /\ link'.kind = link.kind /\ link'.live = link.live /\ link'.answered
       /\ link'.reply.ok /\ link'.reply.has_more = more /\ link'.reply.results = s
       /\ link' \in Requests
  <2>1. [ok |-> TRUE, has_more |-> more, results |-> s] \in Reply
    BY <1>14 DEF Reply
  <2> HIDE DEF s
  <2>2. link' = [link EXCEPT !.answered = TRUE,
                             !.reply = [ok |-> TRUE, has_more |-> more, results |-> s]]
    BY <1>4 DEF s
  <2> QED
    BY <1>2, <1>i, <2>1, <2>2 DEF Requests
<1> HIDE DEF s
<1>16. LinkOK'
  BY <1>5, <1>15 DEF LinkOK
<1>17. RequestOK(i)'
  <2>1. ~more => cursor'[i] = total[i]
    BY <1>4, <1>7, <1>8, <1>9
  <2> QED
    BY <1>3, <1>5, <1>i, <1>15, <2>1 DEF RequestOK, Lost, iterVars
<1>18. RecordsOK(i)'
  <2>1. CASE link.live
    <3>1. Records(i)' = r \o s
      BY <1>5, <1>15, <2>1 DEF Records, Arriving, iterVars, r
    <3>2. Complete(r \o s, cursor[i] + n, Lost(i))
      BY <1>12, <1>13 DEF Complete
    <3> QED
      BY <1>5, <1>9, <1>13, <3>1, <3>2 DEF RecordsOK, Complete, Lost
  <2>2. CASE ~link.live
    <3>1. Lost(i) /\ Lost(i)'
      BY <1>3, <1>5, <1>i, <2>2 DEF RequestOK, Lost
    <3>2. Records(i)' = Records(i)
      BY <1>5, <1>10, <1>15, <2>2 DEF Records, Arriving, iterVars
    <3>3. InOrder(r, cursor[i] + n)
      <4>1. \A j \in 1 .. Len(r) : r[j] \in Nat
        BY <1>11, RecordIsNat
      <4> QED
        BY <1>7, <1>8, <1>12, <4>1 DEF InOrder
    <3> QED
      BY <1>9, <1>11, <3>1, <3>2, <3>3 DEF RecordsOK, Complete
  <2> QED
    BY <2>1, <2>2
<1>19. CloseOK(i)'
  BY <1>3, <1>5, <1>i, <1>15 DEF CloseOK, RequestOK, iterVars
<1> QED
  BY <1>1, <1>2, <1>5, <1>i, <1>8, <1>9, <1>15, <1>16, <1>17, <1>18, <1>19, PeerStepKeeps
     DEF TypeOK

(***************************************************************************)
(* The peer answers a close, or answers ERROR: no record is handed out.    *)
(***************************************************************************)
LEMMA PeerAnswersKeeps ==
    ASSUME IInv, PeerReleases \/ PeerFails
    PROVE  IInv'
<1>1. TypeOK /\ LinkOK
  BY DEF IInv
<1>2. link.it \in Iters /\ link \in Requests /\ ~link.answered /\ link.kind \in Asking
  BY <1>1, LinkTypes DEF PeerReleases, PeerFails
<1>i. PICK i \in Iters : link.it = i
  BY <1>2
<1>3. RecordsOK(i) /\ RequestOK(i) /\ PlaceOK(i) /\ CloseOK(i) /\ closes[i] \in Nat
  BY <1>1, <1>2 DEF IInv, IterOK, TypeOK
<1>4. /\ UNCHANGED <<iterVars, total, cursor, fault>>
      /\ open' = open \/ (open' = open \ {i} /\ link.kind = "closing")
      /\ closes' = IF link.kind = "closing" THEN [closes EXCEPT ![i] = closes[i] + 1] ELSE closes
  BY <1>i DEF PeerReleases, PeerFails
<1>5. link' = [link EXCEPT !.answered = TRUE, !.reply.ok = TRUE] \/ link' = [link EXCEPT !.answered = TRUE]
  BY DEF PeerReleases, PeerFails
<1>6. link.reply = NoReply /\ NoReply.results = <<>> /\ link.reply \in Reply
  BY <1>1, <1>2, LinkTypes DEF LinkOK, NoReply
<1>7. link'.reply.ok => link.kind = "closing" /\ open' = open \ {i}
  BY <1>2, <1>6, <1>i DEF PeerReleases, PeerFails, Requests, Reply, NoReply
<1>9. /\ link'.it = i /\ link'.kind = link.kind /\ link'.live = link.live /\ link'.answered
      /\ link'.reply.results = <<>> /\ link'.reply.has_more = link.reply.has_more
      /\ link' \in Requests
  BY <1>2, <1>5, <1>6, <1>i DEF Requests, Reply
<1>10. LinkOK'
  BY <1>9 DEF LinkOK
<1>11. RequestOK(i)'
  BY <1>3, <1>4, <1>7, <1>i, <1>9 DEF RequestOK, Lost, iterVars
<1>12. RecordsOK(i)'
  <2>1. Arriving(i) = <<>> /\ Arriving(i)' = <<>>
    BY <1>2, <1>9, ArrivingEmpty DEF Arriving
  <2>2. Records(i)' = Records(i)
    BY <1>4, <2>1 DEF Records, iterVars
  <2> QED
    BY <1>2, <1>4, <2>2, RecordsStay DEF Lost
<1>13. closes' \in [Iters -> Nat] /\ \A u \in Iters \ {i} : closes'[u] = closes[u]
  BY <1>1, <1>2, <1>3, <1>4 DEF TypeOK
<1>14. CloseOK(i)'
  <2>1. closes[i] = 0
    BY <1>2, <1>3, <1>i DEF CloseOK
  <2>2. closes'[i] = IF link.kind = "closing" THEN 1 ELSE 0
    BY <1>1, <1>2, <1>4, <2>1 DEF TypeOK
  <2>3. closed[i] /\ "unclosed" \notin fault[i] => step[i] = "closing"
    BY <1>3, <1>i DEF CloseOK
  <2>4. link.kind = "closing" => closed[i] /\ (step[i] = "closing" => link.live)
    BY <1>3, <1>i DEF RequestOK
  <2> QED
    BY <1>3, <1>4, <1>7, <1>i, <1>9, <2>1, <2>2, <2>3, <2>4 DEF CloseOK, iterVars
<1>15. /\ open' \subseteq Iters /\ \A u \in Iters \ {i} : u \in open' <=> u \in open
       /\ cursor'[i] <= total[i]
  BY <1>1, <1>2, <1>4 DEF TypeOK
<1> QED
  BY <1>1, <1>2, <1>4, <1>i, <1>9, <1>10, <1>11, <1>12, <1>13, <1>14, <1>15, PeerStepKeeps
     DEF TypeOK

-----------------------------------------------------------------------------
(* The invariant *)

LEMMA InitEstablishes == Init => IInv
<1> SUFFICES ASSUME Init PROVE IInv
  OBVIOUS
<1>1. <<>> \in Results /\ <<>> \in Seq(Rec) /\ Len(<<>>) = 0
  <2>1. <<>> \in Seq(Rec) /\ Len(<<>>) <= MaxRecords
    BY RecordsAssumption
  <2>2. <<>> \in Results
    BY ONLY <2>1, ResultsAreSequences, Zenon
  <2> QED
    BY <2>2
<1>2. total \in [Iters -> 0 .. MaxRecords]
  BY TotalsAssumption DEF Init
<1>3. 0 \in 0 .. MaxRecords /\ \A k \in 0 .. MaxRecords : 0 <= k
  BY RecordsAssumption
<1>4. TypeOK
  <2>1. \A i \in Iters : total[i] \in 0 .. MaxRecords
    BY <1>2
  <2>2. \A i \in Iters : cursor[i] <= total[i]
    BY <1>3, <2>1 DEF Init
  <2> QED
    BY <1>1, <1>2, <1>3, <2>2 DEF Init, TypeOK, Steps
<1>5. /\ link.it = NoIter /\ link.kind = "closing" /\ ~link.answered
      /\ link.reply = NoReply /\ NoReply.results = <<>>
  BY DEF Init, NoRequest, NoReply
<1>6. LinkOK
  BY <1>5 DEF LinkOK
<1>7. ASSUME NEW i \in Iters PROVE IterOK(i)
  <2>1. NoIter # i
    BY NoIterAssumption
  <2>2. /\ step[i] = "new" /\ batch[i] = <<>> /\ got[i] = <<>> /\ ~closed[i] /\ ~collecting[i]
        /\ outcome[i] = "none" /\ cursor[i] = 0 /\ closes[i] = 0 /\ open = {}
    BY DEF Init
  <2>3. Records(i) = <<>>
    BY <1>5, <2>1, <2>2 DEF Records, Arriving
  <2>4. RecordsOK(i)
    BY <1>1, <2>2, <2>3 DEF RecordsOK, InOrder, Complete
  <2>5. RequestOK(i) /\ PlaceOK(i) /\ CloseOK(i)
    BY <1>5, <2>1, <2>2 DEF RequestOK, PlaceOK, CloseOK
  <2> QED
    BY <2>4, <2>5 DEF IterOK
<1> QED
  BY <1>4, <1>6, <1>7 DEF IInv

(***************************************************************************)
(* Every step of the specification keeps the invariant.                    *)
(***************************************************************************)
LEMMA NextKeeps == IInv /\ [Next]_vars => IInv'
<1> SUFFICES ASSUME IInv, [Next]_vars PROVE IInv'
  OBVIOUS
<1>1. CASE UNCHANGED vars
  <2>1. TypeOK' /\ LinkOK'
    BY <1>1 DEF IInv, TypeOK, LinkOK, vars, iterVars, peerVars
  <2>2. \A u \in Iters : Same(u)
    BY <1>1 DEF Same, vars, iterVars, peerVars
  <2>3. \A u \in Iters : IterOK(u)'
    BY <2>2, SameKeeps
  <2> QED
    BY <2>1, <2>3 DEF IInv
<1>2. ASSUME NEW i \in Iters, Chaincode(i) PROVE IInv'
  BY <1>2, QueryKeeps, NextStartsKeeps, CloseKeeps, DroppedKeeps, CancelledKeeps DEF Chaincode
<1>3. ASSUME NEW i \in Iters, Shim(i) PROVE IInv'
  BY <1>3, BatchArrivesKeeps, NextPopsKeeps, NextEndsKeeps, NextFetchesKeeps, CloseKeeps,
     CloseReturnsKeeps, RequestFailsKeeps, RequestRefusedKeeps, ReplyUndecodableKeeps DEF Shim
<1>4. ASSUME NEW i \in Iters, Ask(i) PROVE IInv'
  BY <1>4, AskKeeps
<1>5. CASE LateReply \/ Peer
  BY <1>5, LateReplyKeeps, PeerBatchKeeps, PeerAnswersKeeps DEF Peer
<1> QED
  BY <1>1, <1>2, <1>3, <1>4, <1>5 DEF Next

(***************************************************************************)
(* The inductive invariant holds.                                          *)
(***************************************************************************)
THEOREM Invariance == Spec => []IInv
  BY InitEstablishes, NextKeeps, PTL DEF Spec

(***************************************************************************)
(* Every variable of the iterators has its type, in every reachable state. *)
(***************************************************************************)
THEOREM TypeCorrect == Spec => []TypeOK
<1>1. IInv => TypeOK
  BY DEF IInv
<1> QED
  BY <1>1, Invariance, PTL

(***************************************************************************)
(* next_raw returns no record twice and none out of order, for any number  *)
(* of queries, records and batches, whatever fails or is cancelled.        *)
(***************************************************************************)
THEOREM RecordsOnce == Spec => []NoRecordTwice
<1>1. IInv => NoRecordTwice
  BY DEF IInv, IterOK, RecordsOK, InOrder, NoRecordTwice
<1> QED
  BY <1>1, Invariance, PTL

(***************************************************************************)
(* Every record that the peer has handed out was returned, is in the batch *)
(* or is arriving, unless an answer was undecodable or given up.           *)
(***************************************************************************)
THEOREM RecordsKept == Spec => []NoRecordLost
<1>1. IInv => NoRecordLost
  BY DEF IInv, IterOK, RecordsOK, Complete, Lost, NoRecordLost
<1> QED
  BY <1>1, Invariance, PTL

(***************************************************************************)
(* next returns None only after the last record of the query.              *)
(***************************************************************************)
THEOREM EndIsTheEnd == Spec => []EndMeansAll
<1>1. ASSUME IInv PROVE EndMeansAll
  <2> SUFFICES ASSUME NEW i \in Iters, outcome[i] = "end", ~closed[i], ~Lost(i),
                      step[i] = "idle"
               PROVE  Len(got[i]) = total[i]
    BY DEF EndMeansAll, Lost
  <2>1. PlaceOK(i) /\ TypeOK
    BY <1>1 DEF IInv, IterOK
  <2>2. Len(got[i]) + Len(batch[i]) = total[i] /\ batch[i] = <<>>
    BY <2>1 DEF PlaceOK
  <2>3. Len(got[i]) \in Nat /\ Len(<<>>) = 0
    BY <2>1, RecordTypes
  <2> QED
    BY <2>2, <2>3
<1> QED
  BY <1>1, Invariance, PTL

(***************************************************************************)
(* collect_remaining goes on to close only after the last record of the    *)
(* query, so that it never returns a part of the records as Ok.            *)
(***************************************************************************)
THEOREM CollectIsComplete == Spec => []CollectsAll
<1>1. ASSUME IInv PROVE CollectsAll
  <2> SUFFICES ASSUME NEW i \in Iters, collecting[i], step[i] = "closing", ~Lost(i)
               PROVE  Len(got[i]) = total[i]
    BY DEF CollectsAll, Lost
  <2>1. PlaceOK(i) /\ TypeOK
    BY <1>1 DEF IInv, IterOK
  <2>2. Len(got[i]) + Len(batch[i]) = total[i] /\ batch[i] = <<>>
    BY <2>1 DEF PlaceOK
  <2>3. Len(got[i]) \in Nat /\ Len(<<>>) = 0
    BY <2>1, RecordTypes
  <2> QED
    BY <2>2, <2>3
<1> QED
  BY <1>1, Invariance, PTL

(***************************************************************************)
(* close and collect_remaining return Ok only when the peer has released   *)
(* the query, unless an earlier close failed or was given up.              *)
(***************************************************************************)
THEOREM ClosedIsReleased == Spec => []ClosedMeansReleased
<1>1. IInv => ClosedMeansReleased
  BY DEF IInv, IterOK, CloseOK, ClosedMeansReleased
<1> QED
  BY <1>1, Invariance, PTL

(***************************************************************************)
(* Once close was called, the query is asked for nothing but to be closed, *)
(* and that once.                                                          *)
(***************************************************************************)
THEOREM ClosedOnce == Spec => []NothingAfterClose
<1>1. ASSUME IInv PROVE NothingAfterClose
  <2> SUFFICES ASSUME NEW i \in Iters
               PROVE  /\ closes[i] <= 1
                      /\ closed[i] /\ link.it = i /\ link.live => link.kind = "closing"
                      /\ closes[i] = 1 /\ link.it = i => link.answered
    BY DEF NothingAfterClose
  <2>1. TypeOK /\ RequestOK(i) /\ PlaceOK(i) /\ CloseOK(i)
    BY <1>1 DEF IInv, IterOK
  <2>2. link.kind \in Asking
    BY <2>1, LinkTypes
  <2> QED
    BY <2>1, <2>2 DEF RequestOK, PlaceOK, CloseOK, Asking
<1> QED
  BY <1>1, Invariance, PTL

=============================================================================
