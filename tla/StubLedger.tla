----------------------------- MODULE StubLedger -----------------------------
(***************************************************************************)
(* The ledger API of ChaincodeStub (fabric-shim/src/stub.rs): which        *)
(* request a method sends, if its arguments let it send one, and what the  *)
(* entries of the ledger are afterwards.  One call at a time, as           *)
(* ShimConnection shows it to be; a call may fail at the peer.  Public     *)
(* state and private collections are told apart by the collection name in  *)
(* the request alone: the empty name is the public state.                  *)
(*                                                                         *)
(* Values are left out: an entry is there or not.                          *)
(***************************************************************************)
EXTENDS CompositeKey

CONSTANTS
    Components,     \* strings given as object types and attributes
    MaxAttributes,  \* bound: attributes of a composite key
    SimpleKeys,     \* strings given as keys; the empty one may be among them
    Collections,    \* strings given as collection names, likewise
    PageSizes,
    MaxEntries      \* bound: entries of the ledger

ASSUME LedgerBoundsAssumption ==
    MaxAttributes \in Nat /\ MaxEntries \in Nat /\ PageSizes \subseteq Nat \ {0}

(***************************************************************************)
(* A string is a sequence of code points.                                  *)
(***************************************************************************)
ASSUME StringsAssumption ==
    Components \cup SimpleKeys \cup Collections \subseteq Seq(0 .. MaxRune)

(***************************************************************************)
(* Keys that begin with the delimiter are made with create_composite_key.  *)
(***************************************************************************)
ASSUME SimpleKeysAssumption ==
    \A k \in SimpleKeys : k # <<>> => k[1] # COMPOSITE_KEY_NAMESPACE

VARIABLES
    ledger,   \* the entries: collection and key
    made,     \* ghost: the composite keys in the ledger and their parts
    called,   \* the last call: private data API or not, its collection, its keys
    answer,   \* the last partial composite key query and its keys
    walk      \* the range that is read page by page, and the keys it had so far

vars == <<ledger, made, called, answer, walk>>

Public == <<>>

Attributes == UNION {[1 .. n -> Components] : n \in 0 .. MaxAttributes}

NoAnswer == [object_type |-> <<>>, attributes |-> <<>>, keys |-> {}]

NoWalk == [state |-> "none", start |-> <<>>, end |-> <<>>, page_size |-> 0,
           bookmark |-> <<>>, keys |-> <<>>]

Init ==
    /\ ledger = {}
    /\ made = {}
    /\ called = [private |-> FALSE, collection |-> Public, keys |-> {}]
    /\ answer = NoAnswer
    /\ walk = NoWalk

-----------------------------------------------------------------------------
(* Requests and their effect at the peer (external) *)

Entry(collection, key) == [collection |-> collection, key |-> key]

PeerGets(collection, key) == {k \in {key} : Entry(collection, k) \in ledger}

PeerPuts(collection, key) == ledger' = ledger \cup {Entry(collection, key)}

PeerDeletes(collection, key) == ledger' = ledger \ {Entry(collection, key)}

PeerRange(collection, start, end) ==
    {e.key : e \in {f \in ledger : f.collection = collection /\ InRange(f.key, start, end)}}

(***************************************************************************)
(* A page of a range: it begins at the bookmark, if there is one, and the  *)
(* bookmark it comes with is the key after its last one, or empty.         *)
(***************************************************************************)
PeerPage(start, end, page_size, bookmark) ==
    LET from == IF bookmark = <<>> THEN start ELSE bookmark
        keys == InOrder(PeerRange(Public, from, end))
    IN  IF Len(keys) <= page_size
          THEN [keys |-> keys, bookmark |-> <<>>]
          ELSE [keys |-> SubSeq(keys, 1, page_size), bookmark |-> keys[page_size + 1]]

-----------------------------------------------------------------------------
(* Shared helpers *)

Mutant_require_collection(collection) == TRUE

require_collection(collection) == collection # <<>>

Call(private, collection, keys) ==
    called' = [private |-> private, collection |-> collection, keys |-> keys]

(***************************************************************************)
(* Calls with no effect on the ledger.                                     *)
(***************************************************************************)
Reads(private, collection, keys) ==
    /\ Call(private, collection, keys)
    /\ answer' = NoAnswer /\ walk' = NoWalk
    /\ UNCHANGED <<ledger, made>>

get_data(private, collection, key) == Reads(private, collection, PeerGets(collection, key))

put_data(private, collection, key) ==
    /\ key # <<>>
    /\ Cardinality(ledger \cup {Entry(collection, key)}) <= MaxEntries
    /\ PeerPuts(collection, key)
    /\ Call(private, collection, {})
    /\ answer' = NoAnswer /\ walk' = NoWalk

del_data(private, collection, key) ==
    /\ PeerDeletes(collection, key)
    /\ Call(private, collection, {})
    /\ answer' = NoAnswer /\ walk' = NoWalk

range_query(private, collection, start, end) ==
    Reads(private, collection, PeerRange(collection, start, end))

-----------------------------------------------------------------------------
(* World state *)

get_state(key) == get_data(FALSE, Public, key)

put_state(key) ==
    /\ put_data(FALSE, Public, key)
    /\ UNCHANGED made

del_state(key) ==
    /\ del_data(FALSE, Public, key)
    /\ made' = {m \in made : m.key # key}

get_state_by_range(start, end) == range_query(FALSE, Public, start, end)

(***************************************************************************)
(* The chaincode begins with an empty bookmark and goes on with the one it *)
(* got, until that is empty.                                               *)
(***************************************************************************)
Mutant_with_pagination(start, end, page_size, bookmark) ==
    PeerPage(start, end, page_size, <<>>)

get_state_by_range_with_pagination(start, end, page_size, bookmark) ==
    PeerPage(start, end, page_size, bookmark)

ReadPage(w) ==
    LET page == get_state_by_range_with_pagination(w.start, w.end, w.page_size, w.bookmark) IN
    /\ Call(FALSE, Public, Range(page.keys))
    /\ walk' = [w EXCEPT !.state = IF page.bookmark = <<>> THEN "end" ELSE "more",
                         !.bookmark = page.bookmark, !.keys = @ \o page.keys]
    /\ answer' = NoAnswer
    /\ UNCHANGED <<ledger, made>>

FirstPage(start, end, page_size) ==
    ReadPage([NoWalk EXCEPT !.start = start, !.end = end, !.page_size = page_size])

NextPage == walk.state = "more" /\ ReadPage(walk)

(***************************************************************************)
(* The chaincode stores an entry under a composite key.                    *)
(***************************************************************************)
PutComposite(object_type, attributes) ==
    LET key == create_composite_key(object_type, attributes) IN
    /\ Composable(object_type, attributes)
    /\ put_data(FALSE, Public, key)
    /\ made' = made \cup {[key |-> key, object_type |-> object_type,
                           attributes |-> attributes]}

get_state_by_partial_composite_key(object_type, attributes) ==
    LET range == PartialRange(object_type, attributes)
        keys == PeerRange(Public, range[1], range[2])
    IN
    /\ Composable(object_type, attributes)
    /\ Call(FALSE, Public, keys)
    /\ answer' = [object_type |-> object_type, attributes |-> attributes, keys |-> keys]
    /\ walk' = NoWalk
    /\ UNCHANGED <<ledger, made>>

-----------------------------------------------------------------------------
(* Private data *)

(***************************************************************************)
(* get_private_data and get_private_data_hash.                             *)
(***************************************************************************)
get_private_data(collection, key) ==
    require_collection(collection) /\ get_data(TRUE, collection, key)

put_private_data(collection, key) ==
    /\ require_collection(collection)
    /\ put_data(TRUE, collection, key)
    /\ UNCHANGED made

del_private_data(collection, key) ==
    /\ require_collection(collection)
    /\ del_data(TRUE, collection, key)
    /\ UNCHANGED made

(***************************************************************************)
(* The peer also forgets the history of a key that is purged.              *)
(***************************************************************************)
purge_private_data(collection, key) ==
    /\ require_collection(collection)
    /\ PeerDeletes(collection, key)
    /\ Call(TRUE, collection, {})
    /\ answer' = NoAnswer /\ walk' = NoWalk
    /\ UNCHANGED made

get_private_data_by_range(collection, start, end) ==
    require_collection(collection) /\ range_query(TRUE, collection, start, end)

-----------------------------------------------------------------------------
(* A call that fails, with an invalid argument or at the peer, changes     *)
(* nothing.                                                                *)

CallFails == Reads(FALSE, Public, {})

Next ==
    \/ \E k \in SimpleKeys : get_state(k) \/ put_state(k) \/ del_state(k)
    \/ \E t \in Components, a \in Attributes :
          PutComposite(t, a) \/ get_state_by_partial_composite_key(t, a)
    \/ \E m \in made : get_state(m.key) \/ del_state(m.key)
    \/ \E k, l \in SimpleKeys : get_state_by_range(k, l)
    \/ \E k, l \in SimpleKeys, n \in PageSizes : FirstPage(k, l, n)
    \/ NextPage
    \/ \E c \in Collections, k \in SimpleKeys :
          \/ get_private_data(c, k) \/ put_private_data(c, k)
          \/ del_private_data(c, k) \/ purge_private_data(c, k)
          \/ \E l \in SimpleKeys : get_private_data_by_range(c, k, l)
    \/ CallFails

Spec == Init /\ [][Next]_vars

-----------------------------------------------------------------------------
(* Properties *)

(***************************************************************************)
(* create_composite_key and split_composite_key are inverse: every key     *)
(* splits into the parts it was made of, so two keys made of different     *)
(* parts are different.                                                    *)
(***************************************************************************)
RoundTrip ==
    \A m \in made : split_composite_key(m.key) = <<m.object_type, m.attributes>>

(***************************************************************************)
(* A partial composite key query finds the entries whose attributes begin  *)
(* with the given ones, all of them, and no others: not those of an object *)
(* type or attribute that merely begins with the same characters, and no   *)
(* simple keys.                                                            *)
(***************************************************************************)
PartialQueryExact ==
    answer # NoAnswer =>
        answer.keys = {m.key : m \in {n \in made :
                          /\ Entry(Public, n.key) \in ledger
                          /\ n.object_type = answer.object_type
                          /\ IsPrefix(answer.attributes, n.attributes)}}

(***************************************************************************)
(* A range read page by page, each page with the bookmark of the one       *)
(* before it, gives the keys of the range in order, none of them twice,    *)
(* and all of them when a page comes without a bookmark.                   *)
(***************************************************************************)
PagesExact ==
    LET keys == InOrder(PeerRange(Public, walk.start, walk.end)) IN
    /\ walk.state # "none" => IsPrefix(walk.keys, keys)
    /\ walk.state = "end" => walk.keys = keys

(***************************************************************************)
(* The private data API never reads or changes the public state, the       *)
(* public API never reads or changes a collection, and no call reads or    *)
(* changes a collection other than its own.                                *)
(***************************************************************************)
Isolation ==
    [][\A e \in (ledger \ ledger') \cup (ledger' \ ledger)
                 \cup {Entry(called'.collection, k) : k \in called'.keys} :
          /\ e.collection = called'.collection
          /\ called'.private <=> e.collection # Public]_vars

=============================================================================
