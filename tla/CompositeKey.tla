---------------------------- MODULE CompositeKey ----------------------------
(***************************************************************************)
(* Composite keys (fabric-shim/src/stub.rs) and the order in which the     *)
(* peer keeps keys.  A string is the sequence of its code points: the      *)
(* order of UTF-8 strings is the lexicographic one of their code points.   *)
(***************************************************************************)
EXTENDS Naturals, Sequences, FiniteSets, SequencesExt

CONSTANT MaxRune    \* bound: the largest code point (U+10FFFF)

ASSUME MaxRuneAssumption == MaxRune \in Nat \ {0}

COMPOSITE_KEY_NAMESPACE == 0

MAX_UNICODE_RUNE == MaxRune

(***************************************************************************)
(* The reserved characters would change how a key is split, or where it    *)
(* stands in a range; an empty component would be lost in splitting.       *)
(***************************************************************************)
Mutant_validate_NoMax(s) == s # <<>> /\ \A i \in DOMAIN s : s[i] # COMPOSITE_KEY_NAMESPACE

Mutant_validate_Empty(s) ==
    \A i \in DOMAIN s : s[i] \notin {COMPOSITE_KEY_NAMESPACE, MAX_UNICODE_RUNE}

validate_composite_component(s) ==
    /\ s # <<>>
    /\ \A i \in DOMAIN s : s[i] \notin {COMPOSITE_KEY_NAMESPACE, MAX_UNICODE_RUNE}

Composable(object_type, attributes) ==
    /\ validate_composite_component(object_type)
    /\ \A i \in DOMAIN attributes : validate_composite_component(attributes[i])

(***************************************************************************)
(* The key, if the parts are composable: pushed[i] is what it is after the *)
(* first i attributes.                                                     *)
(***************************************************************************)
create_composite_key(object_type, attributes) ==
    LET pushed[i \in 0 .. Len(attributes)] ==
            IF i = 0
              THEN <<COMPOSITE_KEY_NAMESPACE>> \o object_type \o <<COMPOSITE_KEY_NAMESPACE>>
              ELSE pushed[i - 1] \o attributes[i] \o <<COMPOSITE_KEY_NAMESPACE>>
    IN  pushed[Len(attributes)]

(***************************************************************************)
(* The segments of s between delimiters, without the empty ones: scan[i]   *)
(* has the segments of the first i characters, and the one that is open.   *)
(***************************************************************************)
Closed(p) == IF p.open = <<>> THEN p.parts ELSE Append(p.parts, p.open)

Segments(s) ==
    LET scan[i \in 0 .. Len(s)] ==
            IF i = 0 THEN [parts |-> <<>>, open |-> <<>>]
            ELSE IF s[i] = COMPOSITE_KEY_NAMESPACE
                   THEN [parts |-> Closed(scan[i - 1]), open |-> <<>>]
                   ELSE [parts |-> scan[i - 1].parts, open |-> Append(scan[i - 1].open, s[i])]
    IN  Closed(scan[Len(s)])

(***************************************************************************)
(* The object type and the attributes of a key; empty if it is not a       *)
(* composite key or has no object type.                                    *)
(***************************************************************************)
split_composite_key(key) ==
    IF key = <<>> \/ key[1] # COMPOSITE_KEY_NAMESPACE THEN <<>>
    ELSE LET parts == Segments(Tail(key)) IN
         IF parts = <<>> THEN <<>> ELSE <<parts[1], Tail(parts)>>

-----------------------------------------------------------------------------
(* Ranges of keys *)

Below(s, t) ==
    \/ IsStrictPrefix(s, t)
    \/ \E i \in DOMAIN s \cap DOMAIN t :
          s[i] < t[i] /\ \A j \in 1 .. i - 1 : s[j] = t[j]

(***************************************************************************)
(* The keys of a finite set in their order.                                *)
(***************************************************************************)
InOrder(S) ==
    CHOOSE keys \in [1 .. Cardinality(S) -> S] :
        /\ Range(keys) = S
        /\ \A i, j \in DOMAIN keys : i < j => Below(keys[i], keys[j])

(***************************************************************************)
(* The range [start, end); an empty bound is none.                         *)
(***************************************************************************)
InRange(key, start, end) ==
    /\ start = <<>> \/ ~Below(key, start)
    /\ end = <<>> \/ Below(key, end)

(***************************************************************************)
(* The bounds with which a partial composite key is queried.               *)
(***************************************************************************)
PartialRange(object_type, attributes) ==
    LET prefix == create_composite_key(object_type, attributes)
    IN  <<prefix, Append(prefix, MAX_UNICODE_RUNE)>>

=============================================================================
