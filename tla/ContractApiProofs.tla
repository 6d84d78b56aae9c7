------------------------ MODULE ContractApiProofs ---------------------------
(***************************************************************************)
(* Proofs about ContractApi, for any contract and any request.             *)
(***************************************************************************)
EXTENDS ContractApi, OrderFacts, FiniteSetTheorems, SequenceTheorems

-----------------------------------------------------------------------------
(* Elements selected from a sequence *)

(***************************************************************************)
(* A set of positions is finite.                                           *)
(***************************************************************************)
LEMMA FinitePositions ==
    ASSUME NEW L \in Nat, NEW P \in SUBSET (1 .. L)
    PROVE  IsFiniteSet(P) /\ Cardinality(P) \in Nat
<1>1. IsFiniteSet(1 .. L)
  BY FS_Interval
<1>2. IsFiniteSet(P)
  BY <1>1, FS_Subset
<1> QED
  BY <1>2, FS_CardinalityType

(***************************************************************************)
(* The k-th smallest of a set of positions exists.                         *)
(***************************************************************************)
LEMMA RankExists ==
    ASSUME NEW L \in Nat, NEW P \in SUBSET (1 .. L), NEW k \in 1 .. Cardinality(P)
    PROVE  \E n \in P : Cardinality({m \in P : m <= n}) = k
<1> DEFINE Low(n) == {m \in P : m <= n}
           T == {n \in Nat : k <= Cardinality(Low(n))}
<1>1. IsFiniteSet(P) /\ Cardinality(P) \in Nat /\ k \in Nat
  BY FinitePositions
<1>p. \A m \in P : m \in Nat /\ 1 <= m /\ m <= L
  OBVIOUS
<1>2. \A n : IsFiniteSet(Low(n)) /\ Cardinality(Low(n)) \in Nat
  <2> TAKE n
  <2>1. Low(n) \in SUBSET P
    OBVIOUS
  <2> HIDE DEF Low
  <2> QED
    BY <1>1, <2>1, FS_Subset, FS_CardinalityType
<1>3. L \in T
  <2>1. Low(L) = P
    BY <1>p
  <2> QED
    BY <1>1, <2>1
<1>4. Low(0) = {}
  <2>1. \A m \in P : ~(m <= 0)
    BY <1>p
  <2> QED
    BY <2>1, Zenon
<1>5. 0 \notin T
  BY <1>1, <1>4, FS_EmptySet
<1>6. T \in SUBSET Nat /\ T # {}
  BY <1>3
<1>7. PICK n \in T : \A j \in T : n <= j
  <2> HIDE DEF T
  <2> QED
    BY <1>6, LeastNat
<1>8. n \in Nat /\ n # 0 /\ k <= Cardinality(Low(n))
  BY <1>5
<1>9. n - 1 \in Nat /\ ~(n <= n - 1)
  BY <1>8
<1>10. ~(k <= Cardinality(Low(n - 1)))
  BY <1>7, <1>9
<1>11. Low(n) = Low(n - 1) \/ (n \in P /\ Low(n) = Low(n - 1) \cup {n})
  <2>1. \A m \in P : m <= n <=> m <= n - 1 \/ m = n
    BY <1>p, <1>8
  <2>2. CASE n \in P
    <3>1. Low(n) = Low(n - 1) \cup {n}
      BY <1>8, <2>1, <2>2
    <3> QED
      BY <2>2, <3>1
  <2>3. CASE n \notin P
    <3>1. Low(n) = Low(n - 1)
      BY <2>1, <2>3
    <3> QED
      BY <3>1
  <2> QED
    BY <2>2, <2>3
<1> HIDE DEF Low
<1>12. n \in P /\ Low(n) = Low(n - 1) \cup {n}
  <2>1. Low(n) # Low(n - 1)
    BY <1>8, <1>10
  <2> QED
    BY <1>11, <2>1
<1>13. Cardinality(Low(n)) <= Cardinality(Low(n - 1)) + 1
  <2>1. Cardinality(Low(n - 1) \cup {n}) \in {Cardinality(Low(n - 1)), Cardinality(Low(n - 1)) + 1}
    BY <1>2, FS_AddElement, Zenon
  <2> QED
    BY <1>2, <1>12, <2>1
<1>14. Cardinality(Low(n)) = k
  BY <1>1, <1>2, <1>8, <1>10, <1>13
<1> QED
  BY <1>12, <1>14 DEF Low

(***************************************************************************)
(* Selected picks elements at the positions it is given, one for each.     *)
(***************************************************************************)
LEMMA SelectedProperties ==
    ASSUME NEW S, NEW s \in Seq(S), NEW P \in SUBSET (1 .. Len(s))
    PROVE  /\ Selected(s, P) \in Seq(S)
           /\ Len(Selected(s, P)) = Cardinality(P)
           /\ \A k \in 1 .. Cardinality(P) : \E n \in P : Selected(s, P)[k] = s[n]
           /\ Selected(s, P) = <<>> <=> P = {}
<1>1. Len(s) \in Nat
  OBVIOUS
<1>2. IsFiniteSet(P) /\ Cardinality(P) \in Nat
  BY <1>1, FinitePositions
<1> DEFINE At(k) == CHOOSE n \in P : Cardinality({m \in P : m <= n}) = k
<1>3. ASSUME NEW k \in 1 .. Cardinality(P) PROVE At(k) \in P
  BY <1>1, RankExists
<1> HIDE DEF At
<1>4. Selected(s, P) = [k \in 1 .. Cardinality(P) |-> s[At(k)]]
  BY DEF Selected, At
<1>5. \A k \in 1 .. Cardinality(P) : s[At(k)] \in S
  <2>1. \A n \in 1 .. Len(s) : s[n] \in S
    OBVIOUS
  <2> QED
    BY <1>3, <2>1, Zenon
<1>6. Selected(s, P) \in Seq(S) /\ Len(Selected(s, P)) = Cardinality(P)
  BY <1>2, <1>4, <1>5
<1>7. \A k \in 1 .. Cardinality(P) : Selected(s, P)[k] = s[At(k)]
  BY <1>4
<1>8. Selected(s, P) = <<>> <=> Cardinality(P) = 0
  BY <1>2, <1>6, EmptySeq
<1>9. Cardinality(P) = 0 <=> P = {}
  BY <1>2, FS_EmptySet
<1> QED
  BY <1>3, <1>6, <1>7, <1>8, <1>9

-----------------------------------------------------------------------------
(* Names *)

(***************************************************************************)
(* The words of a name, joined in CamelCase, are a name.                   *)
(***************************************************************************)
LEMMA CamelIsName ==
    ASSUME NEW name \in Name
    PROVE  to_upper_camel_case(name) \in Name
<1>1. WordsOf(name) \in Seq(Token)
  <2> DEFINE P == {n \in DOMAIN name : name[n].style # "mark"}
  <2>1. P \in SUBSET (1 .. Len(name))
    BY DEF Name
  <2> HIDE DEF P
  <2>2. Selected(name, P) \in Seq(Token)
    BY <2>1, SelectedProperties DEF Name
  <2> QED
    BY <2>2 DEF WordsOf, P
<1>2. ASSUME NEW k \in Token, NEW s \in {"lower", "Capital", "UPPER"}
      PROVE  InStyle(k, s) \in Token
  <2>1. CASE k.style = "mark"
    BY <2>1 DEF InStyle
  <2>2. CASE k.style # "mark"
    <3>1. k \in [text: Words, style: {"lower", "Capital", "UPPER"}]
      BY <2>2 DEF Token
    <3>2. [k EXCEPT !.style = s] \in [text: Words, style: {"lower", "Capital", "UPPER"}]
      BY <3>1
    <3> QED
      BY <2>2, <3>2 DEF InStyle, Token
  <2> QED
    BY <2>1, <2>2
<1>3. PICK w \in Seq(Token) : w = WordsOf(name)
  BY <1>1
<1>4. to_upper_camel_case(name) = [n \in DOMAIN w |-> InStyle(w[n], "Capital")]
  BY <1>3 DEF to_upper_camel_case, Camel
<1>5. DOMAIN w = 1 .. Len(w) /\ Len(w) \in Nat /\ \A n \in 1 .. Len(w) : w[n] \in Token
  OBVIOUS
<1>6. \A n \in 1 .. Len(w) : InStyle(w[n], "Capital") \in Token
  BY <1>2, <1>5
<1>7. to_upper_camel_case(name) \in [1 .. Len(w) -> Token]
  BY <1>4, <1>5, <1>6
<1> QED
  BY <1>5, <1>7 DEF Name

-----------------------------------------------------------------------------
(* What the macro reads in an item *)

LEMMA ItemTypes ==
    ASSUME NEW item \in Item
    PROVE  /\ item.kind \in {"fn", "const"} /\ item.attr \in {"none", "list", "bad"}
           /\ item.metas \in Seq(TxMeta) /\ item.ident \in Name
           /\ item.inputs \in Seq(FnArg)
           /\ \A n \in 1 .. Len(item.inputs) : n > 1 => item.inputs[n].kind # "receiver"
           /\ item.output.segment \in {"Result", "other", "none"}
           /\ item.output.args \in Seq(ArgTypes \cup {Unit})
  BY DEF Item, Inputs

(***************************************************************************)
(* The entries of #[transaction(...)] of given kinds.                      *)
(***************************************************************************)
LEMMA MetasProperties ==
    ASSUME NEW item \in Item, NEW K
    PROVE  /\ MetasOf(item, K) \in Seq(TxMeta)
           /\ \A k \in 1 .. Len(MetasOf(item, K)) : MetasOf(item, K)[k].kind \in K
           /\ MetasOf(item, K) = <<>> <=>
                 \A n \in DOMAIN item.metas : item.metas[n].kind \notin K
<1>1. item.metas \in Seq(TxMeta) /\ DOMAIN item.metas = 1 .. Len(item.metas)
  BY ItemTypes
<1> DEFINE P == {n \in DOMAIN item.metas : item.metas[n].kind \in K}
<1>2. P \in SUBSET (1 .. Len(item.metas)) /\ \A n \in P : item.metas[n].kind \in K
  BY <1>1
<1>3. P = {} <=> \A n \in DOMAIN item.metas : item.metas[n].kind \notin K
  OBVIOUS
<1>4. MetasOf(item, K) = Selected(item.metas, P)
  BY DEF MetasOf
<1> HIDE DEF P
<1>5. /\ Selected(item.metas, P) \in Seq(TxMeta)
      /\ Len(Selected(item.metas, P)) = Cardinality(P)
      /\ \A k \in 1 .. Cardinality(P) : \E n \in P : Selected(item.metas, P)[k] = item.metas[n]
      /\ Selected(item.metas, P) = <<>> <=> P = {}
  BY <1>1, <1>2, SelectedProperties
<1> QED
  BY <1>2, <1>3, <1>4, <1>5

(***************************************************************************)
(* The parameters of a method are its arguments from the third on.         *)
(***************************************************************************)
LEMMA ParamsProperties ==
    ASSUME NEW item \in Item
    PROVE  /\ Params(item) \in Seq(FnArg)
           /\ Len(Params(item)) = IF 3 <= Len(item.inputs) THEN Len(item.inputs) - 2 ELSE 0
           /\ \A n \in 1 .. Len(item.inputs) - 2 : Params(item)[n] = item.inputs[n + 2]
<1>1. PICK s \in Seq(FnArg) : s = item.inputs
  BY ItemTypes
<1>2. Len(s) \in Nat /\ \A i \in 3 .. Len(s) : s[i] \in FnArg
  OBVIOUS
<1>3. /\ SubSeq(s, 3, Len(s)) \in Seq(FnArg)
      /\ Len(SubSeq(s, 3, Len(s))) = IF 3 <= Len(s) THEN Len(s) - 3 + 1 ELSE 0
      /\ \A i \in 1 .. Len(s) - 3 + 1 : SubSeq(s, 3, Len(s))[i] = s[3 + i - 1]
  BY <1>2, SubSeqProperties
<1>4. Params(item) = SubSeq(s, 3, Len(s))
  BY <1>1 DEF Params
<1>5. Len(Params(item)) = IF 3 <= Len(s) THEN Len(s) - 2 ELSE 0
  BY <1>2, <1>3, <1>4
<1>6. ASSUME NEW n \in 1 .. Len(s) - 2 PROVE Params(item)[n] = s[n + 2]
  <2>1. n \in 1 .. Len(s) - 3 + 1 /\ 3 + n - 1 = n + 2
    BY <1>2
  <2> QED
    BY <1>3, <1>4, <2>1
<1> QED
  BY <1>1, <1>3, <1>4, <1>5, <1>6

(***************************************************************************)
(* A signature without errors is the documented one.                       *)
(***************************************************************************)
Documented(item) ==
    /\ Len(item.inputs) >= 2 /\ item.inputs[1].kind = "receiver"
    /\ \A n \in 3 .. Len(item.inputs) : item.inputs[n].kind = "ident"
    /\ item.output.segment = "Result" /\ item.output.args # <<>>

ErrorKinds == {"parse", "meta", "receiver", "context", "pattern", "result"}

LEMMA SignatureProperties ==
    ASSUME NEW item \in Item
    PROVE  /\ SignatureErrors(item) \in Seq(ErrorKinds)
           /\ SignatureErrors(item) = <<>> <=> Documented(item)
<1>1. PICK s \in Seq(FnArg) : s = item.inputs
  BY ItemTypes
<1>2. Len(s) \in Nat /\ (s = <<>> <=> Len(s) = 0)
  BY EmptySeq
<1>3. \A t \in ErrorKinds : <<t>> \in Seq(ErrorKinds) /\ <<t>> # <<>>
  OBVIOUS
<1>4. "receiver" \in ErrorKinds /\ "context" \in ErrorKinds /\ "result" \in ErrorKinds
      /\ "pattern" \in ErrorKinds
  BY DEF ErrorKinds
<1>5. CASE s = <<>> \/ s[1].kind # "receiver"
  <2>1. SignatureErrors(item) = <<"receiver">>
    BY <1>1, <1>5 DEF SignatureErrors
  <2>2. ~Documented(item)
    BY <1>1, <1>2, <1>5 DEF Documented
  <2> QED
    BY <1>3, <1>4, <2>1, <2>2
<1>6. CASE Len(s) = 1 /\ s[1].kind = "receiver"
  <2>1. SignatureErrors(item) = <<"context">>
    BY <1>1, <1>2, <1>6 DEF SignatureErrors
  <2>2. ~Documented(item)
    BY <1>1, <1>6 DEF Documented
  <2> QED
    BY <1>3, <1>4, <2>1, <2>2
<1>7. CASE Len(s) >= 2 /\ s[1].kind = "receiver"
  <2> DEFINE P == {n \in DOMAIN Params(item) : Params(item)[n].kind = "pattern"}
             patterns == Selected(Params(item), P)
  <2>0. patterns = Patterns(item)
    BY DEF Patterns
  <2>1. SignatureErrors(item) =
            IF patterns # <<>> THEN [n \in DOMAIN patterns |-> "pattern"]
            ELSE IF extract_result_ok(item.output) = None THEN <<"result">> ELSE <<>>
    <3>a. \A n \in Nat : n >= 2 => n # 0 /\ n # 1
      OBVIOUS
    <3>1. s # <<>> /\ Len(s) # 1
      BY <1>2, <1>7, <3>a, Zenon
    <3>2. ~(item.inputs = <<>> \/ item.inputs[1].kind # "receiver") /\ Len(item.inputs) # 1
      BY <1>1, <1>7, <3>1
    <3> HIDE DEF patterns
    <3> QED
      BY ONLY <2>0, <3>2 DEF SignatureErrors
  <2>2. P \in SUBSET (1 .. Len(Params(item)))
    BY ParamsProperties
  <2>3. \A n \in DOMAIN Params(item) : n \in P <=> Params(item)[n].kind = "pattern"
    OBVIOUS
  <2> HIDE DEF P
  <2>4. /\ patterns \in Seq(FnArg)
        /\ patterns = <<>> <=> P = {}
    BY <2>2, ParamsProperties, SelectedProperties
  <2>5. /\ Len(Params(item)) = Len(s) - 2 /\ DOMAIN Params(item) = 1 .. Len(s) - 2
        /\ \A n \in 1 .. Len(s) - 2 : Params(item)[n] = s[n + 2]
    BY <1>1, <1>2, <1>7, ParamsProperties
  <2>6. P = {} <=> \A n \in 3 .. Len(s) : s[n].kind = "ident"
    <3>1. \A n \in 3 .. Len(s) : s[n].kind \in {"ident", "pattern"}
      <4> SUFFICES ASSUME NEW n \in 3 .. Len(s) PROVE s[n].kind \in {"ident", "pattern"}
        OBVIOUS
      <4>1. n \in 1 .. Len(s) /\ n > 1
        BY <1>2
      <4>2. s[n] \in FnArg
        BY <4>1
      <4>3. s[n].kind # "receiver"
        BY <1>1, <4>1, ItemTypes
      <4> QED
        BY <4>2, <4>3 DEF FnArg
    <3>2. ASSUME P = {}, NEW n \in 3 .. Len(s) PROVE s[n].kind = "ident"
      <4>1. n - 2 \in 1 .. Len(s) - 2 /\ (n - 2) + 2 = n
        BY <1>2
      <4>2. s[n].kind # "pattern"
        BY <2>3, <2>5, <3>2, <4>1
      <4> QED
        BY <3>1, <4>2
    <3>3. ASSUME \A n \in 3 .. Len(s) : s[n].kind = "ident" PROVE P = {}
      <4>1. \A n \in 1 .. Len(s) - 2 : n + 2 \in 3 .. Len(s)
        BY <1>2
      <4>2. \A n \in 1 .. Len(s) - 2 : n \notin P
        BY <2>3, <2>5, <3>3, <4>1
      <4> QED
        BY <2>2, <2>5, <4>2
    <3> QED
      BY <3>2, <3>3
  <2>7. extract_result_ok(item.output) = None <=>
            ~(item.output.segment = "Result" /\ item.output.args # <<>>)
    <3>1. PICK a \in Seq(ArgTypes \cup {Unit}) : a = item.output.args
      BY ItemTypes
    <3>2. ASSUME a # <<>> PROVE a[1] # None
      <4>1. Len(a) \in Nat \ {0}
        BY <3>2, EmptySeq
      <4>2. a[1] \in ArgTypes \cup {Unit}
        BY <4>1
      <4> QED
        BY <4>2, TypesAssumption
    <3> QED
      BY <3>1, <3>2 DEF extract_result_ok
  <2> HIDE DEF patterns
  <2>8. CASE patterns # <<>>
    <3>1. DOMAIN patterns = 1 .. Len(patterns) /\ Len(patterns) \in Nat \ {0}
      BY <2>4, <2>8, EmptySeq
    <3>2. SignatureErrors(item) = [n \in 1 .. Len(patterns) |-> "pattern"]
      BY <2>1, <2>8, <3>1
    <3>3. SignatureErrors(item) \in Seq(ErrorKinds) /\ Len(SignatureErrors(item)) = Len(patterns)
      BY <1>4, <3>1, <3>2
    <3>4. SignatureErrors(item) # <<>>
      BY <3>1, <3>3, EmptySeq
    <3> QED
      BY <1>1, <2>4, <2>6, <2>8, <3>3, <3>4 DEF Documented
  <2>9. CASE patterns = <<>>
    BY <1>1, <1>3, <1>4, <1>7, <2>1, <2>4, <2>6, <2>7, <2>9 DEF Documented
  <2> QED
    BY <2>8, <2>9
<1>8. Len(s) = 0 \/ Len(s) = 1 \/ Len(s) >= 2
  <2>1. \A n \in Nat : n = 0 \/ n = 1 \/ n >= 2
    OBVIOUS
  <2> QED
    BY <1>2, <2>1, Zenon
<1> QED
  BY <1>2, <1>5, <1>6, <1>7, <1>8, Zenon

(***************************************************************************)
(* An item has errors exactly if it is not as the documentation demands.   *)
(***************************************************************************)
LEMMA ErrorsProperties ==
    ASSUME NEW item \in Item, IsTransaction(item)
    PROVE  /\ ItemErrors(item) \in Seq(ErrorKinds)
           /\ ItemErrors(item) = <<>> <=> AsDocumented(item)
           /\ ItemErrors(item) = <<>> => ~Skipped(item)
<1>1. item.attr \in {"list", "bad"}
  BY ItemTypes DEF IsTransaction
<1>2. CASE item.attr = "bad"
  <2>1. "parse" \in ErrorKinds
    BY DEF ErrorKinds
  <2>2. <<"parse">> \in Seq(ErrorKinds) /\ <<"parse">> # <<>>
    BY <2>1
  <2> QED
    BY <1>2, <2>2 DEF ItemErrors, AsDocumented
<1>3. CASE item.attr = "list"
  <2> DEFINE m == MetasOf(item, {"name value", "other"})
  <2>1. /\ m \in Seq(TxMeta)
        /\ m = <<>> <=> \A n \in DOMAIN item.metas : item.metas[n].kind \notin {"name value", "other"}
    BY MetasProperties
  <2>2. MetaErrors(item) = [n \in DOMAIN m |-> "meta"]
    BY DEF MetaErrors
  <2> HIDE DEF m
  <2>3. DOMAIN m = 1 .. Len(m) /\ Len(m) \in Nat
    BY <2>1, LenProperties, Zenon
  <2>4. MetaErrors(item) \in Seq(ErrorKinds) /\ Len(MetaErrors(item)) = Len(m)
    <3>1. "meta" \in ErrorKinds
      BY DEF ErrorKinds
    <3>2. MetaErrors(item) \in [1 .. Len(m) -> ErrorKinds]
      BY <2>2, <2>3, <3>1
    <3> QED
      BY <2>3, <3>2
  <2>5. MetaErrors(item) = <<>> <=> m = <<>>
    BY <2>1, <2>3, <2>4, EmptySeq
  <2>6. /\ SignatureErrors(item) \in Seq(ErrorKinds)
        /\ SignatureErrors(item) = <<>> <=> Documented(item)
    BY SignatureProperties
  <2>7. ItemErrors(item) = MetaErrors(item) \o SignatureErrors(item)
    BY <1>3 DEF ItemErrors
  <2>8. ItemErrors(item) \in Seq(ErrorKinds)
    BY <2>4, <2>6, <2>7, ConcatProperties
  <2>9. ItemErrors(item) = <<>> <=> MetaErrors(item) = <<>> /\ SignatureErrors(item) = <<>>
    BY <2>4, <2>6, <2>7, ConcatEqualIffEmpty
  <2> QED
    BY <1>3, <2>1, <2>5, <2>6, <2>8, <2>9 DEF AsDocumented, Documented, Skipped
<1> QED
  BY <1>1, <1>2, <1>3

(***************************************************************************)
(* The transaction that is read from a method.                             *)
(***************************************************************************)
LEMMA TransactionType ==
    ASSUME NEW item \in Item, IsTransaction(item), ~Skipped(item)
    PROVE  TransactionOf(item) \in TxMethod
<1>1. Documented(item)
  BY SignatureProperties DEF Skipped
<1> DEFINE tags == MetasOf(item, {"submit", "evaluate"})
           names == MetasOf(item, {"name"})
           ty == extract_result_ok(item.output)
           wire_name == IF names = <<>> THEN <<to_upper_camel_case(item.ident)>>
                        ELSE Last(names).name
           tag == IF tags = <<>> THEN "submit" ELSE Last(tags).kind
           ok_ty == IF ty = Unit THEN None ELSE ty
           params == [n \in DOMAIN Params(item) |->
                        [ident |-> Params(item)[n].ident, ty |-> Params(item)[n].ty]]
<1>2. TransactionOf(item) =
        [wire_name |-> wire_name, tag |-> tag, params |-> params, ok_ty |-> ok_ty]
  BY DEF TransactionOf
<1>3. wire_name \in Wire
  <2>1. CASE names = <<>>
    <3>1. to_upper_camel_case(item.ident) \in Name
      BY ItemTypes, CamelIsName
    <3> QED
      BY <2>1, <3>1 DEF Wire
  <2>2. CASE names # <<>>
    <3>1. names \in Seq(TxMeta)
      BY MetasProperties
    <3> HIDE DEF names
    <3>2. Len(names) \in Nat \ {0}
      BY <2>2, <3>1, EmptySeq
    <3>3. Last(names) \in TxMeta
      BY <3>1, <3>2 DEF Last
    <3> QED
      BY <2>2, <3>3 DEF TxMeta
  <2> QED
    BY <2>1, <2>2
<1>4. tag \in {"submit", "evaluate"}
  <2>1. CASE tags = <<>>
    BY <2>1
  <2>2. CASE tags # <<>>
    <3>1. tags \in Seq(TxMeta) /\ \A k \in 1 .. Len(tags) : tags[k].kind \in {"submit", "evaluate"}
      BY MetasProperties
    <3> HIDE DEF tags
    <3>2. Len(tags) \in Nat \ {0}
      BY <2>2, <3>1, EmptySeq
    <3> QED
      BY <2>2, <3>1, <3>2 DEF Last
  <2> QED
    BY <2>1, <2>2
<1>5. ok_ty \in ArgTypes \cup {None}
  <2>1. PICK a \in Seq(ArgTypes \cup {Unit}) : a = item.output.args
    BY ItemTypes
  <2>2. a # <<>> /\ ty = a[1]
    BY <1>1, <2>1 DEF Documented, extract_result_ok
  <2>3. Len(a) \in Nat \ {0}
    BY <2>2, EmptySeq
  <2>4. ty \in ArgTypes \cup {Unit}
    BY <2>2, <2>3
  <2> QED
    BY <2>4
<1>6. params \in Seq([ident: Name, ty: ArgTypes])
  <2>1. PICK p \in Seq(FnArg) : p = Params(item)
    BY ParamsProperties
  <2>2. DOMAIN p = 1 .. Len(p) /\ Len(p) \in Nat /\ \A n \in 1 .. Len(p) : p[n] \in FnArg
    OBVIOUS
  <2>3. \A n \in 1 .. Len(p) : [ident |-> p[n].ident, ty |-> p[n].ty] \in [ident: Name, ty: ArgTypes]
    BY <2>2 DEF FnArg
  <2>4. params = [n \in 1 .. Len(p) |-> [ident |-> p[n].ident, ty |-> p[n].ty]]
    BY <2>1, <2>2
  <2>5. params \in [1 .. Len(p) -> [ident: Name, ty: ArgTypes]]
    BY <2>3, <2>4
  <2> QED
    BY <2>2, <2>5
<1> HIDE DEF wire_name, tag, params, ok_ty
<1> QED
  BY <1>2, <1>3, <1>4, <1>5, <1>6 DEF TxMethod

-----------------------------------------------------------------------------
(* The inductive invariant *)

(***************************************************************************)
(* What has been read of the items after the first k of them.              *)
(***************************************************************************)
Faulty(n) == IsTransaction(contract.items[n]) /\ ItemErrors(contract.items[n]) # <<>>

Taken(n) == IsTransaction(contract.items[n]) /\ ~Skipped(contract.items[n])

HaveRead(k) ==
    /\ Range(errors) = {n \in 1 .. k : Faulty(n)}
    /\ Len(txs) = Cardinality({n \in 1 .. k : Taken(n)})

ReadOK ==
    /\ phase = "contract" => errors = <<>> /\ txs = <<>> /\ tx = 1
    /\ phase = "items" => tx <= Len(contract.items) + 1 /\ HaveRead(tx - 1)
    /\ phase \in {"new", "components", "parse", "done"} =>
          errors = <<>> /\ HaveRead(Len(contract.items))
    /\ phase = "rejected" /\ ~Refused => errors # <<>> /\ HaveRead(Len(contract.items))

(***************************************************************************)
(* The schemas collected, o, and the calls of components, s: the struct of *)
(* a call has its schema, and no other call is for its identifier.  A      *)
(* field of a struct that has a schema is registered, or it is still to be *)
(* visited by a call, or its type is t, which is visited next.             *)
(***************************************************************************)
RegisteredIn(o, t) == t \in {Plain, None} \/ o[contract.ident[t]] # None

Visited(s, o, t, x) ==
    \A j \in DOMAIN Fields(x) :
        \/ Fields(x)[j].ty = t \/ RegisteredIn(o, Fields(x)[j].ty)
        \/ \E i \in DOMAIN s : s[i].struct = x /\ s[i].field <= j

Calls(s, o) ==
    /\ \A i \in DOMAIN s : /\ o[contract.ident[s[i].struct]] = s[i].struct
                           /\ s[i].field <= Len(Fields(s[i].struct)) + 1
    /\ \A i, j \in DOMAIN s : contract.ident[s[i].struct] = contract.ident[s[j].struct] => i = j

Schemas(s, o, t) ==
    \A n \in Idents : o[n] # None => contract.ident[o[n]] = n /\ Visited(s, o, t, o[n])

SignaturesUpTo(i, j) ==
    \A k \in DOMAIN txs : \A l \in DOMAIN Signature(txs[k]) :
        k < i \/ (k = i /\ l < j) => RegisteredIn(out, Signature(txs[k])[l])

CollectOK ==
    /\ Calls(stack, out) /\ Schemas(stack, out, Plain)
    /\ phase \in {"contract", "items", "new"} => arg = 1
    /\ phase = "new" => tx = 1
    /\ phase = "components" => SignaturesUpTo(tx, arg)
    /\ response = "metadata" => stack = <<>> /\ SignaturesUpTo(Len(txs) + 1, 1)

(***************************************************************************)
(* How a call was refused.                                                 *)
(***************************************************************************)
CallOK ==
    /\ response # "none" <=> phase = "done"
    /\ phase = "parse" => tx \in Arms /\ Len(request.args) = Len(txs[tx].params)
    /\ response \in {"unknown function", "argument count", "invalid argument"} =>
          request.function # <<>>
    /\ phase = "parse" => request.function # <<>>
    /\ response = "unknown function" => Arms = {}
    /\ response = "argument count" => tx \in Arms /\ Len(request.args) # Len(txs[tx].params)
    /\ response = "invalid argument" =>
          /\ tx \in Arms /\ arg \in DOMAIN request.args
          /\ Len(request.args) = Len(txs[tx].params)
          /\ ~from_arg(txs[tx].params[arg].ty, request.args[arg])

IInv == TypeOK /\ ReadOK /\ CollectOK /\ CallOK

-----------------------------------------------------------------------------
(* Types *)

LEMMA SourceTypes ==
    ASSUME TypeOK
    PROVE  /\ contract.items \in Seq(Item)
           /\ contract.ident \in [Structs -> Idents]
           /\ \A s \in Structs : Fields(s) \in Seq(Field)
           /\ request.args \in Seq(SUBSET ArgTypes) /\ request.function \in Wire
  BY DEF TypeOK, Source, Struct, Request, Fields

(***************************************************************************)
(* The types of the parameters and the result of a transaction.            *)
(***************************************************************************)
LEMMA SignatureType ==
    ASSUME NEW m \in TxMethod
    PROVE  /\ Signature(m) \in Seq(ArgTypes)
           /\ \A n \in DOMAIN m.params : n \in DOMAIN Signature(m) /\ Signature(m)[n] = m.params[n].ty
           /\ m.ok_ty # None => \E n \in DOMAIN Signature(m) : Signature(m)[n] = m.ok_ty
<1>1. PICK p \in Seq([ident: Name, ty: ArgTypes]) : p = m.params
  BY DEF TxMethod
<1>2. Len(p) \in Nat /\ DOMAIN p = 1 .. Len(p) /\ \A n \in 1 .. Len(p) : p[n] \in [ident: Name, ty: ArgTypes]
  BY LenProperties, ElementOfSeq, Zenon
<1>3. m.ok_ty \in ArgTypes \cup {None}
  BY DEF TxMethod
<1> DEFINE f == [n \in 1 .. Len(p) |-> p[n].ty]
           g == IF m.ok_ty = None THEN <<>> ELSE <<m.ok_ty>>
<1>4. f \in Seq(ArgTypes) /\ Len(f) = Len(p)
  <2>1. f \in [1 .. Len(p) -> ArgTypes]
    BY <1>2
  <2> QED
    BY <1>2, <2>1
<1>5. g \in Seq(ArgTypes) /\ Len(g) = IF m.ok_ty = None THEN 0 ELSE 1
  BY <1>3
<1>6. m.ok_ty # None => g[1] = m.ok_ty
  OBVIOUS
<1>7. Signature(m) = f \o g
  BY <1>1, <1>2 DEF Signature
<1>8. \A n \in 1 .. Len(p) : f[n] = p[n].ty
  OBVIOUS
<1> HIDE DEF f, g
<1>9. /\ f \o g \in Seq(ArgTypes) /\ Len(f \o g) = Len(p) + Len(g)
      /\ \A i \in 1 .. Len(p) + Len(g) : (f \o g)[i] = IF i <= Len(p) THEN f[i] ELSE g[i - Len(p)]
      /\ DOMAIN (f \o g) = 1 .. Len(p) + Len(g)
  <2>1. /\ f \o g \in Seq(ArgTypes) /\ Len(f \o g) = Len(f) + Len(g)
        /\ \A i \in 1 .. Len(f) + Len(g) : (f \o g)[i] = IF i <= Len(f) THEN f[i] ELSE g[i - Len(f)]
    <3>1. f \in Seq(ArgTypes) /\ g \in Seq(ArgTypes)
      BY <1>4, <1>5, Zenon
    <3> QED
      BY ONLY <3>1, ConcatProperties
  <2>2. DOMAIN (f \o g) = 1 .. Len(f \o g)
    BY <2>1, LenProperties, Zenon
  <2> QED
    BY <1>4, <2>1, <2>2, Zenon
<1>10. \A n \in DOMAIN m.params : n \in DOMAIN Signature(m) /\ Signature(m)[n] = m.params[n].ty
  <2> SUFFICES ASSUME NEW n \in 1 .. Len(p)
               PROVE  n \in 1 .. Len(p) + Len(g) /\ (f \o g)[n] = p[n].ty
    BY <1>1, <1>2, <1>7, <1>9
  <2>1. n \in 1 .. Len(p) + Len(g) /\ n <= Len(p)
    BY <1>2, <1>5
  <2> QED
    BY <1>8, <1>9, <2>1
<1>11. ASSUME m.ok_ty # None PROVE \E n \in DOMAIN Signature(m) : Signature(m)[n] = m.ok_ty
  <2>1. Len(p) + 1 \in 1 .. Len(p) + Len(g) /\ ~(Len(p) + 1 <= Len(p)) /\ (Len(p) + 1) - Len(p) = 1
    BY <1>2, <1>5, <1>11
  <2>2. (f \o g)[Len(p) + 1] = g[(Len(p) + 1) - Len(p)]
    BY <1>9, <2>1
  <2>3. (f \o g)[Len(p) + 1] = m.ok_ty
    BY <1>6, <1>11, <2>1, <2>2
  <2> QED
    BY <1>7, <1>9, <2>1, <2>3
<1> QED
  BY <1>7, <1>9, <1>10, <1>11

(***************************************************************************)
(* A call of components for a type that is visited next.                   *)
(***************************************************************************)
LEMMA ComponentsKeeps ==
    ASSUME TypeOK, NEW t \in ArgTypes, NEW s \in Seq(Frame),
           Calls(s, out), Schemas(s, out, t), components(t, s)
    PROVE  /\ stack' \in Seq(Frame) /\ out' \in [Idents -> Structs \cup {None}]
           /\ Calls(stack', out') /\ Schemas(stack', out', Plain)
           /\ RegisteredIn(out', t)
           /\ \A n \in Idents : out[n] # None => out'[n] = out[n]
<1>1. /\ contract.ident \in [Structs -> Idents] /\ out \in [Idents -> Structs \cup {None}]
      /\ \A x \in Structs : Fields(x) \in Seq(Field)
  BY SourceTypes DEF TypeOK
<1>2. t = Plain \/ t \in Structs
  BY DEF ArgTypes
<1>f. ASSUME NEW x \in Structs, NEW j \in DOMAIN Fields(x) PROVE Fields(x)[j].ty \in ArgTypes
  <2>1. Fields(x)[j] \in Field
    BY <1>1
  <2> QED
    BY <2>1 DEF Field
<1>3. CASE RegisteredIn(out, t)
  <2>1. stack' = s /\ out' = out
    BY <1>3, TypesAssumption DEF components, RegisteredIn, ArgTypes
  <2>2. Schemas(s, out, Plain)
    BY <1>3 DEF Schemas, Visited
  <2> QED
    BY <1>1, <1>3, <2>1, <2>2
<1>4. CASE ~RegisteredIn(out, t)
  <2> DEFINE c == contract.ident[t]
             e == [struct |-> t, field |-> 1]
  <2>1. t \in Structs /\ c \in Idents /\ t # Plain /\ out[c] = None /\ t # None
    BY <1>1, <1>2, <1>4, TypesAssumption DEF RegisteredIn
  <2>2. out' = [out EXCEPT ![c] = t] /\ stack' = Append(s, e)
    BY <2>1 DEF components
  <2>3. /\ out' \in [Idents -> Structs \cup {None}] /\ out'[c] = t
        /\ \A n \in Idents \ {c} : out'[n] = out[n]
    BY <1>1, <2>1, <2>2
  <2>4. \A n \in Idents : out[n] # None => out'[n] = out[n]
    BY <2>1, <2>3
  <2>5. e \in Frame /\ e.struct = t /\ e.field = 1
    BY <2>1 DEF Frame
  <2> HIDE DEF c, e
  <2>6. /\ stack' \in Seq(Frame) /\ Len(stack') = Len(s) + 1 /\ Len(s) \in Nat
        /\ \A i \in 1 .. Len(s) : stack'[i] = s[i]
        /\ stack'[Len(s) + 1] = e
        /\ DOMAIN stack' = 1 .. Len(s) + 1 /\ DOMAIN s = 1 .. Len(s)
    BY <2>2, <2>5, AppendProperties, LenProperties
  <2>7. \A i \in 1 .. Len(s) : /\ s[i].struct \in Structs
                               /\ contract.ident[s[i].struct] \in Idents
                               /\ out[contract.ident[s[i].struct]] = s[i].struct
                               /\ s[i].field <= Len(Fields(s[i].struct)) + 1
                               /\ contract.ident[s[i].struct] # c
    <3> TAKE i \in 1 .. Len(s)
    <3>1. s[i] \in Frame
      OBVIOUS
    <3>2. s[i].struct \in Structs /\ s[i].struct # None
      BY <3>1, TypesAssumption DEF Frame, ArgTypes
    <3> QED
      BY <1>1, <2>1, <2>6, <3>2 DEF Calls
  <2>8. \A i \in 1 .. Len(s) + 1 : i \in 1 .. Len(s) \/ i = Len(s) + 1
    BY <2>6
  <2>9. Calls(stack', out')
    <3>1. ASSUME NEW i \in 1 .. Len(s) + 1
          PROVE  /\ out'[contract.ident[stack'[i].struct]] = stack'[i].struct
                 /\ stack'[i].field <= Len(Fields(stack'[i].struct)) + 1
      <4>1. CASE i \in 1 .. Len(s)
        BY <2>3, <2>6, <2>7, <4>1
      <4>2. CASE i = Len(s) + 1
        <5>1. Len(Fields(t)) \in Nat
          BY <1>1, <2>1
        <5>2. stack'[i].struct = t /\ stack'[i].field = 1
          BY <2>5, <2>6, <4>2
        <5> QED
          BY <2>3, <5>1, <5>2 DEF c
      <4> QED
        BY <2>8, <4>1, <4>2
    <3>2. ASSUME NEW i \in 1 .. Len(s) + 1, NEW j \in 1 .. Len(s) + 1,
                 contract.ident[stack'[i].struct] = contract.ident[stack'[j].struct]
          PROVE  i = j
      <4>1. CASE i \in 1 .. Len(s) /\ j \in 1 .. Len(s)
        BY <2>6, <3>2, <4>1 DEF Calls
      <4>2. ASSUME NEW k \in 1 .. Len(s)
            PROVE contract.ident[stack'[k].struct] # contract.ident[stack'[Len(s) + 1].struct]
        BY <2>5, <2>6, <2>7 DEF c
      <4> QED
        BY <2>8, <3>2, <4>1, <4>2
    <3> QED
      BY <2>6, <3>1, <3>2 DEF Calls
  <2>10. \A u \in ArgTypes : RegisteredIn(out, u) => RegisteredIn(out', u)
    BY <1>1, <2>4, TypesAssumption DEF RegisteredIn, ArgTypes
  <2>11. RegisteredIn(out', t)
    BY <2>1, <2>3 DEF RegisteredIn, c
  <2>12. ASSUME NEW n \in Idents, out'[n] # None
         PROVE  contract.ident[out'[n]] = n /\ Visited(stack', out', Plain, out'[n])
    <3>1. CASE n = c
      <4>1. ASSUME NEW j \in DOMAIN Fields(t)
            PROVE  \E i \in DOMAIN stack' : stack'[i].struct = t /\ stack'[i].field <= j
        <5>1. j \in Nat /\ 1 <= j
          BY <1>1, <2>1
        <5>2. Len(s) + 1 \in DOMAIN stack'
          BY <2>6
        <5> QED
          BY <2>5, <2>6, <5>1, <5>2
      <4> QED
        BY <2>3, <3>1, <4>1 DEF Visited, c
    <3>2. CASE n # c
      <4>1. out'[n] = out[n] /\ out[n] \in Structs
        BY <1>1, <2>3, <2>12, <3>2
      <4>2. contract.ident[out[n]] = n /\ Visited(s, out, t, out[n])
        BY <2>12, <4>1 DEF Schemas
      <4>3. ASSUME NEW j \in DOMAIN Fields(out[n])
            PROVE  \/ RegisteredIn(out', Fields(out[n])[j].ty)
                   \/ \E i \in DOMAIN stack' : stack'[i].struct = out[n] /\ stack'[i].field <= j
        <5>1. CASE Fields(out[n])[j].ty = t \/ RegisteredIn(out, Fields(out[n])[j].ty)
          BY <1>f, <2>10, <2>11, <4>1, <5>1
        <5>2. ASSUME NEW i \in DOMAIN s, s[i].struct = out[n], s[i].field <= j
              PROVE  \E k \in DOMAIN stack' : stack'[k].struct = out[n] /\ stack'[k].field <= j
          <6>1. i \in DOMAIN stack' /\ stack'[i] = s[i]
            BY <2>6
          <6> QED
            BY <5>2, <6>1
        <5> QED
          BY <4>2, <5>1, <5>2 DEF Visited
      <4> QED
        BY <4>1, <4>2, <4>3 DEF Visited
    <3> QED
      BY <3>1, <3>2
  <2> QED
    BY <2>3, <2>4, <2>6, <2>9, <2>11, <2>12 DEF Schemas
<1> QED
  BY <1>3, <1>4

-----------------------------------------------------------------------------
(* Steps *)

(***************************************************************************)
(* The program stays, and what is said of it alone.                        *)
(***************************************************************************)
LEMMA ProgramStays ==
    ASSUME UNCHANGED program
    PROVE  /\ \A k : HaveRead(k)' <=> HaveRead(k)
           /\ Refused' <=> Refused
           /\ Arms' = Arms
           /\ \A o, t : RegisteredIn(o, t)' <=> RegisteredIn(o, t)
<1> USE DEF program
<1>1. \A k : HaveRead(k)' <=> HaveRead(k)
  BY DEF HaveRead, Faulty, Taken
<1>2. Refused' <=> Refused
  BY DEF Refused
<1>3. Arms' = Arms
  BY DEF Arms, function
<1>4. \A o, t : RegisteredIn(o, t)' <=> RegisteredIn(o, t)
  BY DEF RegisteredIn
<1> QED
  BY <1>1, <1>2, <1>3, <1>4

LEMMA SignaturesStay ==
    ASSUME UNCHANGED <<contract, txs, out>>
    PROVE  \A i, j : SignaturesUpTo(i, j)' <=> SignaturesUpTo(i, j)
  BY DEF SignaturesUpTo, Signature, RegisteredIn

LEMMA CallsStay ==
    ASSUME UNCHANGED <<contract, stack, out>>, Calls(stack, out), Schemas(stack, out, Plain)
    PROVE  Calls(stack, out)' /\ Schemas(stack, out, Plain)'
  BY DEF Calls, Schemas, Visited, RegisteredIn, Fields

(***************************************************************************)
(* A step that moves the phase and leaves the collector alone.             *)
(***************************************************************************)
LEMMA PhaseMoves ==
    ASSUME IInv, UNCHANGED <<program, stack, out>>, phase' \in Phases, response' \in Responses,
           tx' \in Nat \ {0}, arg' \in Nat \ {0}, ReadOK', CallOK',
           phase' \in {"contract", "items", "new"} => arg' = 1,
           phase' = "new" => tx' = 1,
           phase' = "components" => phase = "new" /\ tx' = 1 /\ arg' = 1,
           response' = "metadata" => stack = <<>> /\ SignaturesUpTo(Len(txs) + 1, 1)
    PROVE  IInv'
<1> USE DEF program
<1>1. TypeOK'
  BY DEF IInv, TypeOK
<1>2. Calls(stack, out)' /\ Schemas(stack, out, Plain)'
  BY CallsStay DEF IInv, CollectOK
<1>3. \A i, j : SignaturesUpTo(i, j)' <=> SignaturesUpTo(i, j)
  BY SignaturesStay
<1>4. phase' = "components" => SignaturesUpTo(tx, arg)'
  <2> SUFFICES ASSUME tx' = 1, arg' = 1 PROVE SignaturesUpTo(tx, arg)'
    OBVIOUS
  <2>1. ASSUME NEW k \in DOMAIN txs, NEW l \in DOMAIN Signature(txs[k])
        PROVE  ~(k < 1 \/ (k = 1 /\ l < 1))
    <3>1. txs \in Seq(TxMethod)
      BY DEF IInv, TypeOK
    <3>2. k \in 1 .. Len(txs) /\ txs[k] \in TxMethod
      BY <3>1
    <3>3. Signature(txs[k]) \in Seq(ArgTypes)
      BY <3>2, SignatureType
    <3>4. l \in 1 .. Len(Signature(txs[k]))
      BY <3>3, LenProperties, Zenon
    <3>5. k \in Nat /\ 1 <= k /\ l \in Nat /\ 1 <= l
      BY <3>2, <3>4
    <3> QED
      BY <3>5
  <2> QED
    BY <2>1 DEF SignaturesUpTo, Signature
<1>5. CollectOK'
  BY <1>2, <1>3, <1>4 DEF CollectOK
<1> QED
  BY <1>1, <1>5 DEF IInv

LEMMA ExpandKeeps ==
    ASSUME IInv, Expand
    PROVE  IInv'
<1>1. /\ TypeOK /\ ReadOK /\ CollectOK /\ CallOK /\ phase = "contract"
      /\ UNCHANGED <<program, tx, arg, stack, out, response>>
      /\ phase' = IF Refused THEN "rejected" ELSE "items"
  BY DEF IInv, Expand
<1>2. /\ \A k : HaveRead(k)' <=> HaveRead(k)
      /\ Refused' <=> Refused
      /\ Arms' = Arms
  BY <1>1, ProgramStays
<1>3. errors = <<>> /\ txs = <<>> /\ tx = 1 /\ arg = 1 /\ response = "none"
  BY <1>1 DEF ReadOK, CollectOK, CallOK
<1>4. HaveRead(0)
  <2>1. {n \in 1 .. 0 : Faulty(n)} = {} /\ {n \in 1 .. 0 : Taken(n)} = {}
    OBVIOUS
  <2>2. Range(<<>>) = {} /\ Len(<<>>) = 0
    BY DEF Range
  <2> QED
    BY <1>3, <2>1, <2>2, FS_EmptySet DEF HaveRead
<1>5. Len(contract.items) \in Nat
  BY <1>1, SourceTypes
<1>6. ReadOK'
  <2>1. tx' - 1 = 0 /\ tx' <= Len(contract.items) + 1 /\ contract' = contract
    BY <1>1, <1>3, <1>5 DEF program
  <2>2. HaveRead(tx - 1)'
    <3>1. HaveRead(0)'
      BY <1>2, <1>4
    <3> QED
      BY <2>1, <3>1 DEF HaveRead
  <2>3. CASE Refused
    <3>1. phase' = "rejected"
      BY <1>1, <2>3
    <3>2. Refused'
      BY ONLY <1>2, <2>3, Zenon
    <3> QED
      BY <3>1, <3>2 DEF ReadOK
  <2>4. CASE ~Refused
    <3>1. phase' = "items"
      BY <1>1, <2>4
    <3> QED
      BY <2>1, <2>2, <3>1 DEF ReadOK
  <2> QED
    BY <2>3, <2>4
<1>7. CallOK'
  BY <1>1, <1>3 DEF CallOK
<1>8. phase' \in {"items", "rejected"}
  BY <1>1
<1> QED
  BY <1>1, <1>3, <1>6, <1>7, <1>8, PhaseMoves DEF TypeOK, Phases

LEMMA GenerateKeeps ==
    ASSUME IInv, Generate
    PROVE  IInv'
<1>1. /\ TypeOK /\ ReadOK /\ CollectOK /\ CallOK /\ phase = "items"
      /\ UNCHANGED <<program, arg, stack, out, response>> /\ tx' = 1
      /\ phase' = IF errors = <<>> THEN "new" ELSE "rejected"
      /\ tx > Len(contract.items)
  BY DEF IInv, Generate
<1>2. /\ \A k : HaveRead(k)' <=> HaveRead(k)
      /\ Refused' <=> Refused
      /\ Arms' = Arms
  BY <1>1, ProgramStays
<1>3. arg = 1 /\ response = "none" /\ tx <= Len(contract.items) + 1 /\ HaveRead(tx - 1)
  BY <1>1 DEF ReadOK, CollectOK, CallOK
<1>4. Len(contract.items) \in Nat /\ tx \in Nat
  BY <1>1, SourceTypes DEF TypeOK
<1>5. tx - 1 = Len(contract.items)
  BY <1>1, <1>3, <1>4
<1>6. ReadOK'
  BY <1>1, <1>2, <1>3, <1>5 DEF ReadOK, program
<1>7. CallOK'
  BY <1>1, <1>3 DEF CallOK
<1>8. phase' \in {"new", "rejected"}
  BY <1>1
<1> QED
  BY <1>1, <1>3, <1>6, <1>7, <1>8, PhaseMoves DEF TypeOK, Phases

(***************************************************************************)
(* The values of a sequence of errors to which those of one item are added.*)
(***************************************************************************)
LEMMA ErrorsAdded ==
    ASSUME NEW e \in Seq(Nat), NEW k \in Nat, NEW r \in Seq(ErrorKinds)
    PROVE  LET f == e \o [n \in DOMAIN r |-> k] IN
           /\ f \in Seq(Nat)
           /\ Range(f) = Range(e) \cup IF r = <<>> THEN {} ELSE {k}
<1> DEFINE g == [n \in DOMAIN r |-> k]
           f == e \o g
<1>1. DOMAIN r = 1 .. Len(r) /\ Len(r) \in Nat /\ (r = <<>> <=> Len(r) = 0)
  BY EmptySeq, LenProperties
<1>2. g \in Seq(Nat) /\ Len(g) = Len(r)
  <2>1. g \in [1 .. Len(r) -> Nat]
    BY <1>1
  <2> QED
    BY <1>1, <2>1
<1>3. \A n \in 1 .. Len(r) : g[n] = k
  BY <1>1
<1> HIDE DEF g
<1>4. /\ f \in Seq(Nat) /\ Len(f) = Len(e) + Len(g) /\ Len(e) \in Nat
      /\ \A i \in 1 .. Len(e) + Len(g) : f[i] = IF i <= Len(e) THEN e[i] ELSE g[i - Len(e)]
  BY <1>2, ConcatProperties, LenProperties
<1>5. DOMAIN f = 1 .. Len(e) + Len(g) /\ DOMAIN e = 1 .. Len(e)
  BY <1>4
<1> HIDE DEF f
<1>6. ASSUME NEW i \in 1 .. Len(e)
      PROVE  i \in 1 .. Len(e) + Len(g) /\ f[i] = e[i]
  BY <1>1, <1>2, <1>4
<1>7. ASSUME NEW i \in 1 .. Len(e) + Len(g), i \notin 1 .. Len(e)
      PROVE  f[i] = k /\ Len(r) # 0
  <2>1. ~(i <= Len(e)) /\ i - Len(e) \in 1 .. Len(r)
    BY <1>1, <1>2, <1>4, <1>7
  <2>2. f[i] = g[i - Len(e)]
    BY <1>4, <1>7, <2>1
  <2>3. g[i - Len(e)] = k
    BY <1>3, <2>1
  <2>4. Len(r) # 0
    BY <2>1
  <2> QED
    BY <2>2, <2>3, <2>4
<1>8. ASSUME Len(r) # 0
      PROVE  Len(e) + 1 \in 1 .. Len(e) + Len(g) /\ f[Len(e) + 1] = k
  <2>1. Len(e) + 1 \in 1 .. Len(e) + Len(g) /\ Len(e) + 1 \notin 1 .. Len(e)
    BY <1>1, <1>2, <1>4, <1>8
  <2> QED
    BY <1>7, <2>1
<1>9. Range(f) \subseteq Range(e) \cup IF r = <<>> THEN {} ELSE {k}
  <2> SUFFICES ASSUME NEW i \in 1 .. Len(e) + Len(g)
               PROVE  f[i] \in Range(e) \cup IF r = <<>> THEN {} ELSE {k}
    BY <1>5 DEF Range
  <2>1. CASE i \in 1 .. Len(e)
    BY <1>5, <1>6, <2>1 DEF Range
  <2>2. CASE i \notin 1 .. Len(e)
    BY <1>1, <1>7, <2>2
  <2> QED
    BY <2>1, <2>2
<1>10. Range(e) \subseteq Range(f)
  BY <1>5, <1>6 DEF Range
<1>11. r # <<>> => k \in Range(f)
  BY <1>1, <1>5, <1>8 DEF Range
<1>12. Range(f) = Range(e) \cup IF r = <<>> THEN {} ELSE {k}
  BY <1>9, <1>10, <1>11
<1> QED
  BY <1>4, <1>12 DEF f, g

LEMMA ReadItemKeeps ==
    ASSUME IInv, ReadItem
    PROVE  IInv'
<1> DEFINE item == contract.items[tx]
<1>1. /\ TypeOK /\ ReadOK /\ CollectOK /\ CallOK /\ phase = "items"
      /\ UNCHANGED <<contract, request, phase, arg, stack, out, response>>
      /\ tx <= Len(contract.items) /\ tx' = tx + 1
  BY DEF IInv, ReadItem
<1>2. /\ errors' = IF ~IsTransaction(item) THEN errors
                   ELSE errors \o [n \in DOMAIN ItemErrors(item) |-> tx]
      /\ txs' = IF ~IsTransaction(item) \/ Skipped(item) THEN txs
                ELSE Append(txs, TransactionOf(item))
  BY DEF ReadItem
<1>3. /\ tx \in Nat \ {0} /\ Len(contract.items) \in Nat /\ contract.items \in Seq(Item)
      /\ errors \in Seq(Nat) /\ txs \in Seq(TxMethod) /\ Len(txs) \in Nat
  BY <1>1, SourceTypes DEF TypeOK
<1>4. item \in Item
  BY <1>1, <1>3
<1>5. HaveRead(tx - 1) /\ response = "none" /\ arg = 1
  BY <1>1 DEF ReadOK, CollectOK, CallOK
<1>6. 1 .. tx = (1 .. tx - 1) \cup {tx} /\ tx \notin 1 .. tx - 1
  BY <1>3
<1> HIDE DEF item
<1>7. /\ errors' \in Seq(Nat)
      /\ Range(errors') = {n \in 1 .. tx : Faulty(n)}
  <2>1. {n \in 1 .. tx : Faulty(n)} =
            {n \in 1 .. tx - 1 : Faulty(n)} \cup IF Faulty(tx) THEN {tx} ELSE {}
    BY <1>6
  <2>2. Range(errors) = {n \in 1 .. tx - 1 : Faulty(n)}
    BY <1>5 DEF HaveRead
  <2>3. CASE ~IsTransaction(item)
    <3>1. ~Faulty(tx)
      BY <2>3 DEF Faulty, item
    <3> QED
      BY <1>2, <1>3, <2>1, <2>2, <2>3, <3>1
  <2>4. CASE IsTransaction(item)
    <3>1. ItemErrors(item) \in Seq(ErrorKinds)
      BY <1>4, <2>4, ErrorsProperties
    <3>2. Faulty(tx) <=> ItemErrors(item) # <<>>
      BY <2>4 DEF Faulty, item
    <3>3. errors' = errors \o [n \in DOMAIN ItemErrors(item) |-> tx]
      BY <1>2, <2>4
    <3>4. /\ errors' \in Seq(Nat)
          /\ Range(errors') = Range(errors) \cup IF ItemErrors(item) = <<>> THEN {} ELSE {tx}
      BY <1>3, <3>1, <3>3, ErrorsAdded
    <3> QED
      BY <2>1, <2>2, <3>2, <3>4
  <2> QED
    BY <2>3, <2>4
<1>8. /\ txs' \in Seq(TxMethod)
      /\ Len(txs') = Cardinality({n \in 1 .. tx : Taken(n)})
  <2> DEFINE T == {n \in 1 .. tx - 1 : Taken(n)}
  <2>1. {n \in 1 .. tx : Taken(n)} = T \cup IF Taken(tx) THEN {tx} ELSE {}
    BY <1>6
  <2>2. Len(txs) = Cardinality(T)
    BY <1>5 DEF HaveRead
  <2>3. T \in SUBSET (1 .. tx - 1) /\ tx \notin T /\ tx - 1 \in Nat
    BY <1>3, <1>6
  <2> HIDE DEF T
  <2>4. IsFiniteSet(T) /\ Cardinality(T) \in Nat
    BY <2>3, FinitePositions
  <2>5. Taken(tx) <=> IsTransaction(item) /\ ~Skipped(item)
    BY DEF Taken, item
  <2>6. CASE ~Taken(tx)
    <3>1. txs' = txs /\ {n \in 1 .. tx : Taken(n)} = T
      BY <1>2, <2>1, <2>5, <2>6
    <3> QED
      BY <1>3, <2>2, <3>1
  <2>7. CASE Taken(tx)
    <3>1. TransactionOf(item) \in TxMethod
      BY <1>4, <2>5, <2>7, TransactionType
    <3>2. txs' = Append(txs, TransactionOf(item))
      BY <1>2, <2>5, <2>7
    <3>3. txs' \in Seq(TxMethod) /\ Len(txs') = Len(txs) + 1
      BY <1>3, <3>1, <3>2, AppendProperties
    <3>4. Cardinality(T \cup {tx}) = Cardinality(T) + 1
      BY <2>3, <2>4, FS_AddElement
    <3> QED
      BY <2>1, <2>2, <2>7, <3>3, <3>4
  <2> QED
    BY <2>6, <2>7
<1>9. TypeOK'
  <2>1. tx' \in Nat \ {0}
    BY <1>1, <1>3
  <2> QED
    BY <1>1, <1>7, <1>8, <2>1 DEF TypeOK
<1>10. ReadOK'
  <2>1. tx' - 1 = tx /\ tx' <= Len(contract.items) + 1
    BY <1>1, <1>3
  <2>2. HaveRead(tx - 1)'
    BY <1>1, <1>7, <1>8, <2>1 DEF HaveRead, Faulty, Taken
  <2> QED
    BY <1>1, <2>1, <2>2 DEF ReadOK
<1>11. Calls(stack, out)' /\ Schemas(stack, out, Plain)'
  BY <1>1, CallsStay DEF CollectOK
<1>12. CollectOK'
  BY <1>1, <1>5, <1>11 DEF CollectOK
<1>13. CallOK'
  BY <1>1, <1>5 DEF CallOK
<1> QED
  BY <1>9, <1>10, <1>12, <1>13 DEF IInv

(***************************************************************************)
(* A step of the collector leaves alone what else is said of the state.    *)
(***************************************************************************)
LEMMA CollectorMoves ==
    ASSUME IInv, phase = "components", UNCHANGED <<program, phase, response>>,
           tx' \in Nat \ {0}, arg' \in Nat \ {0},
           stack' \in Seq(Frame), out' \in [Idents -> Structs \cup {None}],
           Calls(stack', out'), Schemas(stack', out', Plain),
           SignaturesUpTo(tx, arg)'
    PROVE  IInv'
<1> USE DEF program
<1>0. /\ TypeOK /\ ReadOK /\ CollectOK /\ CallOK /\ response = "none"
      /\ contract' = contract /\ request' = request /\ errors' = errors /\ txs' = txs
      /\ phase' = "components" /\ response' = "none"
  BY DEF IInv, CallOK
<1>1. Calls(stack, out)' /\ Schemas(stack, out, Plain)'
  BY <1>0 DEF Calls, Schemas, Visited, RegisteredIn, Fields
<1>2. TypeOK'
  BY <1>0 DEF TypeOK
<1>3. ReadOK'
  <2>1. \A k : HaveRead(k)' <=> HaveRead(k)
    BY ProgramStays
  <2> QED
    BY <1>0, <2>1 DEF ReadOK
<1>4. CollectOK'
  BY <1>0, <1>1 DEF CollectOK
<1>5. CallOK'
  BY <1>0 DEF CallOK
<1> QED
  BY <1>2, <1>3, <1>4, <1>5 DEF IInv

(***************************************************************************)
(* What has a schema keeps it.                                             *)
(***************************************************************************)
LEMMA RegisteredStays ==
    ASSUME TypeOK, UNCHANGED contract, NEW t \in ArgTypes, RegisteredIn(out, t),
           \A n \in Idents : out[n] # None => out'[n] = out[n]
    PROVE  RegisteredIn(out, t)'
<1>1. contract.ident \in [Structs -> Idents]
  BY SourceTypes
<1> QED
  BY <1>1, TypesAssumption DEF RegisteredIn, ArgTypes

LEMMA SignaturesGrow ==
    ASSUME TypeOK, UNCHANGED <<contract, txs>>, NEW i, NEW j, SignaturesUpTo(i, j),
           \A n \in Idents : out[n] # None => out'[n] = out[n]
    PROVE  SignaturesUpTo(i, j)'
<1>1. ASSUME NEW k \in DOMAIN txs, NEW l \in DOMAIN Signature(txs[k]),
             RegisteredIn(out, Signature(txs[k])[l])
      PROVE  RegisteredIn(out, Signature(txs[k])[l])'
  <2>1. txs \in Seq(TxMethod)
    BY DEF TypeOK
  <2>2. txs[k] \in TxMethod
    BY <2>1
  <2>3. Signature(txs[k]) \in Seq(ArgTypes)
    BY <2>2, SignatureType
  <2>4. PICK t \in ArgTypes : t = Signature(txs[k])[l]
    BY <2>3
  <2>5. Signature(txs[k])' = Signature(txs[k])
    BY DEF Signature
  <2>6. RegisteredIn(out, t)'
    BY <1>1, <2>4, RegisteredStays
  <2> QED
    BY <2>4, <2>5, <2>6 DEF RegisteredIn
<1>2. \A k \in DOMAIN txs : Signature(txs[k])' = Signature(txs[k])
  BY DEF Signature
<1> QED
  BY <1>1, <1>2 DEF SignaturesUpTo

LEMMA SchemasOfAnother ==
    ASSUME NEW s, NEW o, NEW t, Schemas(s, o, Plain)
    PROVE  Schemas(s, o, t)
  BY DEF Schemas, Visited, RegisteredIn

LEMMA ComponentRegsKeeps ==
    ASSUME IInv, component_regs
    PROVE  IInv'
<1> DEFINE m == txs[tx]
<1>1. /\ TypeOK /\ CollectOK /\ phase = "components" /\ stack = <<>> /\ tx <= Len(txs)
      /\ UNCHANGED <<program, phase, response>>
      /\ contract' = contract /\ txs' = txs
  BY DEF IInv, component_regs, program
<1>2. /\ tx \in Nat \ {0} /\ arg \in Nat \ {0} /\ txs \in Seq(TxMethod)
      /\ stack \in Seq(Frame) /\ out \in [Idents -> Structs \cup {None}]
      /\ Calls(stack, out) /\ Schemas(stack, out, Plain) /\ SignaturesUpTo(tx, arg)
  BY <1>1 DEF TypeOK, CollectOK
<1>3. m \in TxMethod /\ tx \in DOMAIN txs
  BY <1>1, <1>2
<1> HIDE DEF m
<1>4. Signature(m) \in Seq(ArgTypes)
  BY <1>3, SignatureType
<1>5. Len(Signature(m)) \in Nat /\ DOMAIN Signature(m) = 1 .. Len(Signature(m))
  BY <1>4, LenProperties, Zenon
<1>t. ASSUME NEW k \in DOMAIN txs, NEW l \in DOMAIN Signature(txs[k])
      PROVE  k \in Nat /\ l \in Nat /\ Signature(txs[k])' = Signature(txs[k])
  <2>1. txs[k] \in TxMethod /\ k \in Nat
    BY <1>2
  <2>2. Signature(txs[k]) \in Seq(ArgTypes)
    BY <2>1, SignatureType
  <2>3. l \in 1 .. Len(Signature(txs[k])) /\ Len(Signature(txs[k])) \in Nat
    BY <2>2, LenProperties, Zenon
  <2>4. l \in Nat
    BY <2>3
  <2> QED
    BY <1>1, <2>1, <2>4 DEF Signature
<1>6. CASE arg <= Len(Signature(m))
  <2> DEFINE t == Signature(m)[arg]
  <2>1. components(t, stack) /\ arg' = arg + 1 /\ tx' = tx
    BY <1>6 DEF component_regs, m
  <2>2. arg \in DOMAIN Signature(m) /\ t \in ArgTypes
    <3>1. arg \in 1 .. Len(Signature(m))
      BY <1>2, <1>5, <1>6
    <3> QED
      BY <1>4, <1>5, <3>1, ElementOfSeq
  <2> HIDE DEF t
  <2>3. Schemas(stack, out, t)
    BY <1>2, SchemasOfAnother
  <2>4. /\ stack' \in Seq(Frame) /\ out' \in [Idents -> Structs \cup {None}]
        /\ Calls(stack', out') /\ Schemas(stack', out', Plain)
        /\ RegisteredIn(out', t)
        /\ \A n \in Idents : out[n] # None => out'[n] = out[n]
    BY <1>1, <1>2, <2>1, <2>2, <2>3, ComponentsKeeps
  <2>5. SignaturesUpTo(tx, arg)'
    <3>1. (\A k \in DOMAIN txs : \A l \in DOMAIN Signature(txs[k]) :
              k < tx \/ (k = tx /\ l < arg) => RegisteredIn(out, Signature(txs[k])[l])')
      <4>1. ASSUME NEW i, NEW j, SignaturesUpTo(i, j) PROVE SignaturesUpTo(i, j)'
        BY <1>1, <2>4, <4>1, SignaturesGrow
      <4>2. PICK i, j : i = tx /\ j = arg
        OBVIOUS
      <4>3. SignaturesUpTo(i, j)'
        BY <1>2, <4>1, <4>2
      <4> QED
        BY <1>1, <1>t, <4>2, <4>3 DEF SignaturesUpTo
    <3>2. \A k \in DOMAIN txs : \A l \in DOMAIN Signature(txs[k]) :
              k < tx \/ (k = tx /\ l < arg + 1) => RegisteredIn(out, Signature(txs[k])[l])'
      <4> SUFFICES ASSUME NEW k \in DOMAIN txs, NEW l \in DOMAIN Signature(txs[k]),
                          k = tx, l = arg
                   PROVE  RegisteredIn(out, Signature(txs[k])[l])'
        <5>1. \A k \in DOMAIN txs : \A l \in DOMAIN Signature(txs[k]) :
                 l < arg + 1 => l < arg \/ l = arg
          BY <1>2, <1>t
        <5> QED
          BY <3>1, <5>1
      <4>1. Signature(txs[k])'[l'] = t
        BY <1>t DEF t, m
      <4> QED
        BY <1>1, <2>4, <4>1 DEF RegisteredIn
    <3> QED
      BY <1>1, <1>t, <2>1, <3>2 DEF SignaturesUpTo
  <2> QED
    BY <1>1, <1>2, <2>1, <2>4, <2>5, CollectorMoves
<1>7. CASE ~(arg <= Len(Signature(m)))
  <2>1. tx' = tx + 1 /\ arg' = 1 /\ stack' = stack /\ out' = out
    BY <1>7 DEF component_regs, m
  <2>2. SignaturesUpTo(tx + 1, 1)
    <3> SUFFICES ASSUME NEW k \in DOMAIN txs, NEW l \in DOMAIN Signature(txs[k]),
                        k < tx + 1 \/ (k = tx + 1 /\ l < 1)
                 PROVE  RegisteredIn(out, Signature(txs[k])[l])
      BY DEF SignaturesUpTo
    <3>1. txs[k] \in TxMethod
      BY <1>2
    <3>2. Signature(txs[k]) \in Seq(ArgTypes)
      BY <3>1, SignatureType
    <3>3. l \in 1 .. Len(Signature(txs[k])) /\ Len(Signature(txs[k])) \in Nat
      BY <3>2, LenProperties, Zenon
    <3>4. k \in Nat /\ l \in Nat /\ 1 <= l
      BY <1>t, <3>3
    <3>5. k < tx \/ k = tx
      BY <1>2, <3>4
    <3>6. k = tx => l < arg
      BY <1>2, <1>5, <1>7, <3>3, <3>4 DEF m
    <3> QED
      BY <1>2, <3>5, <3>6 DEF SignaturesUpTo
  <2>3. SignaturesUpTo(tx, arg)'
    <3>1. (\A k \in DOMAIN txs : \A l \in DOMAIN Signature(txs[k]) :
              k < tx + 1 \/ (k = tx + 1 /\ l < 1) => RegisteredIn(out, Signature(txs[k])[l])')
      BY <1>1, <1>t, <2>1, <2>2 DEF SignaturesUpTo, RegisteredIn
    <3> QED
      BY <1>1, <1>t, <2>1, <3>1 DEF SignaturesUpTo
  <2>4. tx' \in Nat \ {0} /\ arg' \in Nat \ {0}
    BY <1>2, <2>1
  <2> QED
    BY <1>1, <1>2, <2>1, <2>3, <2>4, CollectorMoves
<1> QED
  BY <1>6, <1>7

LEMMA NestedComponentsKeeps ==
    ASSUME IInv, nested_components
    PROVE  IInv'
<1>1. /\ TypeOK /\ CollectOK /\ phase = "components" /\ stack # <<>>
      /\ UNCHANGED <<program, phase, tx, arg, response>>
      /\ contract' = contract /\ txs' = txs
      /\ Top.field <= Len(Fields(Top.struct))
  BY DEF IInv, nested_components, program
<1>2. /\ tx \in Nat \ {0} /\ arg \in Nat \ {0}
      /\ stack \in Seq(Frame) /\ out \in [Idents -> Structs \cup {None}]
      /\ Calls(stack, out) /\ Schemas(stack, out, Plain) /\ SignaturesUpTo(tx, arg)
  BY <1>1 DEF TypeOK, CollectOK
<1>3. PICK k \in Nat : k = Len(stack)
  BY <1>2
<1>4. DOMAIN stack = 1 .. k /\ k \in 1 .. k
  BY <1>1, <1>2, <1>3, EmptySeq
<1>5. \A i \in 1 .. k : stack[i] \in Frame
  BY <1>2, <1>4
<1>6. PICK x \in Structs, j \in Nat \ {0} : stack[k] = [struct |-> x, field |-> j]
  BY <1>4, <1>5 DEF Frame
<1>7. Top.struct = x /\ Top.field = j
  BY <1>3, <1>6 DEF Top
<1>8. Fields(x) \in Seq(Field)
  BY <1>1, SourceTypes
<1>9. Len(Fields(x)) \in Nat /\ DOMAIN Fields(x) = 1 .. Len(Fields(x))
  BY <1>8, LenProperties, Zenon
<1>10. j <= Len(Fields(x)) /\ j \in 1 .. Len(Fields(x))
  BY <1>1, <1>7, <1>9
<1> DEFINE t == Fields(x)[j].ty
           s == [stack EXCEPT ![k].field = @ + 1]
<1>11. t \in ArgTypes
  <2>1. Fields(x)[j] \in Field
    BY <1>8, <1>10, ElementOfSeq
  <2> QED
    BY <2>1 DEF Field
<1>12. components(t, s)
  BY <1>3, <1>7 DEF nested_components
<1>13. /\ s \in Seq(Frame) /\ DOMAIN s = 1 .. k
       /\ \A i \in 1 .. k : i # k => s[i] = stack[i]
       /\ s[k].struct = x /\ s[k].field = j + 1
  <2>1. stack \in [1 .. k -> Frame]
    BY <1>2, <1>3
  <2>2. s = [stack EXCEPT ![k] = [struct |-> x, field |-> j + 1]]
    <3>1. [stack[k] EXCEPT !.field = stack[k].field + 1] = [struct |-> x, field |-> j + 1]
      BY <1>6
    <3>2. s = [stack EXCEPT ![k] = [stack[k] EXCEPT !.field = stack[k].field + 1]]
      OBVIOUS
    <3> QED
      BY ONLY <3>1, <3>2, Zenon
  <2>3. [struct |-> x, field |-> j + 1] \in Frame
    BY DEF Frame
  <2>4. s \in [1 .. k -> Frame]
    BY <2>1, <2>2, <2>3
  <2> QED
    BY <1>4, <2>1, <2>2, <2>4
<1> HIDE DEF s, t
<1>14. \A i \in 1 .. k : s[i].struct = stack[i].struct
  BY <1>6, <1>13
<1>15. Calls(s, out)
  <2>1. ASSUME NEW i \in 1 .. k
        PROVE  s[i].field <= Len(Fields(s[i].struct)) + 1
    <3>1. CASE i = k
      <4>1. j + 1 <= Len(Fields(x)) + 1
        BY <1>9, <1>10
      <4> QED
        BY <1>13, <3>1, <4>1
    <3>2. CASE i # k
      BY <1>2, <1>4, <1>13, <3>2 DEF Calls
    <3> QED
      BY <3>1, <3>2
  <2> QED
    BY <1>2, <1>4, <1>13, <1>14, <2>1 DEF Calls
<1>16. Schemas(s, out, t)
  <2>1. ASSUME NEW y, NEW l \in DOMAIN Fields(y), y \in Structs, Visited(stack, out, Plain, y)
        PROVE  \/ Fields(y)[l].ty = t \/ RegisteredIn(out, Fields(y)[l].ty)
               \/ \E i \in DOMAIN s : s[i].struct = y /\ s[i].field <= l
    <3>1. CASE Fields(y)[l].ty = Plain \/ RegisteredIn(out, Fields(y)[l].ty)
      BY <3>1 DEF RegisteredIn
    <3>2. ASSUME NEW i \in 1 .. k, stack[i].struct = y, stack[i].field <= l
          PROVE  \/ Fields(y)[l].ty = t
                 \/ \E i_1 \in DOMAIN s : s[i_1].struct = y /\ s[i_1].field <= l
      <4>1. CASE i # k
        BY <1>13, <3>2, <4>1
      <4>2. CASE i = k
        <5>1. y = x /\ j <= l
          BY <1>6, <3>2, <4>2
        <5>2. l \in Nat
          BY <1>9, <2>1, <5>1
        <5>3. l = j \/ j + 1 <= l
          BY <5>1, <5>2
        <5> QED
          BY <1>4, <1>13, <5>1, <5>3 DEF t
      <4> QED
        BY <4>1, <4>2
    <3> QED
      BY <1>4, <2>1, <3>1, <3>2 DEF Visited
  <2>2. ASSUME NEW n \in Idents, out[n] # None
        PROVE  contract.ident[out[n]] = n /\ Visited(s, out, t, out[n])
    <3>1. out[n] \in Structs /\ contract.ident[out[n]] = n /\ Visited(stack, out, Plain, out[n])
      BY <1>2, <2>2 DEF Schemas
    <3> QED
      BY <2>1, <3>1 DEF Visited
  <2> QED
    BY <2>2 DEF Schemas
<1>17. /\ stack' \in Seq(Frame) /\ out' \in [Idents -> Structs \cup {None}]
       /\ Calls(stack', out') /\ Schemas(stack', out', Plain)
       /\ \A n \in Idents : out[n] # None => out'[n] = out[n]
  BY <1>1, <1>11, <1>12, <1>13, <1>15, <1>16, ComponentsKeeps
<1>18. SignaturesUpTo(tx, arg)'
  <2>1. PICK p, q : p = tx /\ q = arg
    OBVIOUS
  <2>2. SignaturesUpTo(p, q)'
    BY <1>1, <1>2, <1>17, <2>1, SignaturesGrow
  <2> QED
    BY <1>1, <2>1, <2>2 DEF SignaturesUpTo
<1> QED
  BY <1>1, <1>2, <1>17, <1>18, CollectorMoves

LEMMA ComponentsReturnsKeeps ==
    ASSUME IInv, ComponentsReturns
    PROVE  IInv'
<1>1. /\ TypeOK /\ CollectOK /\ phase = "components" /\ stack # <<>>
      /\ UNCHANGED <<program, phase, tx, arg, out, response>>
      /\ contract' = contract /\ txs' = txs /\ out' = out
      /\ Top.field > Len(Fields(Top.struct))
      /\ stack' = SubSeq(stack, 1, Len(stack) - 1)
  BY DEF IInv, ComponentsReturns, program
<1>2. /\ tx \in Nat \ {0} /\ arg \in Nat \ {0}
      /\ stack \in Seq(Frame) /\ out \in [Idents -> Structs \cup {None}]
      /\ Calls(stack, out) /\ Schemas(stack, out, Plain) /\ SignaturesUpTo(tx, arg)
  BY <1>1 DEF TypeOK, CollectOK
<1>3. PICK k \in Nat : k = Len(stack)
  BY <1>2
<1>4. DOMAIN stack = 1 .. k /\ k \in 1 .. k
  BY <1>1, <1>2, <1>3, EmptySeq
<1>5. /\ stack' \in Seq(Frame) /\ DOMAIN stack' = 1 .. k - 1
      /\ \A i \in 1 .. k - 1 : stack'[i] = stack[i] /\ i \in 1 .. k
  BY <1>1, <1>2, <1>3, <1>4
<1>6. Calls(stack', out')
  <2>1. \A i \in 1 .. k : /\ out[contract.ident[stack[i].struct]] = stack[i].struct
                          /\ stack[i].field <= Len(Fields(stack[i].struct)) + 1
    BY <1>2, <1>4 DEF Calls
  <2>2. \A i, j \in 1 .. k :
            contract.ident[stack[i].struct] = contract.ident[stack[j].struct] => i = j
    BY <1>2, <1>4 DEF Calls
  <2>3. \A i \in 1 .. k - 1 : /\ out[contract.ident[stack'[i].struct]] = stack'[i].struct
                              /\ stack'[i].field <= Len(Fields(stack'[i].struct)) + 1
    BY <1>5, <2>1
  <2>4. \A i, j \in 1 .. k - 1 :
            contract.ident[stack'[i].struct] = contract.ident[stack'[j].struct] => i = j
    BY <1>5, <2>2
  <2> QED
    BY <1>1, <1>5, <2>3, <2>4 DEF Calls
<1>7. ASSUME NEW y \in Structs, NEW l \in DOMAIN Fields(y), stack[k].struct = y
      PROVE  ~(stack[k].field <= l)
  <2>1. Fields(y) \in Seq(Field)
    BY <1>1, SourceTypes
  <2>2. Len(Fields(y)) \in Nat /\ l \in 1 .. Len(Fields(y))
    BY <2>1, LenProperties, Zenon
  <2>3. stack[k] \in Frame
    BY <1>2, <1>4
  <2>4. stack[k].field \in Nat /\ stack[k].field > Len(Fields(y))
    BY <1>1, <1>3, <1>7, <2>3 DEF Top, Frame
  <2> QED
    BY <2>2, <2>4
<1>8. \A i \in 1 .. k : i \in 1 .. k - 1 \/ i = k
  OBVIOUS
<1>9. Schemas(stack', out', Plain)
  <2> SUFFICES ASSUME NEW n \in Idents, out[n] # None
               PROVE  contract.ident[out[n]] = n /\ Visited(stack', out, Plain, out[n])
    BY <1>1 DEF Schemas
  <2>1. out[n] \in Structs /\ contract.ident[out[n]] = n /\ Visited(stack, out, Plain, out[n])
    BY <1>2 DEF Schemas
  <2>2. ASSUME NEW l \in DOMAIN Fields(out[n]), NEW i \in DOMAIN stack,
               stack[i].struct = out[n], stack[i].field <= l
        PROVE  \E h \in DOMAIN stack' : stack'[h].struct = out[n] /\ stack'[h].field <= l
    <3>1. i # k
      BY <1>7, <2>1, <2>2
    <3>2. i \in DOMAIN stack' /\ stack'[i] = stack[i]
      BY <1>4, <1>5, <1>8, <3>1
    <3> QED
      BY <2>2, <3>2
  <2> QED
    BY <2>1, <2>2 DEF Visited
<1>10. SignaturesUpTo(tx, arg)'
  <2>1. PICK p, q : p = tx /\ q = arg
    OBVIOUS
  <2>2. SignaturesUpTo(p, q)'
    BY <1>1, <1>2, <2>1, SignaturesStay
  <2> QED
    BY <1>1, <2>1, <2>2 DEF SignaturesUpTo
<1> QED
  BY <1>1, <1>2, <1>5, <1>6, <1>9, <1>10, CollectorMoves

LEMMA GetMetadataKeeps ==
    ASSUME IInv, GetMetadata
    PROVE  IInv'
<1>1. /\ TypeOK /\ ReadOK /\ CollectOK /\ CallOK /\ phase = "new"
      /\ UNCHANGED <<program, tx, arg, stack, out, response>>
      /\ tx' = tx /\ arg' = arg /\ response' = response
      /\ phase' = "components"
  BY DEF IInv, GetMetadata
<1>2. tx = 1 /\ arg = 1 /\ response = "none" /\ errors = <<>> /\ HaveRead(Len(contract.items))
  BY <1>1 DEF ReadOK, CollectOK, CallOK
<1>3. ReadOK'
  <2>1. \A k : HaveRead(k)' <=> HaveRead(k)
    BY <1>1, ProgramStays
  <2> QED
    BY <1>1, <1>2, <2>1 DEF ReadOK, program
<1>4. CallOK'
  BY <1>1, <1>2 DEF CallOK
<1> QED
  BY <1>1, <1>2, <1>3, <1>4, PhaseMoves DEF TypeOK, Phases

LEMMA MetadataKeeps ==
    ASSUME IInv, metadata
    PROVE  IInv'
<1>1. /\ TypeOK /\ ReadOK /\ CollectOK /\ CallOK /\ phase = "components"
      /\ UNCHANGED <<program, tx, arg, stack, out>>
      /\ tx' = tx /\ arg' = arg /\ stack = <<>> /\ tx > Len(txs)
      /\ phase' = "done" /\ response' = "metadata"
  BY DEF IInv, metadata, Respond
<1>2. /\ errors = <<>> /\ HaveRead(Len(contract.items)) /\ SignaturesUpTo(tx, arg)
  BY <1>1 DEF ReadOK, CollectOK
<1>3. ReadOK'
  <2>1. \A k : HaveRead(k)' <=> HaveRead(k)
    BY <1>1, ProgramStays
  <2> QED
    BY <1>1, <1>2, <2>1 DEF ReadOK, program
<1>4. CallOK'
  BY <1>1 DEF CallOK
<1>5. SignaturesUpTo(Len(txs) + 1, 1)
  <2>1. tx \in Nat /\ txs \in Seq(TxMethod)
    BY <1>1 DEF TypeOK
  <2>2. \A k \in DOMAIN txs : k < tx
    BY <1>1, <2>1
  <2> QED
    BY <1>2, <2>2 DEF SignaturesUpTo
<1> QED
  BY <1>1, <1>3, <1>4, <1>5, PhaseMoves DEF TypeOK, Phases, Responses

-----------------------------------------------------------------------------
(* Steps of a call *)

LEMMA ArmsAre ==
    ASSUME TypeOK, NEW i \in Arms
    PROVE  i \in DOMAIN txs /\ i \in Nat \ {0} /\ txs[i] \in TxMethod
<1>1. i \in DOMAIN txs
  BY DEF Arms
<1>2. txs \in Seq(TxMethod)
  BY DEF TypeOK
<1> QED
  BY <1>1, <1>2

(***************************************************************************)
(* A step of a call, once the chaincode runs, ends in "parse" or "done".   *)
(***************************************************************************)
LEMMA CallMoves ==
    ASSUME IInv, UNCHANGED <<program, stack, out>>, phase \in {"new", "parse"},
           phase' \in {"parse", "done"}, response' \in Responses \ {"metadata"},
           tx' \in Nat \ {0}, arg' \in Nat \ {0}, CallOK'
    PROVE  IInv'
<1>1. TypeOK /\ ReadOK /\ errors = <<>> /\ HaveRead(Len(contract.items))
  BY DEF IInv, ReadOK
<1>2. ReadOK'
  <2>1. \A k : HaveRead(k)' <=> HaveRead(k)
    BY ProgramStays
  <2> QED
    BY <1>1, <2>1 DEF ReadOK, program
<1> QED
  BY <1>2, PhaseMoves DEF Phases

LEMMA NoFunctionKeeps ==
    ASSUME IInv, NoFunction
    PROVE  IInv'
<1>1. /\ TypeOK /\ phase = "new" /\ UNCHANGED <<program, tx, arg, stack, out>>
      /\ tx' = tx /\ arg' = arg /\ phase' = "done" /\ response' = "no function"
  BY DEF IInv, NoFunction, Invoked, Respond
<1>2. CallOK'
  BY <1>1 DEF CallOK
<1> QED
  BY <1>1, <1>2, CallMoves DEF TypeOK, Responses

LEMMA UnknownFunctionKeeps ==
    ASSUME IInv, UnknownFunction
    PROVE  IInv'
<1>1. /\ TypeOK /\ phase = "new" /\ UNCHANGED <<program, tx, arg, stack, out>>
      /\ tx' = tx /\ arg' = arg /\ phase' = "done" /\ response' = "unknown function"
      /\ request.function # <<>> /\ Arms = {}
  BY DEF IInv, UnknownFunction, Invoked, Respond
<1>2. Arms' = {} /\ request' = request
  BY <1>1, ProgramStays DEF program
<1>3. CallOK'
  BY <1>1, <1>2 DEF CallOK
<1> QED
  BY <1>1, <1>3, CallMoves DEF TypeOK, Responses

LEMMA InvokeKeeps ==
    ASSUME IInv, invoke
    PROVE  IInv'
<1>1. /\ TypeOK /\ CallOK /\ phase = "new" /\ UNCHANGED <<program, arg, stack, out>>
      /\ arg' = arg /\ request.function # <<>>
  BY DEF IInv, invoke, Invoked
<1>2. PICK i \in Arms :
          /\ tx' = i
          /\ IF Len(request.args) # Len(txs[i].params)
               THEN Respond("argument count")
               ELSE phase' = "parse" /\ UNCHANGED response
  BY DEF invoke
<1>3. i \in Nat \ {0} /\ response = "none" /\ arg \in Nat \ {0}
  BY <1>1, <1>2, ArmsAre DEF CallOK, TypeOK
<1>4. Arms' = Arms /\ request' = request /\ txs' = txs
  BY <1>1, ProgramStays DEF program
<1>5. CASE Len(request.args) # Len(txs[i].params)
  <2>1. phase' = "done" /\ response' = "argument count"
    BY <1>2, <1>5 DEF Respond
  <2>2. CallOK'
    BY <1>1, <1>2, <1>4, <1>5, <2>1 DEF CallOK
  <2> QED
    BY <1>1, <1>2, <1>3, <2>1, <2>2, CallMoves DEF Responses
<1>6. CASE Len(request.args) = Len(txs[i].params)
  <2>1. phase' = "parse" /\ response' = "none"
    BY <1>2, <1>3, <1>6
  <2>2. CallOK'
    BY <1>1, <1>2, <1>4, <1>6, <2>1 DEF CallOK
  <2> QED
    BY <1>1, <1>2, <1>3, <2>1, <2>2, CallMoves DEF Responses
<1> QED
  BY <1>5, <1>6

LEMMA ParseArgKeeps ==
    ASSUME IInv, ParseArg
    PROVE  IInv'
<1>1. /\ TypeOK /\ CallOK /\ phase = "parse" /\ UNCHANGED <<program, tx, stack, out>>
      /\ tx' = tx /\ arg <= Len(txs[tx].params)
      /\ IF from_arg(txs[tx].params[arg].ty, request.args[arg])
           THEN arg' = arg + 1 /\ UNCHANGED <<phase, response>>
           ELSE Respond("invalid argument") /\ UNCHANGED arg
  BY DEF IInv, ParseArg
<1>2. /\ tx \in Arms /\ Len(request.args) = Len(txs[tx].params)
      /\ request.function # <<>> /\ response = "none"
      /\ tx \in Nat \ {0} /\ arg \in Nat \ {0}
  BY <1>1 DEF CallOK, TypeOK
<1>3. Arms' = Arms /\ request' = request /\ txs' = txs
  BY <1>1, ProgramStays DEF program
<1>4. CASE from_arg(txs[tx].params[arg].ty, request.args[arg])
  <2>1. phase' = "parse" /\ response' = "none" /\ arg' = arg + 1
    BY <1>1, <1>2, <1>4
  <2>2. CallOK'
    BY <1>1, <1>2, <1>3, <2>1 DEF CallOK
  <2>3. arg' \in Nat \ {0}
    BY <1>2, <2>1
  <2> QED
    BY <1>1, <1>2, <2>1, <2>2, <2>3, CallMoves DEF Responses
<1>5. CASE ~from_arg(txs[tx].params[arg].ty, request.args[arg])
  <2>1. phase' = "done" /\ response' = "invalid argument" /\ arg' = arg
    BY <1>1, <1>5 DEF Respond
  <2>2. arg \in DOMAIN request.args
    <3>1. request.args \in Seq(SUBSET ArgTypes)
      BY <1>1, SourceTypes
    <3>2. Len(request.args) \in Nat /\ DOMAIN request.args = 1 .. Len(request.args)
      BY <3>1, LenProperties, Zenon
    <3>3. arg <= Len(request.args)
      BY <1>1, <1>2
    <3>4. arg \in 1 .. Len(request.args)
      BY <1>2, <3>2, <3>3
    <3> QED
      BY <3>2, <3>4
  <2>3. CallOK'
    BY <1>1, <1>2, <1>3, <1>5, <2>1, <2>2 DEF CallOK, from_arg
  <2> QED
    BY <1>1, <1>2, <2>1, <2>3, CallMoves DEF Responses
<1> QED
  BY <1>4, <1>5

LEMMA MethodReturnsKeeps ==
    ASSUME IInv, MethodReturns
    PROVE  IInv'
<1>1. /\ TypeOK /\ phase = "parse" /\ UNCHANGED <<program, tx, arg, stack, out>>
      /\ tx' = tx /\ arg' = arg /\ phase' = "done"
      /\ response' \in {"success", "not serialized", "method error"}
  BY DEF IInv, MethodReturns, Respond, into_payload
<1>2. CallOK'
  BY <1>1 DEF CallOK
<1> QED
  BY <1>1, <1>2, CallMoves DEF TypeOK, Responses

-----------------------------------------------------------------------------
(* Theorems *)

LEMMA InitEstablishes ==
    ASSUME Init
    PROVE  IInv
<1>1. /\ contract \in Source /\ request \in Request
      /\ phase = "contract" /\ tx = 1 /\ arg = 1 /\ errors = <<>> /\ txs = <<>> /\ stack = <<>>
      /\ out = [n \in Idents |-> None] /\ response = "none"
  BY ScenariosAssumption DEF Init
<1>2. TypeOK
  BY <1>1 DEF TypeOK, Phases, Responses
<1>3. ReadOK
  BY <1>1 DEF ReadOK
<1>4. CollectOK
  BY <1>1 DEF CollectOK, Calls, Schemas
<1>5. CallOK
  BY <1>1 DEF CallOK
<1> QED
  BY <1>2, <1>3, <1>4, <1>5 DEF IInv

LEMMA StutteringKeeps ==
    ASSUME IInv, UNCHANGED vars
    PROVE  IInv'
<1>1. /\ TypeOK /\ ReadOK /\ CollectOK /\ CallOK
      /\ UNCHANGED <<program, phase, tx, arg, stack, out, response>>
      /\ UNCHANGED <<contract, request, errors, txs, phase, tx, arg, stack, out, response>>
  BY DEF IInv, vars, program
<1>2. TypeOK'
  BY <1>1 DEF TypeOK
<1>3. ReadOK'
  BY <1>1 DEF ReadOK, HaveRead, Faulty, Taken, Refused
<1>4. CollectOK'
  <2>1. Calls(stack, out)' /\ Schemas(stack, out, Plain)'
    BY <1>1, CallsStay DEF CollectOK
  <2>2. \A i, j : SignaturesUpTo(i, j)' <=> SignaturesUpTo(i, j)
    BY <1>1, SignaturesStay
  <2>3. phase = "components" => SignaturesUpTo(tx, arg)'
    <3>1. PICK p, q : p = tx /\ q = arg
      OBVIOUS
    <3>2. phase = "components" => SignaturesUpTo(p, q)'
      BY <1>1, <2>2, <3>1 DEF CollectOK
    <3> QED
      BY <1>1, <3>1, <3>2 DEF SignaturesUpTo
  <2>4. response = "metadata" => SignaturesUpTo(Len(txs) + 1, 1)'
    <3>1. PICK p : p = Len(txs) + 1
      OBVIOUS
    <3>2. response = "metadata" => SignaturesUpTo(p, 1)'
      BY <1>1, <2>2, <3>1 DEF CollectOK
    <3> QED
      BY <1>1, <3>1, <3>2 DEF SignaturesUpTo
  <2> QED
    BY <1>1, <2>1, <2>3, <2>4 DEF CollectOK
<1>5. CallOK'
  BY <1>1 DEF CallOK, Arms, function
<1> QED
  BY <1>2, <1>3, <1>4, <1>5 DEF IInv

LEMMA NextKeeps ==
    ASSUME IInv, [Next]_vars
    PROVE  IInv'
  BY ExpandKeeps, ReadItemKeeps, GenerateKeeps, GetMetadataKeeps, ComponentRegsKeeps,
     NestedComponentsKeeps, ComponentsReturnsKeeps, MetadataKeeps, NoFunctionKeeps,
     UnknownFunctionKeeps, InvokeKeeps, ParseArgKeeps, MethodReturnsKeeps, StutteringKeeps
     DEF Next, Expansion, Metadata, Invocation

(***************************************************************************)
(* The inductive invariant: what the macro has read is accounted for, what *)
(* the collector has entered is closed up to the fields still to visit,    *)
(* and a refusal of a call has its reason.                                 *)
(***************************************************************************)
THEOREM Invariance == Spec => []IInv
<1>1. Init => IInv
  BY InitEstablishes
<1>2. IInv /\ [Next]_vars => IInv'
  BY NextKeeps
<1> QED
  BY <1>1, <1>2, PTL DEF Spec

(***************************************************************************)
(* Every variable has its type, for every contract and every request: the  *)
(* transactions the macro generates code for mention only types that have  *)
(* a schema.                                                               *)
(***************************************************************************)
THEOREM TypeCorrect == Spec => []TypeOK
<1>1. IInv => TypeOK
  BY DEF IInv
<1> QED
  BY <1>1, Invariance, PTL

(***************************************************************************)
(* components does not recur without end, however the structs refer to     *)
(* each other: the active calls are for different identifiers.             *)
(***************************************************************************)
THEOREM CollectorEnds == Spec => []RecursionBounded
<1>1. IInv => RecursionBounded
  BY DEF IInv, CollectOK, Calls, RecursionBounded
<1> QED
  BY <1>1, Invariance, PTL

(***************************************************************************)
(* The macro drops no transaction method and generates none half: for      *)
(* every impl, the chaincode that runs has a transaction for each method   *)
(* with the attribute, all as documented, and the errors of a refused impl *)
(* name exactly the methods that are not.                                  *)
(***************************************************************************)
THEOREM MethodsAreAccounted == Spec => []MethodsAccounted
<1> DEFINE L == Len(contract.items)
           methods == {n \in DOMAIN contract.items : IsTransaction(contract.items[n])}
           malformed == {n \in methods : ~AsDocumented(contract.items[n])}
<1>1. ASSUME IInv PROVE MethodsAccounted
  <2>1. TypeOK /\ ReadOK
    BY <1>1 DEF IInv
  <2>2. contract.items \in Seq(Item)
    BY <2>1, SourceTypes
  <2>3. DOMAIN contract.items = 1 .. L /\ \A n \in 1 .. L : contract.items[n] \in Item
    BY <2>2, LenProperties, ElementOfSeq
  <2>4. {n \in 1 .. L : Faulty(n)} = malformed
    <3>1. ASSUME NEW n \in 1 .. L
          PROVE  Faulty(n) <=> /\ IsTransaction(contract.items[n])
                               /\ ~AsDocumented(contract.items[n])
      BY <2>3, ErrorsProperties DEF Faulty
    <3> QED
      BY <2>3, <3>1
  <2>5. ASSUME malformed = {} PROVE {n \in 1 .. L : Taken(n)} = methods
    <3>1. ASSUME NEW n \in 1 .. L
          PROVE  Taken(n) <=> IsTransaction(contract.items[n])
      <4>1. IsTransaction(contract.items[n]) => AsDocumented(contract.items[n])
        BY <2>3, <2>5
      <4> QED
        BY <2>3, <4>1, ErrorsProperties DEF Taken
    <3> QED
      BY <2>3, <3>1
  <2>6. ASSUME phase = "rejected", ~Refused
        PROVE  malformed # {} /\ malformed = Range(errors)
    <3>1. errors # <<>> /\ Range(errors) = {n \in 1 .. L : Faulty(n)}
      BY <2>1, <2>6 DEF ReadOK, HaveRead
    <3>2. errors \in Seq(Nat)
      BY <2>1 DEF TypeOK
    <3>3. 1 \in DOMAIN errors
      BY <3>1, <3>2, EmptySeq
    <3>4. Range(errors) # {}
      BY <3>3 DEF Range
    <3> QED
      BY <2>4, <3>1, <3>4
  <2>7. ASSUME phase \in {"new", "components", "parse", "done"}
        PROVE  malformed = {} /\ Len(txs) = Cardinality(methods)
    <3>1. /\ errors = <<>> /\ Range(errors) = {n \in 1 .. L : Faulty(n)}
          /\ Len(txs) = Cardinality({n \in 1 .. L : Taken(n)})
      BY <2>1, <2>7 DEF ReadOK, HaveRead
    <3>2. malformed = {}
      BY <2>4, <3>1 DEF Range
    <3>3. {n \in 1 .. L : Taken(n)} = methods
      BY ONLY <2>5, <3>2, Zenon
    <3>4. Len(txs) = Cardinality(methods)
      BY ONLY <3>1, <3>3, Zenon
    <3> QED
      BY ONLY <3>2, <3>4, Zenon
  <2> QED
    BY ONLY <2>6, <2>7, Zenon DEF MethodsAccounted
<1> HIDE DEF methods, malformed, L
<1> QED
  BY <1>1, Invariance, PTL

(***************************************************************************)
(* The metadata document is closed: for every set of structs, recursive or *)
(* with the same identifiers, every $ref leads to a component.             *)
(***************************************************************************)
THEOREM DocumentIsClosed == Spec => []RefsResolve
<1>1. ASSUME IInv PROVE RefsResolve
  <2> SUFFICES ASSUME response = "metadata"
               PROVE  /\ \A k \in Document.contracts : \A i \in DOMAIN k.transactions :
                            LET t == k.transactions[i] IN
                            /\ \A j \in DOMAIN t.parameters : Registered(t.parameters[j].schema)
                            /\ Registered(t.returns)
                      /\ \A n \in Idents : out[n] # None =>
                            \A j \in DOMAIN Fields(out[n]) : Registered(Fields(out[n])[j].ty)
    BY DEF RefsResolve
  <2>1. /\ TypeOK /\ stack = <<>> /\ SignaturesUpTo(Len(txs) + 1, 1)
        /\ Schemas(stack, out, Plain)
    BY <1>1 DEF IInv, CollectOK
  <2>2. \A t : RegisteredIn(out, t) <=> Registered(t)
    BY DEF RegisteredIn, Registered, Document
  <2>3. ASSUME NEW i \in DOMAIN txs
        PROVE  /\ \A j \in DOMAIN txs[i].params : Registered(txs[i].params[j].ty)
               /\ Registered(txs[i].ok_ty)
    <3>1. txs \in Seq(TxMethod)
      BY <2>1 DEF TypeOK
    <3>2. txs[i] \in TxMethod /\ i < Len(txs) + 1
      BY <3>1
    <3>3. \A l \in DOMAIN Signature(txs[i]) : Registered(Signature(txs[i])[l])
      BY <2>1, <2>2, <3>2 DEF SignaturesUpTo
    <3>4. \A j \in DOMAIN txs[i].params : Registered(txs[i].params[j].ty)
      BY <3>2, <3>3, SignatureType
    <3>5. txs[i].ok_ty # None => Registered(txs[i].ok_ty)
      BY <3>2, <3>3, SignatureType
    <3> QED
      BY <3>4, <3>5 DEF Registered
  <2>4. ASSUME NEW i \in DOMAIN Contract.transactions
        PROVE  LET t == Contract.transactions[i] IN
               /\ \A j \in DOMAIN t.parameters : Registered(t.parameters[j].schema)
               /\ Registered(t.returns)
    <3>1. i \in DOMAIN txs /\ Contract.transactions[i] = Transaction(txs[i])
      BY DEF Contract
    <3>2. /\ DOMAIN Transaction(txs[i]).parameters = DOMAIN txs[i].params
          /\ Transaction(txs[i]).returns = txs[i].ok_ty
          /\ \A j \in DOMAIN txs[i].params :
                Transaction(txs[i]).parameters[j].schema = txs[i].params[j].ty
      BY DEF Transaction, Parameter
    <3> QED
      BY <2>3, <3>1, <3>2
  <2>5. ASSUME NEW n \in Idents, out[n] # None, NEW j \in DOMAIN Fields(out[n])
        PROVE  Registered(Fields(out[n])[j].ty)
    <3>1. Visited(stack, out, Plain, out[n])
      BY <2>1, <2>5 DEF Schemas
    <3>2. \/ Fields(out[n])[j].ty = Plain \/ RegisteredIn(out, Fields(out[n])[j].ty)
      BY <2>1, <3>1 DEF Visited
    <3> QED
      BY <2>2, <3>2 DEF Registered
  <2>6. Document.contracts = {Contract}
    BY DEF Document
  <2> QED
    BY <2>4, <2>5, <2>6
<1> QED
  BY <1>1, Invariance, PTL

(***************************************************************************)
(* A call made as the metadata says, under the name listed with or without *)
(* the name of the contract before it and with arguments of the types      *)
(* listed, is never refused by the dispatch or by the parsing.             *)
(***************************************************************************)
THEOREM ListedCallsAreRun == Spec => []ListedCallsRun
<1>1. ASSUME IInv PROVE ListedCallsRun
  <2> SUFFICES ASSUME NEW i \in DOMAIN txs, Listed(i), AsListed(Contract.transactions[i])
               PROVE  response \notin {"unknown function", "argument count", "invalid argument"}
    BY DEF ListedCallsRun
  <2> DEFINE m == txs[i]
             w == m.wire_name
             c == Contract.name
  <2>1. TypeOK /\ CallOK /\ txs \in Seq(TxMethod)
    BY <1>1 DEF IInv, TypeOK
  <2>2. m \in TxMethod
    BY <2>1
  <2>3. /\ Transaction(m).name = w /\ DOMAIN Transaction(m).parameters = DOMAIN m.params
        /\ \A j \in DOMAIN m.params : Transaction(m).parameters[j].schema = m.params[j].ty
        /\ Contract.transactions[i] = Transaction(m)
    BY DEF Transaction, Parameter, Contract
  <2>4. /\ w \in Seq(Name) /\ Len(w) = 1
        /\ \A j \in DOMAIN txs : txs[j].wire_name = w => j = i
    BY <2>2 DEF TxMethod, Wire, Listed
  <2>5. m.params \in Seq([ident: Name, ty: ArgTypes])
    BY <2>2 DEF TxMethod
  <2>6. Len(Transaction(m).parameters) = Len(m.params)
    <3>1. Len(m.params) \in Nat /\ DOMAIN m.params = 1 .. Len(m.params)
      BY <2>5, LenProperties, Zenon
    <3>2. Transaction(m).parameters = [j \in 1 .. Len(m.params) |-> Parameter(m.params[j])]
      BY <3>1 DEF Transaction
    <3> QED
      BY <3>1, <3>2
  <2>7. /\ request.function \in {w, <<c>> \o w}
        /\ Len(request.args) = Len(m.params)
        /\ \A j \in DOMAIN request.args : Transaction(m).parameters[j].schema \in request.args[j]
    BY <2>3, <2>6 DEF AsListed
  <2> HIDE DEF m, w, c
  <2>8. w = <<w[1]>>
    BY <2>4
  <2>9. function = w
    <3>1. CASE request.function = w
      BY <2>4, <2>8, <3>1 DEF function
    <3>2. CASE request.function = <<c>> \o w
      <4>1. Len(<<c>> \o w) = 2 /\ (<<c>> \o w)[2] = w[1]
        <5>1. PICK S : S = Name \cup {c}
          OBVIOUS
        <5>2. PICK d \in Seq(S) : d = <<c>> /\ Len(d) = 1
          <6>1. c \in S
            BY <5>1
          <6>2. \A e \in S : <<e>> \in Seq(S) /\ Len(<<e>>) = 1
            OBVIOUS
          <6> QED
            BY ONLY <6>1, <6>2, Zenon
        <5>3. w \in Seq(S)
          BY <2>4, <5>1
        <5>4. /\ Len(d \o w) = Len(d) + Len(w)
              /\ \A j \in 1 .. Len(d) + Len(w) :
                    (d \o w)[j] = IF j <= Len(d) THEN d[j] ELSE w[j - Len(d)]
          BY ONLY <5>2, <5>3, ConcatProperties
        <5>5. 2 \in 1 .. 1 + 1 /\ ~(2 <= 1) /\ 2 - 1 = 1 /\ 1 + 1 = 2
          OBVIOUS
        <5>6. Len(d \o w) = 2 /\ (d \o w)[2] = w[1]
          BY <2>4, <5>2, <5>4, <5>5
        <5> QED
          BY <5>2, <5>6
      <4> QED
        BY <2>8, <3>2, <4>1 DEF function
    <3> QED
      BY <2>7, <3>1, <3>2
  <2>10. i \in Arms
    <3>1. txs[i].wire_name = w
      BY DEF w, m
    <3>2. \A j \in 1 .. i - 1 : j \in DOMAIN txs /\ j # i
      BY <2>1
    <3> QED
      BY <2>4, <2>9, <3>1, <3>2 DEF Arms
  <2>11. \A k \in Arms : k = i
    BY <2>4, <2>9 DEF Arms
  <2>12. response # "unknown function"
    BY <2>1, <2>10 DEF CallOK
  <2>13. response # "argument count"
    <3> SUFFICES ASSUME response = "argument count" PROVE FALSE
      OBVIOUS
    <3>1. tx = i /\ Len(request.args) # Len(txs[tx].params)
      BY <2>1, <2>11 DEF CallOK
    <3> QED
      BY <2>7, <3>1 DEF m
  <2>14. response # "invalid argument"
    <3> SUFFICES ASSUME response = "invalid argument" PROVE FALSE
      OBVIOUS
    <3>1. /\ tx = i /\ arg \in DOMAIN request.args
          /\ ~from_arg(m.params[arg].ty, request.args[arg])
      BY <2>1, <2>11 DEF CallOK, m
    <3>2. arg \in DOMAIN m.params
      <4>1. request.args \in Seq(SUBSET ArgTypes)
        BY <2>1, SourceTypes
      <4>2. DOMAIN request.args = 1 .. Len(request.args)
        BY <4>1, LenProperties, Zenon
      <4>3. DOMAIN m.params = 1 .. Len(m.params)
        BY <2>5, LenProperties, Zenon
      <4> QED
        BY <2>7, <3>1, <4>2, <4>3
    <3> QED
      BY <2>3, <2>7, <3>1, <3>2 DEF from_arg
  <2> QED
    BY <2>12, <2>13, <2>14
<1> QED
  BY <1>1, Invariance, PTL


-----------------------------------------------------------------------------
(* Attributes and names of fields, against serde *)

LEMMA OnlyOne == ASSUME NEW n \in Nat PROVE Min({n}) = n /\ Max({n}) = n
<1>1. (CHOOSE x \in {n} : \A y \in {n} : x <= y) = n
  OBVIOUS
<1>2. (CHOOSE x \in {n} : \A y \in {n} : x >= y) = n
  OBVIOUS
<1> QED
  BY <1>1, <1>2 DEF Min, Max

(***************************************************************************)
(* A key that serde accepts, with no parentheses before it, is found by    *)
(* the macro, in the attribute and at the place where it is.               *)
(***************************************************************************)
LEMMA SameValue ==
    ASSUME NEW M, NEW attrs \in Seq(Seq(M)), NEW key, Legible(attrs, key)
    PROVE  serde_string_value(attrs, key) = SerdeValue(attrs, key)
<1>1. \A n \in DOMAIN attrs : attrs[n] \in Seq(M) /\ n \in Nat
  OBVIOUS
<1>2. \A n \in DOMAIN attrs : /\ DOMAIN attrs[n] = 1 .. Len(attrs[n])
                              /\ Len(attrs[n]) \in Nat
  BY <1>1
<1>3. \A n, k : <<n, k>> \in Places(attrs, key) <=>
                    n \in DOMAIN attrs /\ k \in DOMAIN attrs[n] /\ attrs[n][k].key = key
  BY DEF Places
<1>4. \A p \in Places(attrs, key) : \E n, k : p = <<n, k>>
  BY DEF Places
<1>5. ASSUME NEW n \in DOMAIN attrs, NEW k \in DOMAIN attrs[n], attrs[n][k].key = key,
             NEW j \in 1 .. k
      PROVE  ~Stops(attrs[n][j], key)
  <2>1. PICK p : p = <<n, k>>
    OBVIOUS
  <2>2. p \in Places(attrs, key) /\ p[1] = n /\ p[2] = k
    BY <1>3, <1>5, <2>1
  <2>3. attrs[n][j].form # "list"
    BY <2>2 DEF Legible
  <2>4. j \in DOMAIN attrs[n]
    BY <1>2
  <2>5. ASSUME attrs[n][j].key = key PROVE attrs[n][j].form = "value"
    <3>1. <<n, j>> \in Places(attrs, key) /\ <<n, j>>[1] = n /\ <<n, j>>[2] = j
      BY <1>3, <2>4, <2>5
    <3> QED
      BY <3>1 DEF Legible
  <2> QED
    BY <2>3, <2>5 DEF Stops
<1>6. ASSUME NEW n \in DOMAIN attrs, NEW k
      PROVE  k \in Found(attrs[n], key) <=> <<n, k>> \in Places(attrs, key)
  BY <1>3, <1>5 DEF Found
<1>7. CASE Places(attrs, key) = {}
  <2>1. {n \in DOMAIN attrs : Found(attrs[n], key) # {}} = {}
    BY <1>6, <1>7
  <2> QED
    BY <1>7, <2>1 DEF serde_string_value, SerdeValue
<1>8. CASE Places(attrs, key) # {}
  <2>1. PICK p \in Places(attrs, key) : TRUE
    BY <1>8
  <2>2. PICK n, k : p = <<n, k>>
    BY <1>4, <2>1
  <2>3. n \in DOMAIN attrs /\ k \in DOMAIN attrs[n] /\ p[1] = n /\ p[2] = k
    BY <1>3, <2>1, <2>2
  <2>4. \A m, l : <<m, l>> \in Places(attrs, key) => m = n /\ l = k
    BY <2>1, <2>2 DEF Legible
  <2>5. {m \in DOMAIN attrs : Found(attrs[m], key) # {}} = {n}
    <3>1. k \in Found(attrs[n], key)
      BY <1>6, <2>1, <2>2, <2>3
    <3>2. ASSUME NEW m \in DOMAIN attrs, Found(attrs[m], key) # {} PROVE m = n
      <4>1. PICK l : l \in Found(attrs[m], key)
        BY <3>2
      <4>2. <<m, l>> \in Places(attrs, key)
        BY <1>6, <4>1
      <4> QED
        BY <2>4, <4>2
    <3> QED
      BY <2>3, <3>1, <3>2
  <2>6. Found(attrs[n], key) = {k}
    BY <1>6, <2>1, <2>2, <2>3, <2>4
  <2>7. Min({n}) = n /\ Max({k}) = k
    <3>1. n \in Nat /\ k \in Nat
      BY <1>1, <1>2, <2>3
    <3> QED
      BY ONLY <3>1, OnlyOne
  <2>8. serde_string_value(attrs, key) = attrs[n][k].value
    BY <2>5, <2>6, <2>7 DEF serde_string_value
  <2>9. (CHOOSE q \in Places(attrs, key) : TRUE) = p
    BY <2>1 DEF Legible
  <2> QED
    BY <1>8, <2>3, <2>8, <2>9 DEF SerdeValue
<1> QED
  BY <1>7, <1>8

(***************************************************************************)
(* The words of a field name are its elements at odd places.               *)
(***************************************************************************)
Odd(n) == n % 2 = 1

LEMMA OddPlaces ==
    ASSUME NEW name \in Name, SnakeCase(name)
    PROVE  /\ {n \in DOMAIN name : name[n].style # "mark"} = {n \in DOMAIN name : Odd(n)}
           /\ {n \in DOMAIN name : name[n] # Mark("_")} = {n \in DOMAIN name : Odd(n)}
<1>1. Mark("_").style = "mark"
  BY DEF Mark
<1>2. ASSUME NEW n \in DOMAIN name
      PROVE  (name[n].style # "mark" <=> Odd(n)) /\ (name[n] # Mark("_") <=> Odd(n))
  <2>1. CASE Odd(n)
    <3>1. name[n].style = "lower"
      BY <2>1 DEF SnakeCase, Odd
    <3> QED
      BY <1>1, <2>1, <3>1
  <2>2. CASE ~Odd(n)
    <3>1. name[n] = Mark("_")
      BY <2>2 DEF SnakeCase, Odd
    <3> QED
      BY <1>1, <2>2, <3>1
  <2> QED
    BY <2>1, <2>2
<1> QED
  BY <1>2

LEMMA OddCount ==
    ASSUME NEW L \in Nat, NEW k \in Nat, k >= 1, 2 * k - 1 <= L
    PROVE  Cardinality({m \in {n \in 1 .. L : Odd(n)} : m <= 2 * k - 1}) = k
<1>1. PICK T : T = {m \in {n \in 1 .. L : Odd(n)} : m <= 2 * k - 1}
  OBVIOUS
<1>2. PICK f : f = [j \in 1 .. k |-> 2 * j - 1]
  OBVIOUS
<1>3. \A j \in 1 .. k : 2 * j - 1 \in 1 .. L /\ Odd(2 * j - 1) /\ 2 * j - 1 <= 2 * k - 1
  BY DEF Odd
<1>4. f \in [1 .. k -> T]
  BY <1>1, <1>2, <1>3
<1>5. ASSUME NEW m \in T PROVE \E j \in 1 .. k : f[j] = m
  <2>1. m \in 1 .. L /\ m % 2 = 1 /\ m <= 2 * k - 1
    BY <1>1 DEF Odd
  <2>2. PICK j \in 1 .. k : m = 2 * j - 1
    <3>1. (m + 1) \div 2 \in 1 .. k /\ m = 2 * ((m + 1) \div 2) - 1
      BY <2>1
    <3> QED
      BY <3>1
  <2> QED
    BY <1>2, <2>2
<1>6. \A i, j \in 1 .. k : f[i] = f[j] => i = j
  BY <1>2
<1>7. f \in Surjection(1 .. k, T)
  BY <1>4, <1>5 DEF Surjection
<1>8. f \in Injection(1 .. k, T)
  BY <1>4, <1>6 DEF Injection, IsInjective
<1>9. IsFiniteSet(1 .. k) /\ Cardinality(1 .. k) = k
  BY FS_Interval
<1> QED
  BY <1>1, <1>7, <1>8, <1>9, FS_Surjection


(***************************************************************************)
(* Selecting the odd places of a sequence of odd length gives every second *)
(* element.                                                                *)
(***************************************************************************)
LEMMA OddSelected ==
    ASSUME NEW S, NEW s \in Seq(S), Len(s) % 2 = 1, NEW P, P = {n \in DOMAIN s : Odd(n)}
    PROVE  /\ Selected(s, P) \in Seq(S) /\ Len(s) = 2 * Len(Selected(s, P)) - 1
           /\ \A k \in 1 .. Len(Selected(s, P)) :
                 2 * k - 1 \in DOMAIN s /\ Selected(s, P)[k] = s[2 * k - 1]
<1>1. PICK L \in Nat : L = Len(s) /\ DOMAIN s = 1 .. L
  OBVIOUS
<1>2. PICK K \in Nat : L = 2 * K - 1 /\ K >= 1
  <2>1. (L + 1) \div 2 \in Nat /\ L = 2 * ((L + 1) \div 2) - 1 /\ (L + 1) \div 2 >= 1
    BY <1>1
  <2> QED
    BY <2>1
<1>3. P = {n \in 1 .. L : Odd(n)}
  BY <1>1
<1>4. ASSUME NEW k \in 1 .. K
      PROVE  Cardinality({m \in P : m <= 2 * k - 1}) = k
  <2>1. k \in Nat /\ k >= 1 /\ 2 * k - 1 <= L
    BY <1>2
  <2> QED
    BY <1>3, <2>1, OddCount
<1>5. Cardinality(P) = K
  <2>1. {m \in P : m <= 2 * K - 1} = P
    BY <1>2, <1>3
  <2>2. K \in 1 .. K
    BY <1>2
  <2> QED
    BY <1>4, <2>1, <2>2
<1>6. ASSUME NEW k \in 1 .. K
      PROVE  (CHOOSE n \in P : Cardinality({m \in P : m <= n}) = k) = 2 * k - 1
  <2>1. 2 * k - 1 \in P
    BY <1>2, <1>3 DEF Odd
  <2>2. ASSUME NEW n \in P, Cardinality({m \in P : m <= n}) = k PROVE n = 2 * k - 1
    <3>1. n \in 1 .. L /\ n % 2 = 1
      BY <1>3 DEF Odd
    <3>2. (n + 1) \div 2 \in 1 .. K /\ n = 2 * ((n + 1) \div 2) - 1
      BY <1>2, <3>1
    <3>3. PICK j \in 1 .. K : n = 2 * j - 1
      BY <3>2
    <3> QED
      BY <1>4, <2>2, <3>3
  <2> QED
    BY <1>4, <2>1, <2>2
<1>7. Selected(s, P) = [k \in 1 .. K |-> s[2 * k - 1]]
  <2> DEFINE At(k) == CHOOSE n \in P : Cardinality({m \in P : m <= n}) = k
  <2>1. Selected(s, P) = [k \in 1 .. Cardinality(P) |-> s[At(k)]]
    BY DEF Selected
  <2>2. \A k \in 1 .. K : At(k) = 2 * k - 1
    BY <1>6
  <2> HIDE DEF At
  <2> QED
    BY <1>5, <2>1, <2>2
<1>8. \A k \in 1 .. K : 2 * k - 1 \in 1 .. L /\ s[2 * k - 1] \in S
  BY <1>1, <1>2
<1>9. Selected(s, P) \in Seq(S) /\ Len(Selected(s, P)) = K
  BY <1>7, <1>8
<1> QED
  BY <1>1, <1>2, <1>7, <1>8, <1>9


(***************************************************************************)
(* The words of a field name in snake case, which heck and serde both take *)
(* to be its words.                                                        *)
(***************************************************************************)
LEMMA SnakeWords ==
    ASSUME NEW name \in Name, SnakeCase(name)
    PROVE  /\ WordsOf(name) = Selected(name, {n \in DOMAIN name : name[n] # Mark("_")})
           /\ WordsOf(name) \in Name /\ Len(name) = 2 * Len(WordsOf(name)) - 1
           /\ \A k \in 1 .. Len(WordsOf(name)) :
                 /\ 2 * k - 1 \in DOMAIN name
                 /\ WordsOf(name)[k] = name[2 * k - 1]
<1>1. PICK P : P = {n \in DOMAIN name : Odd(n)}
  OBVIOUS
<1>2. /\ WordsOf(name) = Selected(name, P)
      /\ Selected(name, {n \in DOMAIN name : name[n] # Mark("_")}) = Selected(name, P)
  BY <1>1, OddPlaces DEF WordsOf
<1>3. name \in Seq(Token) /\ Len(name) % 2 = 1
  BY DEF Name, SnakeCase
<1>4. /\ Selected(name, P) \in Seq(Token) /\ Len(name) = 2 * Len(Selected(name, P)) - 1
      /\ \A k \in 1 .. Len(Selected(name, P)) :
            2 * k - 1 \in DOMAIN name /\ Selected(name, P)[k] = name[2 * k - 1]
  BY <1>1, <1>3, OddSelected
<1> QED
  BY <1>2, <1>4 DEF Name

(***************************************************************************)
(* What a word and a mark become in a style.                               *)
(***************************************************************************)
LEMMA StyleOf ==
    ASSUME NEW k \in Token, NEW s
    PROVE  /\ k.style = "lower" => InStyle(k, "lower") = k /\ k # Mark("_")
           /\ InStyle(Mark("_"), s) = Mark("_")
<1>1. Mark("_").style = "mark"
  BY DEF Mark
<1>2. ASSUME k.style = "lower" PROVE InStyle(k, "lower") = k /\ k # Mark("_")
  <2>1. k \in [text: Words, style: {"lower", "Capital", "UPPER"}]
    BY <1>2 DEF Token
  <2>2. [k EXCEPT !.style = "lower"] = k
    BY <1>2, <2>1
  <2> QED
    BY <1>1, <1>2, <2>2 DEF InStyle
<1>3. InStyle(Mark("_"), s) = Mark("_")
  BY <1>1 DEF InStyle
<1> QED
  BY <1>2, <1>3

(***************************************************************************)
(* The words of a field name, joined again by a mark, are its words with   *)
(* that mark in place of the underscore.                                   *)
(***************************************************************************)
LEMMA JoinedAgain ==
    ASSUME NEW name \in Name, SnakeCase(name), NEW style, NEW mark
    PROVE  Joined(name, style, mark) =
              [n \in DOMAIN name |-> IF Odd(n) THEN InStyle(name[n], style) ELSE Mark(mark)]
<1>1. PICK w \in Name : w = WordsOf(name)
  BY SnakeWords
<1>2. /\ Len(name) = 2 * Len(w) - 1
      /\ \A k \in 1 .. Len(w) : 2 * k - 1 \in DOMAIN name /\ w[k] = name[2 * k - 1]
  BY <1>1, SnakeWords
<1>3. Len(w) \in Nat /\ Len(name) \in Nat /\ DOMAIN name = 1 .. Len(name)
  BY DEF Name
<1>4. ASSUME NEW n \in 1 .. Len(name), n % 2 = 1 PROVE w[(n + 1) \div 2] = name[n]
  <2>1. PICK K \in Nat : K = Len(w) /\ n \in 1 .. 2 * K - 1
    BY <1>2, <1>3
  <2>2. (n + 1) \div 2 \in 1 .. K /\ 2 * ((n + 1) \div 2) - 1 = n
    BY ONLY <1>4, <2>1
  <2>3. PICK k \in 1 .. Len(w) : k = (n + 1) \div 2 /\ 2 * k - 1 = n
    BY <2>1, <2>2
  <2> QED
    BY <1>2, <2>3
<1>5. Joined(name, style, mark) =
        [n \in 1 .. 2 * Len(w) - 1 |->
            IF n % 2 = 1 THEN InStyle(w[(n + 1) \div 2], style) ELSE Mark(mark)]
  BY <1>1 DEF Joined
<1> QED
  BY <1>2, <1>3, <1>4, <1>5 DEF Odd


(***************************************************************************)
(* A field name in snake case is renamed by a rule as serde renames it.    *)
(***************************************************************************)
LEMMA SameRename ==
    ASSUME NEW name \in Name, SnakeCase(name), NEW rule, rule # "SCREAMING-KEBAB-CASE"
    PROVE  apply_rename_all(name, rule) = SerdeRenameAll(Unraw(name), rule)
<1>1. DOMAIN name = 1 .. Len(name) /\ Len(name) \in Nat /\ \A n \in DOMAIN name : name[n] \in Token
  BY DEF Name
<1>2. Unraw(name) = name
  <2>1. Mark("_") # Mark("#")
    BY DEF Mark
  <2>2. Len(name) > 2 => name[2] = Mark("_")
    <3>1. Len(name) > 2 => 2 \in DOMAIN name /\ ~(2 % 2 = 1)
      BY <1>1
    <3> QED
      BY <3>1 DEF SnakeCase
  <2> QED
    BY <2>1, <2>2 DEF Unraw
<1>3. \A n \in DOMAIN name : /\ Odd(n) => name[n].style = "lower"
                             /\ ~Odd(n) => name[n] = Mark("_")
  BY DEF SnakeCase, Odd
<1>4. PICK words : words = Selected(name, {n \in DOMAIN name : name[n] # Mark("_")})
  OBVIOUS
<1>5. WordsOf(name) = words
  BY <1>4, SnakeWords
<1>6. CASE rule = "camelCase"
  BY <1>2, <1>4, <1>5, <1>6 DEF apply_rename_all, SerdeRenameAll, to_lower_camel_case, Camel
<1>7. CASE rule = "PascalCase"
  <2>1. Camel(name, "Capital") = [n \in DOMAIN words |-> InStyle(words[n], "Capital")]
    BY <1>5 DEF Camel
  <2> QED
    BY <1>2, <1>4, <1>7, <2>1 DEF apply_rename_all, SerdeRenameAll, to_upper_camel_case
<1>8. CASE rule = "UPPERCASE"
  BY <1>2, <1>8 DEF apply_rename_all, SerdeRenameAll
<1>9. CASE rule = "lowercase"
  <2>1. \A n \in DOMAIN name : InStyle(name[n], "lower") = name[n]
    BY <1>1, <1>3, StyleOf
  <2>2. to_lowercase(name) = name
    BY <1>1, <2>1 DEF to_lowercase, Name
  <2> QED
    BY <1>2, <1>9, <2>2 DEF apply_rename_all, SerdeRenameAll
<1>10. CASE rule = "SCREAMING_SNAKE_CASE"
  <2>1. \A n \in DOMAIN name :
           InStyle(name[n], "UPPER") = IF Odd(n) THEN InStyle(name[n], "UPPER") ELSE Mark("_")
    BY <1>1, <1>3, StyleOf
  <2>2. to_uppercase(name) =
          [n \in DOMAIN name |-> IF Odd(n) THEN InStyle(name[n], "UPPER") ELSE Mark("_")]
    BY <2>1 DEF to_uppercase
  <2>3. Joined(name, "UPPER", "_") =
          [n \in DOMAIN name |-> IF Odd(n) THEN InStyle(name[n], "UPPER") ELSE Mark("_")]
    <3>1. \A s, m : Joined(name, s, m) =
             [n \in DOMAIN name |-> IF Odd(n) THEN InStyle(name[n], s) ELSE Mark(m)]
      BY JoinedAgain
    <3> QED
      BY ONLY <3>1, Zenon
  <2>4. to_uppercase(name) = Joined(name, "UPPER", "_")
    BY ONLY <2>2, <2>3
  <2> QED
    BY <1>2, <1>10, <2>4 DEF apply_rename_all, SerdeRenameAll
<1>11. CASE rule = "kebab-case"
  <2>1. \A n \in DOMAIN name :
           (IF name[n] = Mark("_") THEN Mark("-") ELSE name[n]) =
           (IF Odd(n) THEN InStyle(name[n], "lower") ELSE Mark("-"))
    BY <1>1, <1>3, StyleOf
  <2>2. Hyphens(name) =
          [n \in DOMAIN name |-> IF Odd(n) THEN InStyle(name[n], "lower") ELSE Mark("-")]
    BY <2>1 DEF Hyphens
  <2>3. Hyphens(name) = Joined(name, "lower", "-")
    BY <2>2, JoinedAgain
  <2> QED
    BY <1>2, <1>11, <2>3 DEF apply_rename_all, SerdeRenameAll
<1>12. CASE rule \notin {"camelCase", "PascalCase", "UPPERCASE", "lowercase",
                         "SCREAMING_SNAKE_CASE", "kebab-case"}
  BY <1>2, <1>12 DEF apply_rename_all, SerdeRenameAll
<1> QED
  BY <1>6, <1>7, <1>8, <1>9, <1>10, <1>11, <1>12

(***************************************************************************)
(* The schema derived for a struct is that of the JSON serde makes of it.  *)
(***************************************************************************)
LEMMA SameSchema ==
    ASSUME NEW struct \in Struct, Supported(struct)
    PROVE  derive_data_type(struct) = SerdeJson(struct)
<1>1. /\ struct.attrs \in Seq(Seq(RuleMeta))
      /\ \A n \in DOMAIN struct.fields : struct.fields[n] \in Field
  BY DEF Struct
<1>2. PICK rule : rule = serde_string_value(struct.attrs, "rename_all")
  OBVIOUS
<1>3. rule = SerdeValue(struct.attrs, "rename_all")
  BY <1>1, <1>2, SameValue DEF Supported
<1>4. ASSUME NEW n \in DOMAIN struct.fields
      PROVE  json_name(struct.fields[n], rule) = SerdeName(struct.fields[n], rule)
  <2>1. PICK field \in Field : field = struct.fields[n]
    BY <1>1
  <2>2. field.ident \in Name /\ field.attrs \in Seq(Seq(SerdeMeta))
    BY DEF Field
  <2>3. SnakeCase(field.ident) /\ Legible(field.attrs, "rename")
    BY <2>1 DEF Supported
  <2>4. serde_string_value(field.attrs, "rename") = SerdeValue(field.attrs, "rename")
    BY <2>2, <2>3, SameValue
  <2>5. rule # "SCREAMING-KEBAB-CASE"
    BY <1>3 DEF Supported
  <2>6. apply_rename_all(field.ident, rule) = SerdeRenameAll(Unraw(field.ident), rule)
    BY <2>2, <2>3, <2>5, SameRename
  <2> QED
    BY <2>1, <2>4, <2>6 DEF json_name, SerdeName
<1>5. {json_name(struct.fields[n], rule) : n \in DOMAIN struct.fields} =
      {SerdeName(struct.fields[n], rule) : n \in DOMAIN struct.fields}
  BY <1>4
<1>6. {json_name(struct.fields[n], rule) : n \in {k \in DOMAIN struct.fields : ~struct.fields[k].option}} =
      {SerdeName(struct.fields[n], rule) : n \in {k \in DOMAIN struct.fields : ~struct.fields[k].option}}
  BY <1>4
<1> QED
  BY <1>2, <1>3, <1>5, <1>6 DEF derive_data_type, SerdeJson

(***************************************************************************)
(* Every schema in the document has the properties that serde writes for   *)
(* the struct, under the names that serde gives them, and requires those   *)
(* that serde requires, for every contract whose structs have the          *)
(* identifiers and attributes that FieldsMatch does not except.            *)
(***************************************************************************)
THEOREM SchemasAreSerdes == Spec => []FieldsMatch
<1>1. ASSUME TypeOK PROVE FieldsMatch
  <2> SUFFICES ASSUME NEW n \in Idents, out[n] # None, Supported(contract.structs[out[n]])
               PROVE  derive_data_type(contract.structs[out[n]]) = SerdeJson(contract.structs[out[n]])
    BY DEF FieldsMatch
  <2>1. out[n] \in Structs
    BY <1>1 DEF TypeOK
  <2>2. contract.structs[out[n]] \in Struct
    BY <1>1, <2>1 DEF TypeOK, Source
  <2> QED
    BY <2>2, SameSchema
<1> QED
  BY <1>1, TypeCorrect, PTL

=============================================================================
