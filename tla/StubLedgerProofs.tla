-------------------------- MODULE StubLedgerProofs --------------------------
(***************************************************************************)
(* Theorems about CompositeKey and StubLedger, for components, keys and    *)
(* collections of any length and any number of attributes and entries.     *)
(***************************************************************************)
EXTENDS StubLedger, OrderFacts, SequenceTheorems, FiniteSetTheorems

-----------------------------------------------------------------------------
(* Strings *)

String == Seq(0 .. MaxRune)

Delimiter == <<COMPOSITE_KEY_NAMESPACE>>

(***************************************************************************)
(* The strings that may be parts of a composite key.                       *)
(***************************************************************************)
Parts == {s \in String : validate_composite_component(s)}

LEMMA DelimiterString ==
    /\ Delimiter \in String /\ Len(Delimiter) = 1 /\ Delimiter[1] = COMPOSITE_KEY_NAMESPACE
    /\ COMPOSITE_KEY_NAMESPACE = 0 /\ 0 \in 0 .. MaxRune
  BY MaxRuneAssumption DEF Delimiter, String, COMPOSITE_KEY_NAMESPACE

(***************************************************************************)
(* A concatenation, element by element.                                    *)
(***************************************************************************)
LEMMA Concatenation ==
    ASSUME NEW s \in String, NEW t \in String
    PROVE  /\ s \o t \in String /\ Len(s \o t) = Len(s) + Len(t)
           /\ \A i \in 1 .. Len(s) : (s \o t)[i] = s[i]
           /\ \A i \in 1 .. Len(t) : (s \o t)[Len(s) + i] = t[i]
<1>1. s \o t \in String /\ Len(s \o t) = Len(s) + Len(t)
  BY DEF String
<1>2. Len(s) \in Nat /\ Len(t) \in Nat
  BY DEF String
<1>3. \A i \in 1 .. Len(s) + Len(t) : (s \o t)[i] = IF i <= Len(s) THEN s[i] ELSE t[i - Len(s)]
  BY DEF String
<1>4. \A i \in 1 .. Len(s) : (s \o t)[i] = s[i]
  BY <1>2, <1>3
<1>5. ASSUME NEW i \in 1 .. Len(t) PROVE (s \o t)[Len(s) + i] = t[i]
  <2>1. /\ Len(s) + i \in 1 .. Len(s) + Len(t) /\ ~(Len(s) + i <= Len(s))
        /\ (Len(s) + i) - Len(s) = i
    BY <1>2
  <2> QED
    BY <1>3, <2>1
<1> QED
  BY <1>1, <1>4, <1>5

LEMMA ElementOf == ASSUME NEW S, NEW s \in Seq(S), NEW i \in 1 .. Len(s) PROVE s[i] \in S
  OBVIOUS

LEMMA CodePoint ==
    ASSUME NEW s \in String, NEW i \in 1 .. Len(s)
    PROVE  s[i] \in 0 .. MaxRune /\ s[i] \in Nat
<1>1. s[i] \in 0 .. MaxRune
  BY ElementOf DEF String
<1> QED
  BY <1>1, MaxRuneAssumption

LEMMA TailOf ==
    ASSUME NEW s \in String, s # <<>>
    PROVE  /\ Tail(s) \in String /\ Len(Tail(s)) = Len(s) - 1
           /\ \A i \in 1 .. Len(Tail(s)) : Tail(s)[i] = s[i + 1]
<1>1. s \in Seq(0 .. MaxRune)
  BY DEF String
<1> QED
  BY <1>1 DEF String

LEMMA SameString ==
    ASSUME NEW s \in String, NEW t \in String, Len(s) = Len(t),
           \A i \in 1 .. Len(s) : s[i] = t[i]
    PROVE  s = t
  BY DEF String

-----------------------------------------------------------------------------
(* create_composite_key *)

(***************************************************************************)
(* g has the key of t and a after each attribute.                          *)
(***************************************************************************)
Chain(g, t, a, n) ==
    /\ g \in [0 .. n -> String]
    /\ g[0] = Delimiter \o t \o Delimiter
    /\ \A i \in 1 .. n : g[i] = g[i - 1] \o a[i] \o Delimiter

LEMMA KeyIsChain ==
    ASSUME NEW t \in String, NEW a \in Seq(String)
    PROVE  \E g : Chain(g, t, a, Len(a)) /\ create_composite_key(t, a) = g[Len(a)]
<1>1. Len(a) \in Nat
  OBVIOUS
<1>2. PICK f : f = [y \in String \X (1 .. Len(a)) |-> y[1] \o a[y[2]] \o Delimiter]
  OBVIOUS
<1>3. \A x \in String, i \in 1 .. Len(a) :
         f[<<x, i>>] = x \o a[i] \o Delimiter /\ f[<<x, i>>] \in String
  BY <1>2, DelimiterString, Concatenation, ElementOf
<1>5. Delimiter \o t \o Delimiter \in String
  BY DelimiterString, Concatenation
<1>6. PICK h \in [0 .. Len(a) -> String] :
         /\ h[0] = Delimiter \o t \o Delimiter
         /\ \A i \in 1 .. Len(a) : h[i] = f[<<h[i - 1], i>>]
  <2>1. PICK n \in Nat, x \in String : n = Len(a) /\ x = Delimiter \o t \o Delimiter
    BY <1>1, <1>5
  <2>2. StepsWithin(f, String, n)
    BY <1>3, <2>1 DEF StepsWithin
  <2>3. \E h : Recursion(h, f, x, String, n)
    BY <2>2, FiniteRecursion
  <2> QED
    BY <2>1, <2>3 DEF Recursion
<1>7. Chain(h, t, a, Len(a))
  <2>1. \A i \in 1 .. Len(a) : i - 1 \in 0 .. Len(a)
    BY <1>1
  <2> QED
    BY <1>3, <1>6, <2>1 DEF Chain
<1> DEFINE Pushing(g) == g = [i \in 0 .. Len(a) |-> IF i = 0 THEN Delimiter \o t \o Delimiter
                                                   ELSE g[i - 1] \o a[i] \o Delimiter]
           pushed == CHOOSE g : Pushing(g)
<1>8. Pushing(h)
  <2>1. \A i \in 0 .. Len(a) : i # 0 => i \in 1 .. Len(a)
    BY <1>1
  <2>2. \A i \in 0 .. Len(a) : h[i] = IF i = 0 THEN Delimiter \o t \o Delimiter
                                      ELSE h[i - 1] \o a[i] \o Delimiter
    BY <1>7, <2>1 DEF Chain
  <2> QED
    BY <1>6, <2>2
<1>9. Pushing(pushed)
  BY <1>8
<1>10. create_composite_key(t, a) = pushed[Len(a)]
  BY DEF create_composite_key, Delimiter
<1> HIDE DEF pushed
<1>11. pushed[0] = h[0]
  BY <1>1, <1>8, <1>9
<1>12. \A i \in 1 .. Len(a) : i \in 0 .. Len(a) /\ i # 0
  BY <1>1
<1>13. \A i \in 1 .. Len(a) : pushed[i - 1] = h[i - 1] => pushed[i] = h[i]
  BY <1>8, <1>9, <1>12
<1>14. Len(a) \in 0 .. Len(a)
  BY <1>1
<1>15. pushed[Len(a)] = h[Len(a)]
  BY <1>1, <1>11, <1>13, <1>14, FunctionsAgree
<1> QED
  BY <1>7, <1>10, <1>15

-----------------------------------------------------------------------------
(* Prefixes *)

(***************************************************************************)
(* IsPrefix, element by element.                                           *)
(***************************************************************************)
Starts(s, w) == Len(s) <= Len(w) /\ \A i \in 1 .. Len(s) : s[i] = w[i]

LEMMA PrefixStarts ==
    ASSUME NEW S, NEW s \in Seq(S), NEW w \in Seq(S)
    PROVE  IsPrefix(s, w) <=> Starts(s, w)
<1>1. Len(s) \in Nat /\ Len(w) \in Nat
  OBVIOUS
<1>2. SubSeq(s, 1, Len(s)) = s
  OBVIOUS
<1>3. ASSUME Len(s) <= Len(w)
      PROVE  (SubSeq(w, 1, Len(s)) = s) <=> \A i \in 1 .. Len(s) : s[i] = w[i]
  <2>1. /\ SubSeq(w, 1, Len(s)) \in Seq(S) /\ Len(SubSeq(w, 1, Len(s))) = Len(s)
        /\ \A i \in 1 .. Len(s) : SubSeq(w, 1, Len(s))[i] = w[i]
    BY <1>1, <1>3
  <2>2. PICK x \in Seq(S) : x = SubSeq(w, 1, Len(s))
    BY <2>1
  <2> QED
    BY <2>1, <2>2
<1> QED
  BY <1>2, <1>3 DEF IsPrefix, Starts

LEMMA StartsTransitive ==
    ASSUME NEW s \in String, NEW t \in String, NEW w \in String, Starts(s, t), Starts(t, w)
    PROVE  Starts(s, w)
<1>1. Len(s) \in Nat /\ Len(t) \in Nat /\ Len(w) \in Nat
  BY DEF String
<1>2. \A i \in 1 .. Len(s) : i \in 1 .. Len(t)
  BY <1>1 DEF Starts
<1> QED
  BY <1>1, <1>2 DEF Starts

(***************************************************************************)
(* A string that goes on with p and a delimiter after b.                   *)
(***************************************************************************)
LEMMA Pushed ==
    ASSUME NEW b \in String, NEW p \in String
    PROVE  /\ b \o p \o Delimiter \in String
           /\ Len(b \o p \o Delimiter) = Len(b) + Len(p) + 1
           /\ \A i \in 1 .. Len(b) : (b \o p \o Delimiter)[i] = b[i]
           /\ \A i \in 1 .. Len(p) : (b \o p \o Delimiter)[Len(b) + i] = p[i]
           /\ (b \o p \o Delimiter)[Len(b) + Len(p) + 1] = COMPOSITE_KEY_NAMESPACE
<1>1. PICK bp : bp = b \o p
  OBVIOUS
<1>2. /\ bp \in String /\ Len(bp) = Len(b) + Len(p)
      /\ \A i \in 1 .. Len(b) : bp[i] = b[i]
      /\ \A i \in 1 .. Len(p) : bp[Len(b) + i] = p[i]
  BY <1>1, Concatenation
<1>3. PICK x : x = bp \o Delimiter
  OBVIOUS
<1>4. /\ x \in String /\ Len(x) = Len(bp) + 1
      /\ \A i \in 1 .. Len(bp) : x[i] = bp[i]
      /\ x[Len(bp) + 1] = COMPOSITE_KEY_NAMESPACE
  <2>1. /\ x \in String /\ Len(x) = Len(bp) + Len(Delimiter)
        /\ \A i \in 1 .. Len(bp) : x[i] = bp[i]
        /\ \A i \in 1 .. Len(Delimiter) : x[Len(bp) + i] = Delimiter[i]
    BY <1>2, <1>3, Concatenation, DelimiterString
  <2>2. 1 \in 1 .. 1
    OBVIOUS
  <2> QED
    BY <2>1, <2>2, DelimiterString
<1>5. Len(b) \in Nat /\ Len(p) \in Nat
  BY DEF String
<1>6. /\ \A i \in 1 .. Len(b) : i \in 1 .. Len(bp)
      /\ \A i \in 1 .. Len(p) : Len(b) + i \in 1 .. Len(bp)
  BY <1>2, <1>5
<1> QED
  BY <1>1, <1>2, <1>3, <1>4, <1>6

(***************************************************************************)
(* The part after b is read off a key: it ends at the first delimiter.     *)
(***************************************************************************)
LEMMA PartIsShorter ==
    ASSUME NEW b \in String, NEW p \in Parts, NEW q \in Parts, NEW w \in String,
           Starts(b \o p \o Delimiter, w), Starts(b \o q \o Delimiter, w)
    PROVE  Len(q) <= Len(p) /\ \A i \in 1 .. Len(q) : i \in 1 .. Len(p) => q[i] = p[i]
<1>1. p \in String /\ q \in String
  BY DEF Parts
<1>2. Len(b) \in Nat /\ Len(p) \in Nat /\ Len(q) \in Nat
  BY <1>1 DEF String
<1>3. PICK x : x = b \o p \o Delimiter
  OBVIOUS
<1>4. PICK y : y = b \o q \o Delimiter
  OBVIOUS
<1>5. /\ Len(x) = Len(b) + Len(p) + 1 /\ x[Len(b) + Len(p) + 1] = COMPOSITE_KEY_NAMESPACE
      /\ \A i \in 1 .. Len(p) : x[Len(b) + i] = p[i]
  BY <1>1, <1>3, Pushed
<1>6. Len(y) = Len(b) + Len(q) + 1 /\ \A i \in 1 .. Len(q) : y[Len(b) + i] = q[i]
  BY <1>1, <1>4, Pushed
<1>7. /\ \A i \in 1 .. Len(x) : x[i] = w[i]
      /\ \A i \in 1 .. Len(y) : y[i] = w[i]
  BY <1>3, <1>4 DEF Starts
<1>8. ASSUME ~(Len(q) <= Len(p)) PROVE FALSE
  <2>1. PICK n \in Nat : n = Len(p) + 1
    BY <1>2
  <2>2. n \in 1 .. Len(q) /\ Len(b) + n \in 1 .. Len(y) /\ Len(b) + n \in 1 .. Len(x)
    BY <1>2, <1>5, <1>6, <1>8, <2>1
  <2>3. Len(b) + n = Len(b) + Len(p) + 1
    BY <1>2, <2>1
  <2>4. q[n] = COMPOSITE_KEY_NAMESPACE
    BY <1>5, <1>6, <1>7, <2>2, <2>3
  <2>5. n \in DOMAIN q
    BY <1>1, <2>2 DEF String
  <2> QED
    BY <2>4, <2>5 DEF Parts, validate_composite_component
<1>9. ASSUME NEW i \in 1 .. Len(q), i \in 1 .. Len(p) PROVE q[i] = p[i]
  <2>1. Len(b) + i \in 1 .. Len(x) /\ Len(b) + i \in 1 .. Len(y)
    BY <1>2, <1>5, <1>6, <1>9
  <2> QED
    BY <1>5, <1>6, <1>7, <1>9, <2>1
<1> QED
  BY <1>8, <1>9

LEMMA SamePart ==
    ASSUME NEW b \in String, NEW p \in Parts, NEW q \in Parts, NEW w \in String,
           Starts(b \o p \o Delimiter, w), Starts(b \o q \o Delimiter, w)
    PROVE  p = q
<1>1. p \in String /\ q \in String /\ Len(p) \in Nat /\ Len(q) \in Nat
  BY DEF Parts, String
<1>2. Len(q) <= Len(p) /\ \A i \in 1 .. Len(q) : i \in 1 .. Len(p) => q[i] = p[i]
  BY PartIsShorter
<1>3. Len(p) <= Len(q)
  BY PartIsShorter
<1>4. Len(p) = Len(q)
  BY <1>1, <1>2, <1>3
<1> QED
  BY <1>1, <1>2, <1>4, SameString


-----------------------------------------------------------------------------
(* Composite keys are prefixes of one another as their parts are *)

(***************************************************************************)
(* What has been pushed first is a prefix of what is pushed last.          *)
(***************************************************************************)
LEMMA ChainGrows ==
    ASSUME NEW t \in String, NEW a \in Seq(String), NEW g, Chain(g, t, a, Len(a)),
           NEW i \in 0 .. Len(a)
    PROVE  \A j \in i .. Len(a) : g[j] \in String /\ Starts(g[i], g[j])
<1>1. Len(a) \in Nat /\ i \in Nat
  OBVIOUS
<1> DEFINE H == {n \in Nat : i + n <= Len(a) => Starts(g[i], g[i + n])}
<1>2. \A j \in 0 .. Len(a) : g[j] \in String
  BY DEF Chain
<1>3. 0 \in H
  <2>1. i + 0 = i /\ g[i] \in String
    BY <1>1, <1>2
  <2>2. Starts(g[i], g[i])
    BY <2>1 DEF Starts, String
  <2> QED
    BY <2>1, <2>2
<1>4. ASSUME NEW n \in Nat, n \in H PROVE n + 1 \in H
  <2> SUFFICES ASSUME i + (n + 1) <= Len(a) PROVE Starts(g[i], g[i + (n + 1)])
    OBVIOUS
  <2>1. PICK j \in 1 .. Len(a) : j = i + (n + 1)
    BY <1>1
  <2>2. /\ j - 1 = i + n /\ i + n <= Len(a) /\ j - 1 \in 0 .. Len(a) /\ j \in 0 .. Len(a)
        /\ j \in 1 .. Len(a)
    BY <1>1, <2>1
  <2>3. PICK b \in String : b = g[j - 1]
    BY <1>2, <2>2
  <2>4. g[j] = b \o a[j] \o Delimiter /\ a[j] \in String
    <3>1. a[j] \in String
      BY ONLY <2>2, a \in Seq(String), ElementOf
    <3>2. g[j] = g[j - 1] \o a[j] \o Delimiter
      BY ONLY <2>2, Chain(g, t, a, Len(a)), Zenon DEF Chain
    <3> QED
      BY <2>3, <3>1, <3>2
  <2>5. Starts(b, g[j])
    <3>1. Len(b) \in Nat /\ Len(a[j]) \in Nat
      BY <2>4 DEF String
    <3>2. Len(b) <= Len(b) + Len(a[j]) + 1
      BY <3>1
    <3>3. PICK x : x = b \o a[j] \o Delimiter
      OBVIOUS
    <3>4. Len(x) = Len(b) + Len(a[j]) + 1 /\ \A k \in 1 .. Len(b) : x[k] = b[k]
      BY <2>4, <3>3, Pushed
    <3> QED
      BY <2>4, <3>2, <3>3, <3>4 DEF Starts
  <2>6. Starts(g[i], b)
    BY <1>4, <2>2, <2>3
  <2>7. g[i] \in String /\ g[j] \in String
    BY <1>2, <2>2
  <2>8. Starts(g[i], g[j])
    BY <2>3, <2>5, <2>6, <2>7, StartsTransitive
  <2> QED
    BY <2>1, <2>8
<1> HIDE DEF H
<1>5. ASSUME NEW j \in i .. Len(a) PROVE g[j] \in String /\ Starts(g[i], g[j])
  <2>1. j - i \in Nat /\ i + (j - i) = j /\ j <= Len(a) /\ j \in 0 .. Len(a)
    BY <1>1
  <2>2. j - i \in H
    BY <1>3, <1>4, <2>1, SetInduction
  <2> QED
    BY <1>2, <2>1, <2>2 DEF H
<1> QED
  BY <1>5

(***************************************************************************)
(* Equal parts give equal keys.                                            *)
(***************************************************************************)
LEMMA ChainsAgree ==
    ASSUME NEW t \in String, NEW a \in Seq(String), NEW b \in Seq(String),
           NEW g, Chain(g, t, a, Len(a)), NEW h, Chain(h, t, b, Len(b)),
           NEW n \in Nat, n <= Len(a), n <= Len(b), \A i \in 1 .. n : a[i] = b[i]
    PROVE  g[n] = h[n]
<1>1. Len(a) \in Nat /\ Len(b) \in Nat
  OBVIOUS
<1>2. g[0] = h[0]
  BY DEF Chain
<1>3. ASSUME NEW i \in 1 .. n, g[i - 1] = h[i - 1] PROVE g[i] = h[i]
  <2>1. i \in 1 .. Len(a) /\ i \in 1 .. Len(b) /\ a[i] = b[i]
    BY <1>1
  <2> QED
    BY <1>3, <2>1 DEF Chain
<1>4. n \in 0 .. n
  OBVIOUS
<1>5. \A i \in 1 .. n : g[i - 1] = h[i - 1] => g[i] = h[i]
  BY <1>3
<1>6. \A i \in 0 .. n : g[i] = h[i]
  BY ONLY n \in Nat, <1>2, <1>5, FunctionsAgree
<1> QED
  BY <1>4, <1>6

(***************************************************************************)
(* A key that another one starts with has its first parts.                 *)
(***************************************************************************)
LEMMA ChainsMatch ==
    ASSUME NEW t \in Parts, NEW a \in Seq(Parts), NEW u \in Parts, NEW b \in Seq(Parts),
           NEW g, Chain(g, t, a, Len(a)), NEW h, Chain(h, u, b, Len(b)),
           Starts(g[Len(a)], h[Len(b)])
    PROVE  t = u /\ Starts(a, b)
<1>1. t \in String /\ u \in String /\ a \in Seq(String) /\ b \in Seq(String)
  BY DEF Parts
<1>2. Len(a) \in Nat /\ Len(b) \in Nat
  OBVIOUS
<1>3. PICK w \in String : w = h[Len(b)]
  BY <1>2 DEF Chain
<1>4. ASSUME NEW i \in 0 .. Len(a) PROVE g[i] \in String /\ Starts(g[i], w)
  <2>1. Len(a) \in i .. Len(a) /\ i \in i .. Len(a)
    BY <1>2
  <2>2. g[i] \in String /\ Starts(g[i], g[Len(a)]) /\ g[Len(a)] \in String
    BY <1>1, <2>1, ChainGrows
  <2> QED
    BY <1>3, <2>2, StartsTransitive
<1>5. ASSUME NEW i \in 0 .. Len(b) PROVE h[i] \in String /\ Starts(h[i], w)
  <2>1. Len(b) \in i .. Len(b) /\ i \in i .. Len(b)
    BY <1>2
  <2> QED
    BY <1>1, <1>3, <2>1, ChainGrows
<1>6. t = u
  <2>1. 0 \in 0 .. Len(a) /\ 0 \in 0 .. Len(b)
    BY <1>2
  <2>2. Starts(Delimiter \o t \o Delimiter, w) /\ Starts(Delimiter \o u \o Delimiter, w)
    BY <1>4, <1>5, <2>1 DEF Chain
  <2> QED
    BY <2>2, DelimiterString, SamePart
<1> DEFINE H == {n \in Nat : n <= Len(a) => n <= Len(b) /\ \A i \in 1 .. n : a[i] = b[i]}
<1>7. 0 \in H
  BY <1>2
<1>8. ASSUME NEW n \in Nat, n \in H PROVE n + 1 \in H
  <2> SUFFICES ASSUME n + 1 <= Len(a)
               PROVE  n + 1 <= Len(b) /\ \A i \in 1 .. n + 1 : a[i] = b[i]
    OBVIOUS
  <2>1. n <= Len(b) /\ n <= Len(a) /\ \A i \in 1 .. n : a[i] = b[i]
    BY <1>2, <1>8
  <2>2. PICK x \in String : x = g[n] /\ x = h[n]
    <3>1. n \in 0 .. Len(a)
      BY <1>2, <2>1
    <3> QED
      BY <1>1, <1>4, <1>6, <2>1, <3>1, ChainsAgree
  <2>3. PICK m \in 1 .. Len(a) : m = n + 1
    BY <1>2
  <2>4. m - 1 = n /\ m \in 0 .. Len(a) /\ m \in 1 .. Len(a)
    BY <1>2, <2>3
  <2>5. Starts(x \o a[m] \o Delimiter, w) /\ a[m] \in Parts
    <3>1. g[m] = g[m - 1] \o a[m] \o Delimiter
      BY <2>3 DEF Chain
    <3>2. Starts(g[m], w)
      BY <1>4, <2>4
    <3>3. a[m] \in Parts
      BY ONLY <2>4, a \in Seq(Parts), ElementOf
    <3> QED
      BY <2>2, <2>4, <3>1, <3>2, <3>3
  <2>6. n # Len(b)
    <3>1. SUFFICES ASSUME n = Len(b) PROVE FALSE
      OBVIOUS
    <3>2. w = x
      BY <1>3, <2>2, <3>1
    <3>3. Len(x) \in Nat /\ Len(a[m]) \in Nat /\ a[m] \in String
      BY <2>5 DEF String, Parts
    <3>4. Len(x) + Len(a[m]) + 1 <= Len(x)
      BY <2>5, <3>2, <3>3, Pushed DEF Starts
    <3> QED
      BY <3>3, <3>4
  <2>7. m \in 1 .. Len(b) /\ m \in 0 .. Len(b)
    BY <1>2, <2>1, <2>3, <2>6
  <2>8. Starts(x \o b[m] \o Delimiter, w) /\ b[m] \in Parts
    <3>1. h[m] = h[m - 1] \o b[m] \o Delimiter
      BY <2>7 DEF Chain
    <3>2. Starts(h[m], w)
      BY <1>5, <2>7
    <3> QED
      BY <2>2, <2>4, <2>7, <3>1, <3>2
  <2>9. a[m] = b[m]
    BY <2>5, <2>8, SamePart
  <2>10. \A i \in 1 .. n + 1 : i \in 1 .. n \/ i = m
    BY <2>3
  <2>11. n + 1 <= Len(b)
    BY <2>3, <2>7
  <2> QED
    BY <2>1, <2>9, <2>10, <2>11
<1> HIDE DEF H
<1>9. Len(a) \in H
  BY <1>2, <1>7, <1>8, SetInduction
<1> QED
  BY <1>2, <1>6, <1>9 DEF H, Starts

LEMMA KeyPrefix ==
    ASSUME NEW t \in Parts, NEW a \in Seq(Parts), NEW u \in Parts, NEW b \in Seq(Parts)
    PROVE  Starts(create_composite_key(t, a), create_composite_key(u, b))
              <=> t = u /\ Starts(a, b)
<1>1. t \in String /\ u \in String /\ a \in Seq(String) /\ b \in Seq(String)
  BY DEF Parts
<1>2. PICK g : Chain(g, t, a, Len(a)) /\ create_composite_key(t, a) = g[Len(a)]
  BY <1>1, KeyIsChain
<1>3. PICK h : Chain(h, u, b, Len(b)) /\ create_composite_key(u, b) = h[Len(b)]
  BY <1>1, KeyIsChain
<1>4. Starts(g[Len(a)], h[Len(b)]) => t = u /\ Starts(a, b)
  BY <1>2, <1>3, ChainsMatch
<1>5. ASSUME t = u, Starts(a, b) PROVE Starts(g[Len(a)], h[Len(b)])
  <2>1. /\ Len(a) \in Nat /\ Len(a) <= Len(b) /\ Len(a) <= Len(a) /\ Len(b) \in Nat
        /\ \A i \in 1 .. Len(a) : a[i] = b[i]
    BY <1>5 DEF Starts
  <2>2. g[Len(a)] = h[Len(a)]
    BY <1>1, <1>2, <1>3, <1>5, <2>1, ChainsAgree
  <2>3. Len(a) \in 0 .. Len(b) /\ Len(b) \in Len(a) .. Len(b)
    BY <2>1
  <2>4. Starts(h[Len(a)], h[Len(b)])
    BY <1>1, <1>3, <2>3, ChainGrows
  <2> QED
    BY <2>2, <2>4
<1> QED
  BY <1>2, <1>3, <1>4, <1>5


-----------------------------------------------------------------------------
(* The range of a partial composite key *)

NoMax(s) == \A i \in 1 .. Len(s) : s[i] # MAX_UNICODE_RUNE

(***************************************************************************)
(* A composite key begins with the delimiter and is free of U+10FFFF.      *)
(***************************************************************************)
LEMMA PushedNoMax ==
    ASSUME NEW b \in String, NoMax(b), NEW p \in Parts
    PROVE  NoMax(b \o p \o Delimiter)
<1>1. p \in String /\ Len(p) \in Nat /\ Len(b) \in Nat
  BY DEF Parts, String
<1>2. PICK x : x = b \o p \o Delimiter
  OBVIOUS
<1>3. /\ Len(x) = Len(b) + Len(p) + 1
      /\ \A i \in 1 .. Len(b) : x[i] = b[i]
      /\ \A i \in 1 .. Len(p) : x[Len(b) + i] = p[i]
      /\ x[Len(b) + Len(p) + 1] = COMPOSITE_KEY_NAMESPACE
  BY <1>1, <1>2, Pushed
<1>4. ASSUME NEW i \in 1 .. Len(x) PROVE x[i] # MAX_UNICODE_RUNE
  <2>1. CASE i \in 1 .. Len(b)
    BY <1>3, <2>1 DEF NoMax
  <2>2. CASE i = Len(b) + Len(p) + 1
    BY <1>3, <2>2, MaxRuneAssumption DEF COMPOSITE_KEY_NAMESPACE, MAX_UNICODE_RUNE
  <2>3. CASE i \notin 1 .. Len(b) /\ i # Len(b) + Len(p) + 1
    <3>1. PICK n \in 1 .. Len(p) : i = Len(b) + n
      <4>1. i - Len(b) \in 1 .. Len(p) /\ i = Len(b) + (i - Len(b))
        BY <1>1, <1>3, <2>3
      <4> QED
        BY <4>1
    <3>2. n \in DOMAIN p
      BY <1>1 DEF String
    <3>3. x[i] = p[n]
      BY <1>3, <3>1
    <3> QED
      BY <3>2, <3>3 DEF Parts, validate_composite_component
  <2> QED
    BY <2>1, <2>2, <2>3
<1> QED
  BY <1>2, <1>4 DEF NoMax

LEMMA KeyShape ==
    ASSUME NEW t \in Parts, NEW a \in Seq(Parts)
    PROVE  /\ create_composite_key(t, a) \in String /\ NoMax(create_composite_key(t, a))
           /\ Starts(Delimiter, create_composite_key(t, a))
<1>1. t \in String /\ a \in Seq(String) /\ Len(a) \in Nat
  BY DEF Parts
<1>2. PICK g : Chain(g, t, a, Len(a)) /\ create_composite_key(t, a) = g[Len(a)]
  BY <1>1, KeyIsChain
<1> DEFINE H == {n \in Nat : n <= Len(a) => NoMax(g[n])}
<1>3. 0 \in H
  <2>1. NoMax(Delimiter)
    <3>1. \A i \in 1 .. 1 : i = 1
      OBVIOUS
    <3> QED
      BY <3>1, DelimiterString, MaxRuneAssumption DEF NoMax, MAX_UNICODE_RUNE
  <2>2. NoMax(Delimiter \o t \o Delimiter)
    BY <2>1, DelimiterString, PushedNoMax
  <2> QED
    BY <1>2, <2>2 DEF Chain
<1>4. ASSUME NEW n \in Nat, n \in H PROVE n + 1 \in H
  <2> SUFFICES ASSUME n + 1 <= Len(a) PROVE NoMax(g[n + 1])
    OBVIOUS
  <2>1. PICK m : m = n + 1
    OBVIOUS
  <2>2. n <= Len(a) /\ m - 1 = n /\ m \in 1 .. Len(a) /\ n \in 0 .. Len(a)
    BY <1>1, <2>1
  <2>3. NoMax(g[n]) /\ g[n] \in String
    BY <1>2, <1>4, <2>2 DEF Chain
  <2>4. a[m] \in Parts
    BY ONLY <2>2, a \in Seq(Parts), ElementOf
  <2>5. g[m] = g[m - 1] \o a[m] \o Delimiter
    BY ONLY <1>2, <2>2, Zenon DEF Chain
  <2>6. NoMax(g[m])
    BY <2>2, <2>3, <2>4, <2>5, PushedNoMax
  <2> QED
    BY <2>1, <2>6
<1> HIDE DEF H
<1>5. NoMax(g[Len(a)])
  <2>1. Len(a) \in H
    BY <1>1, <1>3, <1>4, SetInduction
  <2> QED
    BY <1>1, <2>1 DEF H
<1>6. 0 \in 0 .. Len(a) /\ Len(a) \in 0 .. Len(a) /\ 0 \in 0 .. Len(a)
  BY <1>1
<1>7. g[Len(a)] \in String /\ Starts(g[0], g[Len(a)]) /\ g[0] \in String
  BY <1>1, <1>2, <1>6, ChainGrows
<1>8. Starts(Delimiter, g[0])
  <2>1. PICK x : x = Delimiter \o t \o Delimiter
    OBVIOUS
  <2>2. Len(x) = 1 + Len(t) + 1 /\ \A i \in 1 .. 1 : x[i] = Delimiter[i]
    <3>1. PICK d \in String : d = Delimiter /\ Len(d) = 1
      BY DelimiterString
    <3>2. Len(d \o t \o Delimiter) = Len(d) + Len(t) + 1
      BY <1>1, Pushed
    <3>3. \A i \in 1 .. Len(d) : (d \o t \o Delimiter)[i] = d[i]
      BY <1>1, Pushed
    <3> QED
      BY <2>1, <3>1, <3>2, <3>3
  <2>3. Len(t) \in Nat
    BY <1>1 DEF String
  <2>4. 1 <= 1 + Len(t) + 1
    BY <2>3
  <2> QED
    BY <1>2, <2>1, <2>2, <2>4, DelimiterString DEF Chain, Starts
<1>9. Starts(Delimiter, g[Len(a)])
  BY <1>7, <1>8, DelimiterString, StartsTransitive
<1> QED
  BY <1>2, <1>5, <1>7, <1>9

(***************************************************************************)
(* The order of keys, element by element.                                  *)
(***************************************************************************)
LEMMA BelowStarts ==
    ASSUME NEW s \in String, NEW w \in String
    PROVE  Below(s, w) <=> \/ Starts(s, w) /\ s # w
                           \/ \E i \in Nat : /\ i \in 1 .. Len(s) /\ i \in 1 .. Len(w)
                                             /\ s[i] < w[i]
                                             /\ \A j \in 1 .. i - 1 : s[j] = w[j]
<1>1. DOMAIN s = 1 .. Len(s) /\ DOMAIN w = 1 .. Len(w)
  BY DEF String
<1>2. IsStrictPrefix(s, w) <=> Starts(s, w) /\ s # w
  BY PrefixStarts DEF IsStrictPrefix, String
<1>3. \A i \in 1 .. Len(s) : i \in Nat
  BY DEF String
<1> QED
  BY <1>1, <1>2, <1>3 DEF Below

(***************************************************************************)
(* The first place where two strings differ.                               *)
(***************************************************************************)
LEMMA FirstDifference ==
    ASSUME NEW s \in String, NEW w \in String, ~Starts(s, w)
    PROVE  \/ Starts(w, s) /\ s # w
           \/ \E i \in Nat : /\ i \in 1 .. Len(s) /\ i \in 1 .. Len(w) /\ s[i] # w[i]
                             /\ \A j \in 1 .. i - 1 : s[j] = w[j]
<1>1. Len(s) \in Nat /\ Len(w) \in Nat
  BY DEF String
<1> DEFINE T == {i \in Nat : i \in 1 .. Len(s) /\ i \in 1 .. Len(w) /\ s[i] # w[i]}
<1>2. CASE T = {}
  <2>1. \A i \in Nat : i \in 1 .. Len(s) /\ i \in 1 .. Len(w) => s[i] = w[i]
    BY <1>2
  <2> HIDE DEF T
  <2>2. ~(Len(s) <= Len(w))
    <3>1. SUFFICES ASSUME Len(s) <= Len(w) PROVE FALSE
      OBVIOUS
    <3>2. \A i \in 1 .. Len(s) : i \in Nat /\ i \in 1 .. Len(w)
      BY <1>1, <3>1
    <3> QED
      BY <2>1, <3>1, <3>2 DEF Starts
  <2>3. Len(w) <= Len(s) /\ s # w
    BY <1>1, <2>2
  <2>4. \A i \in 1 .. Len(w) : i \in Nat /\ i \in 1 .. Len(s)
    BY <1>1, <2>3
  <2> QED
    BY <2>1, <2>3, <2>4 DEF Starts
<1>3. CASE T # {}
  <2>1. T \in SUBSET Nat
    OBVIOUS
  <2>2. PICK m \in T : \A k \in T : m <= k
    BY <1>3, <2>1, LeastNat
  <2>3. m \in Nat /\ m \in 1 .. Len(s) /\ m \in 1 .. Len(w) /\ s[m] # w[m]
    BY <2>2
  <2>4. ASSUME NEW j \in 1 .. m - 1 PROVE s[j] = w[j]
    <3>1. j \in Nat /\ j \in 1 .. Len(s) /\ j \in 1 .. Len(w) /\ ~(m <= j)
      BY <1>1, <2>3
    <3> QED
      BY <2>2, <3>1
  <2> QED
    BY <2>3, <2>4
<1> QED
  BY <1>2, <1>3


(***************************************************************************)
(* The keys from a prefix to the prefix followed by U+10FFFF are the ones  *)
(* that start with the prefix.                                             *)
(***************************************************************************)
LEMMA Extended ==
    ASSUME NEW p \in String
    PROVE  /\ Append(p, MAX_UNICODE_RUNE) \in String
           /\ Len(Append(p, MAX_UNICODE_RUNE)) = Len(p) + 1
           /\ \A i \in 1 .. Len(p) : Append(p, MAX_UNICODE_RUNE)[i] = p[i]
           /\ Append(p, MAX_UNICODE_RUNE)[Len(p) + 1] = MaxRune
  BY MaxRuneAssumption DEF String, MAX_UNICODE_RUNE

LEMMA PrefixInRange ==
    ASSUME NEW p \in String, p # <<>>, NEW w \in String, NoMax(w), Starts(p, w)
    PROVE  InRange(w, p, Append(p, MAX_UNICODE_RUNE))
<1>1. Len(p) \in Nat /\ Len(w) \in Nat /\ Len(p) <= Len(w)
  BY DEF String, Starts
<1>2. PICK e \in String : e = Append(p, MAX_UNICODE_RUNE)
  BY Extended
<1>3. /\ Len(e) = Len(p) + 1 /\ e[Len(p) + 1] = MaxRune
      /\ \A i \in 1 .. Len(p) : e[i] = p[i]
  BY <1>2, Extended
<1>4. ~Below(w, p)
  <2>1. ASSUME Starts(w, p), w # p PROVE FALSE
    <3>1. Len(w) = Len(p)
      BY <1>1, <2>1 DEF Starts
    <3> QED
      BY <2>1, <3>1, SameString DEF Starts
  <2>2. ASSUME NEW i \in Nat, i \in 1 .. Len(w), i \in 1 .. Len(p), w[i] < p[i] PROVE FALSE
    <3>1. w[i] = p[i] /\ p[i] \in Nat
      BY <2>2, CodePoint DEF Starts
    <3> QED
      BY <2>2, <3>1
  <2> QED
    BY <2>1, <2>2, BelowStarts
<1>5. Below(w, e)
  <2>1. CASE Len(w) = Len(p)
    <3>1. w = p
      BY <2>1, SameString DEF Starts
    <3>2. Starts(w, e) /\ w # e
      BY <1>1, <1>3, <3>1 DEF Starts
    <3> QED
      BY <3>2, BelowStarts
  <2>2. CASE Len(w) # Len(p)
    <3>1. PICK n \in Nat : n = Len(p) + 1
      BY <1>1
    <3>2. n \in 1 .. Len(w) /\ n \in 1 .. Len(e) /\ n - 1 = Len(p)
      BY <1>1, <1>3, <2>2, <3>1
    <3>3. w[n] \in 0 .. MaxRune /\ w[n] # MaxRune
      BY <3>2, CodePoint DEF NoMax, MAX_UNICODE_RUNE
    <3>4. w[n] < e[n]
      BY <1>3, <3>1, <3>3, MaxRuneAssumption
    <3>5. \A j \in 1 .. n - 1 : w[j] = e[j]
      BY <1>3, <3>2 DEF Starts
    <3> QED
      BY <3>2, <3>4, <3>5, BelowStarts
  <2> QED
    BY <2>1, <2>2
<1> QED
  BY <1>2, <1>4, <1>5 DEF InRange

LEMMA RangeHasPrefix ==
    ASSUME NEW p \in String, p # <<>>, NEW w \in String,
           InRange(w, p, Append(p, MAX_UNICODE_RUNE))
    PROVE  Starts(p, w)
<1>1. Len(p) \in Nat /\ Len(w) \in Nat
  BY DEF String
<1>2. PICK e \in String : e = Append(p, MAX_UNICODE_RUNE)
  BY Extended
<1>3. /\ Len(e) = Len(p) + 1
      /\ \A i \in 1 .. Len(p) : e[i] = p[i]
  BY <1>2, Extended
<1>4. e # <<>>
  BY <1>1, <1>3
<1>5. ~Below(w, p) /\ Below(w, e)
  BY <1>2, <1>4 DEF InRange
<1> SUFFICES ASSUME ~Starts(p, w) PROVE FALSE
  OBVIOUS
<1>6. ~(Starts(w, p) /\ w # p)
  BY <1>5, BelowStarts
<1>7. PICK m \in Nat : /\ m \in 1 .. Len(p) /\ m \in 1 .. Len(w) /\ p[m] # w[m]
                       /\ \A j \in 1 .. m - 1 : p[j] = w[j]
  BY <1>6, FirstDifference
<1>8. p[m] \in Nat /\ w[m] \in Nat
  BY <1>7, MaxRuneAssumption DEF String
<1>9. ~(w[m] < p[m])
  BY <1>5, <1>7, BelowStarts
<1>10. e[m] = p[m]
  BY <1>3, <1>7
<1>11. CASE Starts(w, e)
  BY <1>7, <1>10, <1>11 DEF Starts
<1>12. ASSUME NEW i \in Nat, i \in 1 .. Len(w), i \in 1 .. Len(e), w[i] < e[i],
              \A j \in 1 .. i - 1 : w[j] = e[j]
       PROVE  FALSE
  <2>1. CASE i = m
    BY <1>9, <1>10, <1>12, <2>1
  <2>2. CASE i < m
    <3>1. i \in 1 .. m - 1 /\ i \in 1 .. Len(p)
      BY <1>1, <1>7, <1>12, <2>2
    <3>2. w[i] = e[i] /\ w[i] \in Nat
      BY <1>3, <1>7, <1>12, <3>1, CodePoint
    <3> QED
      BY <1>12, <3>2
  <2>3. CASE m < i
    <3>1. m \in 1 .. i - 1
      BY <1>7, <1>12, <2>3
    <3> QED
      BY <1>7, <1>10, <1>12, <3>1
  <2> QED
    BY <2>1, <2>2, <2>3
<1> QED
  BY <1>5, <1>11, <1>12, BelowStarts


-----------------------------------------------------------------------------
(* split_composite_key *)

(***************************************************************************)
(* h has the segments of s after each of its characters.                   *)
(***************************************************************************)
Scanned == [parts: Seq(String), open: String]

ScanStep(p, char) ==
    IF char = COMPOSITE_KEY_NAMESPACE
      THEN [parts |-> Closed(p), open |-> <<>>]
      ELSE [parts |-> p.parts, open |-> Append(p.open, char)]

Scan(h, s) ==
    /\ h \in [0 .. Len(s) -> Scanned]
    /\ h[0] = [parts |-> <<>>, open |-> <<>>]
    /\ \A i \in 1 .. Len(s) : h[i] = ScanStep(h[i - 1], s[i])

LEMMA ScanStepType ==
    ASSUME NEW p \in Scanned, NEW char \in 0 .. MaxRune
    PROVE  ScanStep(p, char) \in Scanned
<1>1. p.parts \in Seq(String) /\ p.open \in String
  BY DEF Scanned
<1>2. Closed(p) \in Seq(String)
  BY <1>1 DEF Closed
<1>3. <<>> \in String /\ Append(p.open, char) \in String
  BY <1>1 DEF String
<1> QED
  BY <1>1, <1>2, <1>3 DEF ScanStep, Scanned

LEMMA SegmentsScan ==
    ASSUME NEW s \in String
    PROVE  \E h : Scan(h, s) /\ Segments(s) = Closed(h[Len(s)])
<1>1. Len(s) \in Nat /\ \A i \in 1 .. Len(s) : s[i] \in 0 .. MaxRune
  BY CodePoint DEF String
<1>2. PICK f : f = [y \in Scanned \X (1 .. Len(s)) |-> ScanStep(y[1], s[y[2]])]
  OBVIOUS
<1>3. \A p \in Scanned, i \in 1 .. Len(s) :
         f[<<p, i>>] = ScanStep(p, s[i]) /\ f[<<p, i>>] \in Scanned
  BY <1>1, <1>2, ScanStepType
<1>4. PICK x \in Scanned : x = [parts |-> <<>>, open |-> <<>>]
  <2>1. <<>> \in Seq(String) /\ <<>> \in String
    BY DEF String
  <2> QED
    BY <2>1 DEF Scanned
<1>5. PICK h \in [0 .. Len(s) -> Scanned] :
         h[0] = x /\ \A i \in 1 .. Len(s) : h[i] = f[<<h[i - 1], i>>]
  <2>1. PICK n \in Nat : n = Len(s)
    BY <1>1
  <2>2. StepsWithin(f, Scanned, n)
    BY <1>3, <2>1 DEF StepsWithin
  <2>3. \E h : Recursion(h, f, x, Scanned, n)
    BY <2>2, FiniteRecursion
  <2> QED
    BY <2>1, <2>3 DEF Recursion
<1>6. \A i \in 1 .. Len(s) : i - 1 \in 0 .. Len(s) /\ i \in 0 .. Len(s) /\ i # 0
  BY <1>1
<1>7. Scan(h, s)
  BY <1>3, <1>4, <1>5, <1>6 DEF Scan
<1> DEFINE Scanning(g) == g = [i \in 0 .. Len(s) |-> IF i = 0 THEN x ELSE ScanStep(g[i - 1], s[i])]
           scan == CHOOSE g : Scanning(g)
<1>8. Scanning(h)
  <2>1. \A i \in 0 .. Len(s) : i # 0 => i \in 1 .. Len(s)
    BY <1>1
  <2>2. \A i \in 0 .. Len(s) : h[i] = IF i = 0 THEN x ELSE ScanStep(h[i - 1], s[i])
    BY <1>4, <1>7, <2>1 DEF Scan
  <2> QED
    BY <1>5, <2>2
<1>9. Scanning(scan)
  BY <1>8
<1>10. Segments(s) = Closed(scan[Len(s)])
  BY <1>4 DEF Segments, ScanStep
<1> HIDE DEF scan
<1>11. scan[0] = h[0]
  BY <1>1, <1>8, <1>9
<1>12. \A i \in 1 .. Len(s) : scan[i - 1] = h[i - 1] => scan[i] = h[i]
  BY <1>6, <1>8, <1>9
<1>13. Len(s) \in 0 .. Len(s)
  BY <1>1
<1>14. scan[Len(s)] = h[Len(s)]
  BY <1>1, <1>11, <1>12, <1>13, FunctionsAgree
<1> QED
  BY <1>7, <1>10, <1>14


(***************************************************************************)
(* Reading a part and the delimiter after it adds the part.                *)
(***************************************************************************)
Between(parts) == [parts |-> parts, open |-> <<>>]

PartAt(p, s, o) ==
    /\ o + Len(p) + 1 <= Len(s)
    /\ \A i \in 1 .. Len(p) : s[o + i] = p[i]
    /\ s[o + Len(p) + 1] = COMPOSITE_KEY_NAMESPACE

LEMMA PartRead ==
    ASSUME NEW s \in String, NEW h, Scan(h, s), NEW p \in Parts, NEW o \in Nat,
           PartAt(p, s, o), NEW parts, h[o] = Between(parts)
    PROVE  h[o + Len(p) + 1] = Between(Append(parts, p))
<1>0. /\ o + Len(p) + 1 <= Len(s)
      /\ \A i \in 1 .. Len(p) : s[o + i] = p[i]
      /\ s[o + Len(p) + 1] = COMPOSITE_KEY_NAMESPACE
  BY DEF PartAt
<1>1. p \in String /\ Len(p) \in Nat /\ Len(s) \in Nat
  BY DEF Parts, String
<1>2. /\ p # <<>>
      /\ \A i \in 1 .. Len(p) : p[i] # COMPOSITE_KEY_NAMESPACE
  <2>1. DOMAIN p = 1 .. Len(p)
    BY <1>1 DEF String
  <2> QED
    BY <2>1 DEF Parts, validate_composite_component
<1>3. ASSUME NEW n \in Nat, n + 1 <= Len(p)
      PROVE  Append(SubSeq(p, 1, n), p[n + 1]) = SubSeq(p, 1, n + 1)
  BY <1>1, <1>3 DEF String
<1>4. SubSeq(p, 1, 0) = <<>> /\ SubSeq(p, 1, Len(p)) = p
  BY <1>1 DEF String
<1> DEFINE H == {n \in Nat : n <= Len(p) =>
                    h[o + n] = [parts |-> parts, open |-> SubSeq(p, 1, n)]}
<1>5. 0 \in H
  <2>1. o + 0 = o
    OBVIOUS
  <2> QED
    BY <1>4, <2>1 DEF Between
<1>6. ASSUME NEW n \in Nat, n \in H PROVE n + 1 \in H
  <2> SUFFICES ASSUME n + 1 <= Len(p)
               PROVE  h[o + (n + 1)] = [parts |-> parts, open |-> SubSeq(p, 1, n + 1)]
    OBVIOUS
  <2>1. PICK i \in Nat : i = o + (n + 1)
    OBVIOUS
  <2>2. n <= Len(p) /\ n + 1 \in 1 .. Len(p) /\ i \in 1 .. Len(s) /\ i - 1 = o + n
    BY <1>0, <1>1, <2>1
  <2>3. h[i - 1] = [parts |-> parts, open |-> SubSeq(p, 1, n)]
    BY <1>6, <2>2
  <2>4. s[i] = p[n + 1] /\ s[i] # COMPOSITE_KEY_NAMESPACE
    BY <1>0, <1>2, <2>1, <2>2
  <2>5. h[i] = ScanStep(h[i - 1], s[i])
    BY <2>2 DEF Scan
  <2>6. h[i] = [parts |-> parts, open |-> Append(SubSeq(p, 1, n), p[n + 1])]
    BY <2>3, <2>4, <2>5 DEF ScanStep
  <2> QED
    BY <1>3, <2>1, <2>6
<1> HIDE DEF H
<1>7. Len(p) \in H
  BY <1>1, <1>5, <1>6, SetInduction
<1>8. h[o + Len(p)] = [parts |-> parts, open |-> p]
  BY <1>1, <1>4, <1>7 DEF H
<1>9. PICK i \in Nat : i = o + Len(p) + 1
  BY <1>1
<1>10. i \in 1 .. Len(s) /\ i - 1 = o + Len(p)
  BY <1>0, <1>1, <1>9
<1>11. h[i] = ScanStep(h[i - 1], s[i])
  BY <1>10 DEF Scan
<1>12. h[i] = [parts |-> Closed(h[o + Len(p)]), open |-> <<>>]
  BY <1>0, <1>9, <1>10, <1>11 DEF ScanStep
<1>13. Closed(h[o + Len(p)]) = Append(parts, p)
  BY <1>2, <1>8 DEF Closed
<1> QED
  BY <1>9, <1>12, <1>13 DEF Between

LEMMA PartOfKeyRead ==
    ASSUME NEW w \in String, w # <<>>, NEW h, Scan(h, Tail(w)),
           NEW b \in String, b # <<>>, NEW p \in Parts, Starts(b \o p \o Delimiter, w),
           NEW parts, h[Len(b) - 1] = Between(parts)
    PROVE  h[Len(b \o p \o Delimiter) - 1] = Between(Append(parts, p))
<1>1. p \in String /\ Len(p) \in Nat /\ Len(w) \in Nat /\ Len(b) \in Nat
  BY DEF Parts, String
<1>2. PICK s : s = Tail(w)
  OBVIOUS
<1>3. s \in String /\ Len(s) = Len(w) - 1 /\ \A i \in 1 .. Len(s) : s[i] = w[i + 1]
  BY <1>2, TailOf
<1>4. PICK o \in Nat : o + 1 = Len(b) /\ o = Len(b) - 1
  <2>1. Len(b) # 0
    BY DEF String
  <2>2. Len(b) - 1 \in Nat /\ (Len(b) - 1) + 1 = Len(b)
    BY <1>1, <2>1
  <2> QED
    BY <2>2
<1>5. PICK x : x = b \o p \o Delimiter
  OBVIOUS
<1>6. /\ Len(x) = Len(b) + Len(p) + 1
      /\ \A i \in 1 .. Len(p) : x[Len(b) + i] = p[i]
      /\ x[Len(b) + Len(p) + 1] = COMPOSITE_KEY_NAMESPACE
  BY <1>1, <1>5, Pushed
<1>7. Len(x) <= Len(w) /\ \A i \in 1 .. Len(x) : x[i] = w[i]
  BY <1>5 DEF Starts
<1>8. o + Len(p) + 1 <= Len(s)
  BY <1>1, <1>3, <1>4, <1>6, <1>7
<1>9. ASSUME NEW i \in 1 .. Len(p) PROVE s[o + i] = p[i]
  <2>1. o + i \in 1 .. Len(s) /\ (o + i) + 1 = Len(b) + i /\ Len(b) + i \in 1 .. Len(x)
    BY <1>1, <1>4, <1>6, <1>8
  <2> QED
    BY <1>3, <1>6, <1>7, <2>1
<1>10. s[o + Len(p) + 1] = COMPOSITE_KEY_NAMESPACE
  <2>1. /\ o + Len(p) + 1 \in 1 .. Len(s) /\ (o + Len(p) + 1) + 1 = Len(b) + Len(p) + 1
        /\ Len(b) + Len(p) + 1 \in 1 .. Len(x)
    BY <1>1, <1>4, <1>6, <1>8
  <2> QED
    BY <1>3, <1>6, <1>7, <2>1
<1>11. h[o] = Between(parts) /\ Scan(h, s)
  BY <1>2, <1>4
<1>12. h[o + Len(p) + 1] = Between(Append(parts, p))
  <2>1. PartAt(p, s, o)
    BY <1>8, <1>9, <1>10 DEF PartAt
  <2> QED
    BY <1>3, <1>11, <2>1, PartRead
<1>13. Len(x) - 1 = o + Len(p) + 1
  BY <1>1, <1>4, <1>6
<1> QED
  BY <1>5, <1>12, <1>13


(***************************************************************************)
(* The object type and the first n attributes.                             *)
(***************************************************************************)
FirstParts(t, a, n) == <<t>> \o SubSeq(a, 1, n)

LEMMA FirstPartsGrow ==
    ASSUME NEW t \in String, NEW a \in Seq(String)
    PROVE  /\ FirstParts(t, a, 0) = Append(<<>>, t)
           /\ FirstParts(t, a, Len(a)) = <<t>> \o a
           /\ \A n \in Nat : n + 1 <= Len(a) =>
                 FirstParts(t, a, n + 1) = Append(FirstParts(t, a, n), a[n + 1])
<1>1. FirstParts(t, a, 0) = Append(<<>>, t)
  <2>1. SubSeq(a, 1, 0) = <<>>
    OBVIOUS
  <2>2. <<t>> \o <<>> = <<t>> /\ Append(<<>>, t) = <<t>>
    OBVIOUS
  <2> QED
    BY <2>1, <2>2 DEF FirstParts
<1>2. FirstParts(t, a, Len(a)) = <<t>> \o a
  BY DEF FirstParts
<1>3. ASSUME NEW n \in Nat, n + 1 <= Len(a)
      PROVE  FirstParts(t, a, n + 1) = Append(FirstParts(t, a, n), a[n + 1])
  <2>1. SubSeq(a, 1, n + 1) = Append(SubSeq(a, 1, n), a[n + 1])
    BY <1>3
  <2>2. SubSeq(a, 1, n) \in Seq(String) /\ a[n + 1] \in String
    BY <1>3
  <2>3. PICK x \in Seq(String), y \in String : x = SubSeq(a, 1, n) /\ y = a[n + 1]
    BY <2>2
  <2>4. <<t>> \o Append(x, y) = Append(<<t>> \o x, y)
    OBVIOUS
  <2> QED
    BY <2>1, <2>3, <2>4 DEF FirstParts
<1> QED
  BY <1>1, <1>2, <1>3

LEMMA SplitOfKey ==
    ASSUME NEW t \in Parts, NEW a \in Seq(Parts)
    PROVE  split_composite_key(create_composite_key(t, a)) = <<t, a>>
<1>1. t \in String /\ a \in Seq(String) /\ Len(a) \in Nat
  BY DEF Parts
<1>2. PICK w : w = create_composite_key(t, a)
  OBVIOUS
<1>3. w \in String /\ Starts(Delimiter, w)
  BY <1>2, KeyShape
<1>4. w # <<>> /\ w[1] = COMPOSITE_KEY_NAMESPACE
  <2>1. 1 \in 1 .. 1
    OBVIOUS
  <2>2. 1 <= Len(w) /\ w[1] = COMPOSITE_KEY_NAMESPACE
    BY <1>3, <2>1, DelimiterString DEF Starts
  <2> QED
    BY <2>2
<1>5. PICK g : Chain(g, t, a, Len(a)) /\ w = g[Len(a)]
  BY <1>1, <1>2, KeyIsChain
<1>6. ASSUME NEW i \in 0 .. Len(a) PROVE g[i] \in String /\ g[i] # <<>> /\ Starts(g[i], w)
  <2>1. Len(a) \in i .. Len(a) /\ i \in i .. Len(a) /\ 0 \in 0 .. Len(a) /\ i \in 0 .. Len(a)
    BY <1>1
  <2>2. g[i] \in String /\ Starts(g[i], w) /\ Starts(g[0], g[i])
    BY <1>1, <1>5, <2>1, ChainGrows
  <2>3. Len(g[0]) # 0 /\ Len(g[0]) \in Nat
    <3>1. PICK d \in String : d = Delimiter /\ Len(d) = 1
      BY DelimiterString
    <3>2. Len(d \o t \o Delimiter) = Len(d) + Len(t) + 1 /\ Len(t) \in Nat
      BY <1>1, Pushed DEF String
    <3>3. Len(g[0]) = 1 + Len(t) + 1
      BY <1>5, <3>1, <3>2 DEF Chain
    <3> QED
      BY <3>2, <3>3
  <2>4. Len(g[i]) # 0
    BY <2>2, <2>3 DEF Starts, String
  <2> QED
    BY <2>2, <2>4
<1>7. PICK h : Scan(h, Tail(w)) /\ Segments(Tail(w)) = Closed(h[Len(Tail(w))])
  BY <1>3, <1>4, TailOf, SegmentsScan
<1> DEFINE H == {n \in Nat : n <= Len(a) => h[Len(g[n]) - 1] = Between(FirstParts(t, a, n))}
<1>8. 0 \in H
  <2>1. PICK d \in String : d = Delimiter /\ Len(d) = 1 /\ d # <<>>
    <3>1. Delimiter # <<>>
      BY DEF Delimiter
    <3> QED
      BY <3>1, DelimiterString
  <2>2. PICK none : none = <<>> /\ h[Len(d) - 1] = Between(none)
    BY <1>7, <2>1 DEF Scan, Between
  <2>3. 0 \in 0 .. Len(a) /\ g[0] = d \o t \o Delimiter
    BY <1>1, <1>5, <2>1 DEF Chain
  <2>4. Starts(d \o t \o Delimiter, w)
    BY <1>6, <2>3
  <2>5. PICK p \in Parts : p = t
    OBVIOUS
  <2>6. Starts(d \o p \o Delimiter, w)
    BY <2>4, <2>5
  <2>7. h[Len(d \o p \o Delimiter) - 1] = Between(Append(none, p))
    <3>1. d \in String /\ d # <<>>
      BY <2>1
    <3>2. p \in Parts
      BY <2>5
    <3>3. h[Len(d) - 1] = Between(none)
      BY <2>2
    <3> QED
      BY ONLY <1>3, <1>4, <1>7, <2>6, <3>1, <3>2, <3>3, PartOfKeyRead
  <2>8. FirstParts(t, a, 0) = Append(none, t)
    BY <1>1, <2>2, FirstPartsGrow
  <2> QED
    BY <2>3, <2>5, <2>7, <2>8
<1>9. ASSUME NEW n \in Nat, n \in H PROVE n + 1 \in H
  <2> SUFFICES ASSUME n + 1 <= Len(a)
               PROVE  h[Len(g[n + 1]) - 1] = Between(FirstParts(t, a, n + 1))
    OBVIOUS
  <2>1. PICK m \in Nat : m = n + 1
    OBVIOUS
  <2>2. /\ n <= Len(a) /\ m - 1 = n /\ m \in 1 .. Len(a) /\ m \in 0 .. Len(a)
        /\ n \in 0 .. Len(a)
    BY <1>1, <2>1
  <2>3. PICK b \in String : b = g[n] /\ b # <<>>
    BY <1>6, <2>2
  <2>4. h[Len(b) - 1] = Between(FirstParts(t, a, n))
    BY <1>9, <2>2, <2>3
  <2>5. PICK p \in Parts : p = a[m]
    BY ONLY <2>2, a \in Seq(Parts), ElementOf
  <2>6. g[m] = g[m - 1] \o a[m] \o Delimiter
    BY ONLY <1>5, <2>2, Zenon DEF Chain
  <2>7. g[m] = b \o p \o Delimiter
    BY <2>2, <2>3, <2>5, <2>6
  <2>8. Starts(b \o p \o Delimiter, w)
    BY <1>6, <2>2, <2>7
  <2>9. h[Len(b \o p \o Delimiter) - 1] = Between(Append(FirstParts(t, a, n), p))
    BY <1>3, <1>4, <1>7, <2>3, <2>4, <2>8, PartOfKeyRead
  <2>10. FirstParts(t, a, m) = Append(FirstParts(t, a, n), p)
    BY <1>1, <2>1, <2>5, FirstPartsGrow
  <2> QED
    BY <2>1, <2>7, <2>9, <2>10
<1> HIDE DEF H
<1>10. Len(a) \in H
  BY <1>1, <1>8, <1>9, SetInduction
<1>11. PICK all : all = <<t>> \o a /\ h[Len(w) - 1] = Between(all)
  <2>1. h[Len(g[Len(a)]) - 1] = Between(FirstParts(t, a, Len(a)))
    BY <1>1, <1>10 DEF H
  <2>2. FirstParts(t, a, Len(a)) = <<t>> \o a
    BY <1>1, FirstPartsGrow
  <2> QED
    BY <1>5, <2>1, <2>2
<1>12. Segments(Tail(w)) = all
  <2>1. Len(Tail(w)) = Len(w) - 1
    BY <1>3, <1>4, TailOf
  <2>2. Closed(Between(all)) = all
    BY DEF Closed, Between
  <2> QED
    BY <1>7, <1>11, <2>1, <2>2
<1>13. <<t>> \o a # <<>> /\ (<<t>> \o a)[1] = t /\ Tail(<<t>> \o a) = a
  BY <1>1
<1> QED
  BY <1>2, <1>4, <1>11, <1>12, <1>13 DEF split_composite_key


-----------------------------------------------------------------------------
(* The inductive invariant *)

(***************************************************************************)
(* A composite key of the ghost is the one its parts make, and its parts   *)
(* passed validate_composite_component.                                    *)
(***************************************************************************)
Composed(m) ==
    /\ m.object_type \in Parts
    /\ m.attributes \in Seq(Parts)
    /\ m.key = create_composite_key(m.object_type, m.attributes)

(***************************************************************************)
(* A key of the public state is a simple one or a composite one.           *)
(***************************************************************************)
Known(e) ==
    /\ e = Entry(e.collection, e.key)
    /\ e.collection = Public => \/ e.key \in SimpleKeys /\ e.key # <<>>
                                \/ \E m \in made : m.key = e.key

LedgerInv ==
    /\ \A m \in made : Composed(m)
    /\ \A e \in ledger : Known(e)

(***************************************************************************)
(* What may be composed are parts.                                         *)
(***************************************************************************)
LEMMA ComposableParts ==
    ASSUME NEW t \in Components, NEW a \in Attributes, Composable(t, a)
    PROVE  t \in Parts /\ a \in Seq(Parts)
<1>1. Components \subseteq String
  BY StringsAssumption DEF String
<1>2. t \in Parts
  BY <1>1 DEF Parts, Composable
<1>3. PICK n \in 0 .. MaxAttributes : a \in [1 .. n -> Components]
  BY DEF Attributes
<1>4. \A i \in 1 .. n : a[i] \in Parts
  BY <1>1, <1>3 DEF Parts, Composable
<1>5. n \in Nat
  BY <1>3, LedgerBoundsAssumption
<1>6. a \in [1 .. n -> Parts]
  BY <1>3, <1>4
<1>7. a \in Seq(Parts)
  BY <1>5, <1>6
<1> QED
  BY <1>2, <1>7

LEMMA EntryFields ==
    ASSUME NEW c, NEW k
    PROVE  /\ Entry(c, k).collection = c /\ Entry(c, k).key = k
           /\ \A d, l : Entry(c, k) = Entry(d, l) => c = d /\ k = l
  BY DEF Entry

(***************************************************************************)
(* A call that adds an entry: it must be a known one.                      *)
(***************************************************************************)
LEMMA PutKeeps ==
    ASSUME LedgerInv, NEW c, NEW k, ledger' = ledger \cup {Entry(c, k)}, made \subseteq made',
           \A m \in made' \ made : Composed(m),
           c = Public => (k \in SimpleKeys /\ k # <<>>) \/ \E m \in made' : m.key = k
    PROVE  LedgerInv'
<1>1. \A m \in made' : Composed(m)
  BY DEF LedgerInv
<1>2. ASSUME NEW e \in ledger PROVE Known(e)'
  BY DEF LedgerInv, Known, Entry
<1>3. Known(Entry(c, k))'
  BY EntryFields DEF Known, Entry
<1> QED
  BY <1>1, <1>2, <1>3 DEF LedgerInv, Composed

(***************************************************************************)
(* A call that removes an entry, and its parts if it was a composite one.  *)
(***************************************************************************)
LEMMA DeleteKeeps ==
    ASSUME LedgerInv, NEW c, NEW k, ledger' = ledger \ {Entry(c, k)},
           \/ made' = made
           \/ c = Public /\ made' = {m \in made : m.key # k}
    PROVE  LedgerInv'
<1>1. \A m \in made' : Composed(m)
  BY DEF LedgerInv
<1>2. ASSUME NEW e \in ledger' PROVE Known(e)'
  <2>1. e \in ledger /\ Known(e) /\ e # Entry(c, k)
    BY DEF LedgerInv
  <2>2. CASE made' = made
    BY <2>1, <2>2 DEF Known, Entry
  <2>3. CASE c = Public /\ made' = {m \in made : m.key # k}
    <3>1. e.collection = Public => e.key # k
      BY <2>1, <2>3 DEF Known
    <3> QED
      BY <2>1, <2>3, <3>1 DEF Known, Entry
  <2> QED
    BY <2>2, <2>3
<1> QED
  BY <1>1, <1>2 DEF LedgerInv, Composed

LEMMA SameKeeps == ASSUME LedgerInv, UNCHANGED <<ledger, made>> PROVE LedgerInv'
  BY DEF LedgerInv, Known, Composed, Entry


LEMMA InitLedger == Init => LedgerInv
  BY DEF Init, LedgerInv

LEMMA PutSimple ==
    ASSUME LedgerInv, NEW k \in SimpleKeys, NEW c, NEW private,
           put_data(private, c, k), made' = made
    PROVE  LedgerInv'
<1>1. k # <<>> /\ ledger' = ledger \cup {Entry(c, k)}
  BY DEF put_data, PeerPuts
<1> QED
  BY <1>1, PutKeeps

LEMMA PutComposed ==
    ASSUME LedgerInv, NEW t \in Components, NEW a \in Attributes, PutComposite(t, a)
    PROVE  LedgerInv'
<1>1. PICK k : k = create_composite_key(t, a)
  OBVIOUS
<1>2. PICK m : m = [key |-> k, object_type |-> t, attributes |-> a]
  OBVIOUS
<1>3. /\ Composable(t, a) /\ ledger' = ledger \cup {Entry(Public, k)}
      /\ made' = made \cup {m}
  BY <1>1, <1>2 DEF PutComposite, put_data, PeerPuts
<1>4. t \in Parts /\ a \in Seq(Parts)
  BY <1>3, ComposableParts
<1>5. Composed(m)
  BY <1>1, <1>2, <1>4 DEF Composed
<1>6. m \in made' /\ m.key = k
  BY <1>2, <1>3
<1>7. made \subseteq made' /\ \A n \in made' \ made : Composed(n)
  BY <1>3, <1>5
<1> QED
  BY <1>3, <1>6, <1>7, PutKeeps

LEMMA ReadsKeep ==
    ASSUME LedgerInv, NEW private, NEW c, NEW keys, Reads(private, c, keys)
    PROVE  LedgerInv'
  BY SameKeeps DEF Reads

(***************************************************************************)
(* Every call keeps the invariant.                                         *)
(***************************************************************************)
LEMMA NextLedger == LedgerInv /\ [Next]_vars => LedgerInv'
<1> SUFFICES ASSUME LedgerInv, [Next]_vars PROVE LedgerInv'
  OBVIOUS
<1>1. ASSUME NEW k, get_state(k) PROVE LedgerInv'
  BY <1>1, ReadsKeep DEF get_state, get_data
<1>2. ASSUME NEW k \in SimpleKeys, put_state(k) PROVE LedgerInv'
  BY <1>2, PutSimple DEF put_state
<1>3. ASSUME NEW k, del_state(k) PROVE LedgerInv'
  BY <1>3, DeleteKeeps DEF del_state, del_data, PeerDeletes
<1>4. ASSUME NEW t \in Components, NEW a \in Attributes, PutComposite(t, a) PROVE LedgerInv'
  BY <1>4, PutComposed
<1>5. ASSUME NEW t, NEW a, get_state_by_partial_composite_key(t, a) PROVE LedgerInv'
  BY <1>5, SameKeeps DEF get_state_by_partial_composite_key
<1>6. ASSUME NEW k, NEW l, get_state_by_range(k, l) PROVE LedgerInv'
  BY <1>6, ReadsKeep DEF get_state_by_range, range_query
<1>7. ASSUME NEW w, ReadPage(w) PROVE LedgerInv'
  BY <1>7, SameKeeps DEF ReadPage
<1>8. ASSUME NEW c, NEW k, get_private_data(c, k) PROVE LedgerInv'
  BY <1>8, ReadsKeep DEF get_private_data, get_data
<1>9. ASSUME NEW c, NEW k \in SimpleKeys, put_private_data(c, k) PROVE LedgerInv'
  BY <1>9, PutSimple DEF put_private_data
<1>10. ASSUME NEW c, NEW k, del_private_data(c, k) PROVE LedgerInv'
  BY <1>10, DeleteKeeps DEF del_private_data, del_data, PeerDeletes
<1>11. ASSUME NEW c, NEW k, purge_private_data(c, k) PROVE LedgerInv'
  BY <1>11, DeleteKeeps DEF purge_private_data, PeerDeletes
<1>12. ASSUME NEW c, NEW k, NEW l, get_private_data_by_range(c, k, l) PROVE LedgerInv'
  BY <1>12, ReadsKeep DEF get_private_data_by_range, range_query
<1>13. CASE CallFails
  BY <1>13, ReadsKeep DEF CallFails
<1>14. CASE UNCHANGED vars
  BY <1>14, SameKeeps DEF vars
<1> QED
  BY <1>1, <1>2, <1>3, <1>4, <1>5, <1>6, <1>7, <1>8, <1>9, <1>10, <1>11, <1>12, <1>13, <1>14
  DEF Next, FirstPage, NextPage

LEMMA LedgerInvariance == Spec => []LedgerInv
  BY InitLedger, NextLedger, PTL DEF Spec

LEMMA InvRoundTrip == LedgerInv => RoundTrip
  BY SplitOfKey DEF LedgerInv, Composed, RoundTrip

(***************************************************************************)
(* create_composite_key and split_composite_key are inverse for every      *)
(* object type and any number of attributes that pass the validation, of   *)
(* any length: a key in the ledger splits into the parts it was made of,   *)
(* and so two keys made of different parts are different.                  *)
(***************************************************************************)
THEOREM SplitInvertsCreate == Spec => []RoundTrip
  BY LedgerInvariance, InvRoundTrip, PTL


-----------------------------------------------------------------------------
(* Partial composite key queries *)

(***************************************************************************)
(* What PartialQueryExact says a query for (t, a) finds.                   *)
(***************************************************************************)
Matches(t, a) ==
    {m.key : m \in {n \in made : /\ Entry(Public, n.key) \in ledger
                                 /\ n.object_type = t
                                 /\ IsPrefix(a, n.attributes)}}

(***************************************************************************)
(* A composite key is in the range of a partial one when its attributes    *)
(* begin with those of the query, and only then.                           *)
(***************************************************************************)
LEMMA CompositeInRange ==
    ASSUME NEW t \in Parts, NEW a \in Seq(Parts), NEW m, Composed(m)
    PROVE  InRange(m.key, create_composite_key(t, a),
                   Append(create_composite_key(t, a), MAX_UNICODE_RUNE))
              <=> m.object_type = t /\ IsPrefix(a, m.attributes)
<1>1. PICK u \in Parts, b \in Seq(Parts) : u = m.object_type /\ b = m.attributes
  BY DEF Composed
<1>2. PICK p \in String : p = create_composite_key(t, a) /\ Starts(Delimiter, p)
  BY KeyShape
<1>3. PICK w \in String : w = create_composite_key(u, b) /\ NoMax(w) /\ m.key = w
  BY <1>1, KeyShape DEF Composed
<1>4. p # <<>>
  <2>1. Len(p) # 0
    BY <1>2, DelimiterString DEF Starts, String
  <2> QED
    BY <2>1
<1>5. InRange(w, p, Append(p, MAX_UNICODE_RUNE)) <=> Starts(p, w)
  BY <1>3, <1>4, PrefixInRange, RangeHasPrefix
<1>6. Starts(p, w) <=> t = u /\ Starts(a, b)
  BY <1>2, <1>3, KeyPrefix
<1>7. IsPrefix(a, b) <=> Starts(a, b)
  BY PrefixStarts
<1> QED
  BY <1>1, <1>2, <1>3, <1>5, <1>6, <1>7

(***************************************************************************)
(* A simple key never is.                                                  *)
(***************************************************************************)
LEMMA SimpleNotInRange ==
    ASSUME NEW t \in Parts, NEW a \in Seq(Parts), NEW k \in SimpleKeys, k # <<>>
    PROVE  ~InRange(k, create_composite_key(t, a),
                    Append(create_composite_key(t, a), MAX_UNICODE_RUNE))
<1>1. PICK p \in String : p = create_composite_key(t, a) /\ Starts(Delimiter, p)
  BY KeyShape
<1>2. Len(p) \in Nat /\ 1 <= Len(p) /\ p[1] = COMPOSITE_KEY_NAMESPACE
  <2>1. 1 \in 1 .. 1
    OBVIOUS
  <2> QED
    BY <1>1, <2>1, DelimiterString DEF Starts, String
<1>3. p # <<>> /\ 1 \in 1 .. Len(p)
  BY <1>2
<1>4. k \in String /\ k[1] # COMPOSITE_KEY_NAMESPACE
  BY StringsAssumption, SimpleKeysAssumption DEF String
<1>5. ~Starts(p, k)
  BY <1>2, <1>3, <1>4 DEF Starts
<1> QED
  BY <1>1, <1>3, <1>4, <1>5, RangeHasPrefix

LEMMA QueryFinds ==
    ASSUME LedgerInv, NEW t \in Parts, NEW a \in Seq(Parts)
    PROVE  PeerRange(Public, PartialRange(t, a)[1], PartialRange(t, a)[2]) = Matches(t, a)
<1>1. PICK p, q : p = create_composite_key(t, a) /\ q = Append(p, MAX_UNICODE_RUNE)
  OBVIOUS
<1>2. PartialRange(t, a)[1] = p /\ PartialRange(t, a)[2] = q
  BY <1>1 DEF PartialRange
<1>3. ASSUME NEW e \in ledger, e.collection = Public, InRange(e.key, p, q)
      PROVE  e.key \in Matches(t, a)
  <2>1. e = Entry(Public, e.key)
    BY <1>3 DEF LedgerInv, Known
  <2>2. PICK m \in made : m.key = e.key
    BY <1>1, <1>3, SimpleNotInRange DEF LedgerInv, Known
  <2>3. m.object_type = t /\ IsPrefix(a, m.attributes)
    BY <1>1, <1>3, <2>2, CompositeInRange DEF LedgerInv
  <2> QED
    BY <2>1, <2>2, <2>3 DEF Matches
<1>4. ASSUME NEW m \in made, Entry(Public, m.key) \in ledger, m.object_type = t,
             IsPrefix(a, m.attributes)
      PROVE  \E e \in ledger : /\ e.collection = Public /\ InRange(e.key, p, q)
                               /\ e.key = m.key
  <2>1. InRange(m.key, p, q)
    BY <1>1, <1>4, CompositeInRange DEF LedgerInv
  <2> QED
    BY <1>4, <2>1, EntryFields
<1> QED
  BY <1>2, <1>3, <1>4 DEF PeerRange, Matches

LEMMA QueryExact == LedgerInv /\ PartialQueryExact /\ [Next]_vars => PartialQueryExact'
<1> SUFFICES ASSUME LedgerInv, PartialQueryExact, [Next]_vars PROVE PartialQueryExact'
  OBVIOUS
<1>1. CASE answer' = NoAnswer
  BY <1>1 DEF PartialQueryExact, NoAnswer
<1>2. ASSUME NEW t \in Components, NEW a \in Attributes,
             get_state_by_partial_composite_key(t, a)
      PROVE  PartialQueryExact'
  <2>1. /\ Composable(t, a) /\ ledger' = ledger /\ made' = made
        /\ answer' = [object_type |-> t, attributes |-> a,
                      keys |-> PeerRange(Public, PartialRange(t, a)[1], PartialRange(t, a)[2])]
    BY <1>2 DEF get_state_by_partial_composite_key
  <2>2. t \in Parts /\ a \in Seq(Parts)
    BY <2>1, ComposableParts
  <2>3. answer'.object_type = t /\ answer'.attributes = a /\ answer'.keys = Matches(t, a)
    BY <2>1, <2>2, QueryFinds
  <2> QED
    BY <2>1, <2>3 DEF PartialQueryExact, Matches, Entry
<1>3. CASE UNCHANGED vars
  BY <1>3 DEF vars, PartialQueryExact, Entry
<1> QED
  BY <1>1, <1>2, <1>3
  DEF Next, get_state, put_state, del_state, PutComposite, get_state_by_range, FirstPage, NextPage,
      ReadPage, get_private_data, put_private_data, del_private_data, purge_private_data,
      get_private_data_by_range, CallFails, get_data, put_data, del_data, range_query, Reads

(***************************************************************************)
(* get_state_by_partial_composite_key finds exactly the entries whose      *)
(* attributes begin with the given ones, whatever the ledger holds: the    *)
(* range from the key to the key with U+10FFFF is that of its extensions,  *)
(* and the delimiter keeps an object type or an attribute apart from one   *)
(* that only begins with it.                                               *)
(***************************************************************************)
THEOREM PartialQueryIsExact == Spec => []PartialQueryExact
<1>1. Init => PartialQueryExact
  BY DEF Init, PartialQueryExact
<1> QED
  BY <1>1, LedgerInvariance, QueryExact, PTL DEF Spec

-----------------------------------------------------------------------------
(* Private collections *)

(***************************************************************************)
(* What Isolation asks of a step.                                          *)
(***************************************************************************)
Isolated ==
    \A e \in (ledger \ ledger') \cup (ledger' \ ledger)
              \cup {Entry(called'.collection, k) : k \in called'.keys} :
        /\ e.collection = called'.collection
        /\ called'.private <=> e.collection # Public

LEMMA CallIsolated ==
    ASSUME NEW private \in BOOLEAN, NEW c, NEW k, NEW keys, Call(private, c, keys),
           private <=> c # Public,
           ledger' \in {ledger, ledger \cup {Entry(c, k)}, ledger \ {Entry(c, k)}}
    PROVE  Isolated
<1>1. called'.private = private /\ called'.collection = c
  BY DEF Call
<1>2. ASSUME NEW e \in (ledger \ ledger') \cup (ledger' \ ledger) PROVE e.collection = c
  BY <1>2, EntryFields
<1> QED
  BY <1>1, <1>2, EntryFields DEF Isolated

(***************************************************************************)
(* The private data API never reads or changes the public state, nor the   *)
(* public API a collection: it is require_collection, in every private     *)
(* method, that keeps the empty name of the public state out of them.      *)
(***************************************************************************)
THEOREM CollectionsAreIsolated == Spec => Isolation
<1>1. ASSUME [Next]_vars PROVE [Isolated]_vars
  <2>1. ASSUME NEW k, get_state(k) PROVE Isolated
    BY <2>1, CallIsolated DEF get_state, get_data, Reads
  <2>2. ASSUME NEW k, put_state(k) PROVE Isolated
    BY <2>2, CallIsolated DEF put_state, put_data, PeerPuts
  <2>3. ASSUME NEW k, del_state(k) PROVE Isolated
    BY <2>3, CallIsolated DEF del_state, del_data, PeerDeletes
  <2>4. ASSUME NEW t, NEW a, PutComposite(t, a) PROVE Isolated
    BY <2>4, CallIsolated DEF PutComposite, put_data, PeerPuts
  <2>5. ASSUME NEW t, NEW a, get_state_by_partial_composite_key(t, a) PROVE Isolated
    BY <2>5, CallIsolated DEF get_state_by_partial_composite_key
  <2>6. ASSUME NEW k, NEW l, get_state_by_range(k, l) PROVE Isolated
    BY <2>6, CallIsolated DEF get_state_by_range, range_query, Reads
  <2>7. ASSUME NEW w, ReadPage(w) PROVE Isolated
    BY <2>7, CallIsolated DEF ReadPage
  <2>8. ASSUME NEW c, NEW k, get_private_data(c, k) PROVE Isolated
    BY <2>8, CallIsolated DEF get_private_data, get_data, Reads, require_collection, Public
  <2>9. ASSUME NEW c, NEW k, put_private_data(c, k) PROVE Isolated
    BY <2>9, CallIsolated DEF put_private_data, put_data, PeerPuts, require_collection, Public
  <2>10. ASSUME NEW c, NEW k, del_private_data(c, k) PROVE Isolated
    BY <2>10, CallIsolated DEF del_private_data, del_data, PeerDeletes, require_collection, Public
  <2>11. ASSUME NEW c, NEW k, purge_private_data(c, k) PROVE Isolated
    BY <2>11, CallIsolated DEF purge_private_data, PeerDeletes, require_collection, Public
  <2>12. ASSUME NEW c, NEW k, NEW l, get_private_data_by_range(c, k, l) PROVE Isolated
    BY <2>12, CallIsolated
    DEF get_private_data_by_range, range_query, Reads, require_collection, Public
  <2>13. CASE CallFails
    BY <2>13, CallIsolated DEF CallFails, Reads
  <2> QED
    BY <1>1, <2>1, <2>2, <2>3, <2>4, <2>5, <2>6, <2>7, <2>8, <2>9, <2>10, <2>11, <2>12, <2>13
    DEF Next, FirstPage, NextPage
<1> QED
  BY <1>1, PTL DEF Spec, Isolation, Isolated

-----------------------------------------------------------------------------
(* The order of keys *)

(***************************************************************************)
(* s comes before w, and the first n elements are what they share.         *)
(***************************************************************************)
BelowAt(s, w, n) ==
    /\ n <= Len(s) /\ n < Len(w)
    /\ \A j \in 1 .. n : s[j] = w[j]
    /\ n = Len(s) \/ s[n + 1] < w[n + 1]

LEMMA BelowSomewhere ==
    ASSUME NEW s \in String, NEW w \in String
    PROVE  Below(s, w) <=> \E n \in Nat : BelowAt(s, w, n)
<1>1. Len(s) \in Nat /\ Len(w) \in Nat
  BY DEF String
<1>2. ASSUME Starts(s, w), s # w PROVE BelowAt(s, w, Len(s))
  <2>1. Len(s) # Len(w)
    BY <1>2, SameString DEF Starts
  <2> QED
    BY <1>1, <1>2, <2>1 DEF BelowAt, Starts
<1>3. ASSUME NEW i \in Nat, i \in 1 .. Len(s), i \in 1 .. Len(w), s[i] < w[i],
             \A j \in 1 .. i - 1 : s[j] = w[j]
      PROVE  \E n \in Nat : BelowAt(s, w, n)
  <2>1. PICK n \in Nat : n = i - 1
    BY <1>3
  <2>2. n <= Len(s) /\ n < Len(w) /\ n + 1 = i
    BY <1>1, <1>3, <2>1
  <2>3. BelowAt(s, w, n)
    BY <1>3, <2>1, <2>2 DEF BelowAt
  <2> QED
    BY <2>3
<1>4. ASSUME NEW n \in Nat, BelowAt(s, w, n) PROVE Below(s, w)
  <2>1. CASE n = Len(s)
    <3>1. Starts(s, w) /\ s # w
      BY <1>1, <1>4, <2>1 DEF BelowAt, Starts
    <3> QED
      BY <3>1, BelowStarts
  <2>2. CASE n # Len(s)
    <3>1. PICK i \in Nat : i = n + 1
      OBVIOUS
    <3>2. i \in 1 .. Len(s) /\ i \in 1 .. Len(w) /\ i - 1 = n
      BY <1>1, <1>4, <2>2, <3>1 DEF BelowAt
    <3>3. s[i] < w[i] /\ \A j \in 1 .. i - 1 : s[j] = w[j]
      BY <1>4, <2>2, <3>1, <3>2 DEF BelowAt
    <3> QED
      BY <3>2, <3>3, BelowStarts
  <2> QED
    BY <2>1, <2>2
<1> QED
  BY <1>1, <1>2, <1>3, <1>4, BelowStarts

LEMMA BelowTotal ==
    ASSUME NEW s \in String, NEW w \in String
    PROVE  s = w \/ Below(s, w) \/ Below(w, s)
<1>1. CASE Starts(s, w)
  BY <1>1, BelowStarts
<1>2. CASE ~Starts(s, w)
  <2>1. CASE Starts(w, s) /\ s # w
    BY <2>1, BelowStarts
  <2>2. ASSUME NEW i \in Nat, i \in 1 .. Len(s), i \in 1 .. Len(w), s[i] # w[i],
               \A j \in 1 .. i - 1 : s[j] = w[j]
        PROVE  Below(s, w) \/ Below(w, s)
    <3>1. s[i] \in Nat /\ w[i] \in Nat
      BY <2>2, CodePoint
    <3>2. s[i] < w[i] \/ w[i] < s[i]
      BY <2>2, <3>1
    <3> QED
      BY <2>2, <3>2, BelowStarts
  <2> QED
    BY <1>2, <2>1, <2>2, FirstDifference
<1> QED
  BY <1>1, <1>2

LEMMA BelowIrreflexive == ASSUME NEW s \in String PROVE ~Below(s, s)
<1> SUFFICES ASSUME NEW n \in Nat, BelowAt(s, s, n) PROVE FALSE
  BY BelowSomewhere
<1>1. Len(s) \in Nat /\ n + 1 \in 1 .. Len(s)
  BY DEF BelowAt, String
<1>2. s[n + 1] \in Nat
  BY <1>1, CodePoint
<1> QED
  BY <1>1, <1>2 DEF BelowAt

LEMMA BelowTransitive ==
    ASSUME NEW s \in String, NEW w \in String, NEW x \in String, Below(s, w), Below(w, x)
    PROVE  Below(s, x)
<1>1. PICK m \in Nat : BelowAt(s, w, m)
  BY BelowSomewhere
<1>2. PICK n \in Nat : BelowAt(w, x, n)
  BY BelowSomewhere
<1>3. Len(s) \in Nat /\ Len(w) \in Nat /\ Len(x) \in Nat
  BY DEF String
<1>4. CASE m < n
  <2>1. m + 1 \in 1 .. n
    BY <1>4
  <2>2. \A j \in 1 .. m : j \in 1 .. n
    BY <1>4
  <2>3. w[m + 1] = x[m + 1] /\ \A j \in 1 .. m : s[j] = x[j]
    BY <1>1, <1>2, <2>1, <2>2 DEF BelowAt
  <2>4. BelowAt(s, x, m)
    BY <1>1, <1>2, <1>3, <1>4, <2>3 DEF BelowAt
  <2> QED
    BY <2>4, BelowSomewhere
<1>5. CASE m = n
  <2>1. n < Len(w) /\ w[n + 1] < x[n + 1]
    BY <1>1, <1>2, <1>3, <1>5 DEF BelowAt
  <2>2. CASE m = Len(s)
    <3>1. BelowAt(s, x, m)
      BY <1>1, <1>2, <1>5, <2>2 DEF BelowAt
    <3> QED
      BY <3>1, BelowSomewhere
  <2>3. CASE m # Len(s)
    <3>1. PICK k \in Nat : k = m + 1
      OBVIOUS
    <3>2. k \in 1 .. Len(s) /\ k \in 1 .. Len(w) /\ k \in 1 .. Len(x)
      BY <1>1, <1>2, <1>3, <1>5, <2>1, <2>3, <3>1 DEF BelowAt
    <3>3. s[k] \in Nat /\ w[k] \in Nat /\ x[k] \in Nat
      BY <3>2, CodePoint
    <3>4. s[k] < w[k] /\ w[k] < x[k]
      BY <1>1, <1>5, <2>1, <2>3, <3>1 DEF BelowAt
    <3>5. s[m + 1] < x[m + 1]
      BY <3>1, <3>3, <3>4
    <3>6. BelowAt(s, x, m)
      BY <1>1, <1>2, <1>5, <3>5 DEF BelowAt
    <3> QED
      BY <3>6, BelowSomewhere
  <2> QED
    BY <2>2, <2>3
<1>6. CASE n < m
  <2>1. n + 1 \in 1 .. m /\ n # Len(w) /\ n <= Len(s)
    BY <1>1, <1>3, <1>6 DEF BelowAt
  <2>2. \A j \in 1 .. n : j \in 1 .. m
    BY <1>6
  <2>3. s[n + 1] = w[n + 1] /\ \A j \in 1 .. n : s[j] = x[j]
    BY <1>1, <1>2, <2>1, <2>2 DEF BelowAt
  <2>4. BelowAt(s, x, n)
    BY <1>2, <2>1, <2>3 DEF BelowAt
  <2> QED
    BY <2>4, BelowSomewhere
<1> QED
  BY <1>4, <1>5, <1>6

LEMMA BelowAsymmetric ==
    ASSUME NEW s \in String, NEW w \in String, Below(s, w) PROVE ~Below(w, s) /\ s # w
  BY BelowIrreflexive, BelowTransitive


(***************************************************************************)
(* q lists the elements of S in order.                                     *)
(***************************************************************************)
Lists(q, n, S) ==
    /\ q \in [1 .. n -> S]
    /\ \A s \in S : \E i \in 1 .. n : q[i] = s
    /\ \A i, j \in 1 .. n : i < j => Below(q[i], q[j])

LEMMA OneListing ==
    ASSUME NEW S \in SUBSET String, NEW n \in Nat, NEW q, Lists(q, n, S), NEW r, Lists(r, n, S)
    PROVE  q = r
<1>1. \A i \in 1 .. n : q[i] \in String /\ r[i] \in String /\ q[i] \in S /\ r[i] \in S
  BY DEF Lists
<1> DEFINE T == {i \in Nat : i \in 1 .. n /\ q[i] # r[i]}
<1>2. T = {}
  <2> SUFFICES ASSUME T # {} PROVE FALSE
    OBVIOUS
  <2>1. T \in SUBSET Nat
    OBVIOUS
  <2>2. PICK m \in T : \A k \in T : m <= k
    BY <2>1, LeastNat
  <2>3. m \in 1 .. n /\ q[m] # r[m] /\ m \in Nat
    BY <2>2
  <2>4. ASSUME NEW j \in 1 .. n, j < m PROVE q[j] = r[j]
    <3>1. j \in Nat /\ ~(m <= j)
      BY <2>3, <2>4
    <3> QED
      BY <2>2, <3>1
  <2> HIDE DEF T
  <2>5. CASE Below(q[m], r[m])
    <3>1. PICK j \in 1 .. n : r[j] = q[m]
      BY <1>1, <2>3 DEF Lists
    <3>2. CASE j < m
      <4>1. q[j] = q[m] /\ Below(q[j], q[m])
        BY <2>3, <2>4, <3>1, <3>2 DEF Lists
      <4> QED
        BY <1>1, <2>3, <4>1, BelowIrreflexive
    <3>3. CASE j = m
      BY <2>3, <3>1, <3>3
    <3>4. CASE m < j
      <4>1. Below(r[m], q[m])
        BY <2>3, <3>1, <3>4 DEF Lists
      <4> QED
        BY <1>1, <2>3, <2>5, <4>1, BelowAsymmetric
    <3> QED
      BY <2>3, <3>2, <3>3, <3>4
  <2>6. CASE Below(r[m], q[m])
    <3>1. PICK j \in 1 .. n : q[j] = r[m]
      BY <1>1, <2>3 DEF Lists
    <3>2. CASE j < m
      <4>1. r[j] = r[m] /\ Below(r[j], r[m])
        BY <2>3, <2>4, <3>1, <3>2 DEF Lists
      <4> QED
        BY <1>1, <2>3, <4>1, BelowIrreflexive
    <3>3. CASE j = m
      BY <2>3, <3>1, <3>3
    <3>4. CASE m < j
      <4>1. Below(q[m], r[m])
        BY <2>3, <3>1, <3>4 DEF Lists
      <4> QED
        BY <1>1, <2>3, <2>6, <4>1, BelowAsymmetric
    <3> QED
      BY <2>3, <3>2, <3>3, <3>4
  <2> QED
    BY <1>1, <2>3, <2>5, <2>6, BelowTotal
<1>3. \A i \in 1 .. n : q[i] = r[i]
  BY <1>2
<1> QED
  BY <1>3 DEF Lists

(***************************************************************************)
(* A listing is as long as the set is large.                               *)
(***************************************************************************)
LEMMA ListingCounts ==
    ASSUME NEW S \in SUBSET String, NEW n \in Nat, NEW q, Lists(q, n, S)
    PROVE  IsFiniteSet(S) /\ Cardinality(S) = n
<1>1. q \in [1 .. n -> S] /\ \A s \in S : \E i \in 1 .. n : q[i] = s
  BY DEF Lists
<1>2. ASSUME NEW i \in 1 .. n, NEW j \in 1 .. n, q[i] = q[j] PROVE i = j
  <2>1. q[i] \in String
    BY <1>1
  <2>2. ~Below(q[i], q[j]) /\ ~Below(q[j], q[i])
    BY <1>2, <2>1, BelowIrreflexive
  <2>3. ~(i < j) /\ ~(j < i)
    BY <2>2 DEF Lists
  <2> QED
    BY <2>3
<1>3. q \in Surjection(1 .. n, S)
  BY <1>1 DEF Surjection
<1>4. q \in Injection(1 .. n, S)
  BY <1>1, <1>2 DEF Injection, IsInjective
<1>5. IsFiniteSet(1 .. n) /\ Cardinality(1 .. n) = n
  BY FS_Interval
<1> QED
  BY <1>3, <1>4, <1>5, FS_Surjection

LEMMA HasGreatest ==
    ASSUME NEW S \in SUBSET String, IsFiniteSet(S), S # {}
    PROVE  \E g \in S : \A s \in S : s = g \/ Below(s, g)
<1> DEFINE H == {n \in Nat : \A T \in SUBSET String :
                    IsFiniteSet(T) /\ Cardinality(T) = n /\ T # {}
                       => \E g \in T : \A s \in T : s = g \/ Below(s, g)}
<1>1. 0 \in H
  BY FS_EmptySet
<1>2. ASSUME NEW n \in Nat, n \in H PROVE n + 1 \in H
  <2> SUFFICES ASSUME NEW T \in SUBSET String, IsFiniteSet(T), Cardinality(T) = n + 1, T # {}
               PROVE  \E g \in T : \A s \in T : s = g \/ Below(s, g)
    OBVIOUS
  <2>1. PICK x \in T : TRUE
    OBVIOUS
  <2>2. PICK U : U = T \ {x}
    OBVIOUS
  <2>3. IsFiniteSet(U) /\ Cardinality(U) = n /\ U \in SUBSET String
    <3>1. Cardinality(T) - 1 = n
      OBVIOUS
    <3> QED
      BY <2>1, <2>2, <3>1, FS_RemoveElement
  <2>4. CASE U = {}
    BY <2>1, <2>2, <2>4
  <2>5. CASE U # {}
    <3>1. PICK g \in U : \A s \in U : s = g \/ Below(s, g)
      BY <1>2, <2>3, <2>5
    <3>2. g \in T /\ g \in String /\ x \in String /\ g # x
      BY <2>1, <2>2, <3>1
    <3>3. CASE Below(x, g)
      BY <2>1, <2>2, <3>1, <3>2, <3>3
    <3>4. CASE Below(g, x)
      <4>1. ASSUME NEW s \in T PROVE s = x \/ Below(s, x)
        BY <2>2, <3>1, <3>2, <3>4, BelowTransitive
      <4> QED
        BY <2>1, <4>1
    <3> QED
      BY <3>2, <3>3, <3>4, BelowTotal
  <2> QED
    BY <2>4, <2>5
<1> HIDE DEF H
<1>3. Cardinality(S) \in H
  BY <1>1, <1>2, SetInduction, FS_CardinalityType
<1> QED
  BY <1>3 DEF H

LEMMA HasListing ==
    ASSUME NEW S \in SUBSET String, IsFiniteSet(S)
    PROVE  \E q : Lists(q, Cardinality(S), S)
<1> DEFINE H == {n \in Nat : \A T \in SUBSET String :
                    IsFiniteSet(T) /\ Cardinality(T) = n => \E q : Lists(q, n, T)}
<1>1. 0 \in H
  <2> SUFFICES ASSUME NEW T \in SUBSET String, IsFiniteSet(T), Cardinality(T) = 0
               PROVE  \E q : Lists(q, 0, T)
    OBVIOUS
  <2>1. T = {}
    BY FS_EmptySet
  <2>2. Lists([i \in 1 .. 0 |-> i], 0, T)
    BY <2>1 DEF Lists
  <2> QED
    BY <2>2
<1>2. ASSUME NEW n \in Nat, n \in H PROVE n + 1 \in H
  <2> SUFFICES ASSUME NEW T \in SUBSET String, IsFiniteSet(T), Cardinality(T) = n + 1
               PROVE  \E q : Lists(q, n + 1, T)
    OBVIOUS
  <2>1. T # {}
    BY FS_EmptySet
  <2>2. PICK g \in T : \A s \in T : s = g \/ Below(s, g)
    BY <2>1, HasGreatest
  <2>3. PICK U : U = T \ {g}
    OBVIOUS
  <2>4. IsFiniteSet(U) /\ Cardinality(U) = n /\ U \in SUBSET String
    <3>1. Cardinality(T) - 1 = n
      OBVIOUS
    <3> QED
      BY <2>2, <2>3, <3>1, FS_RemoveElement
  <2>5. PICK q : Lists(q, n, U)
    BY <1>2, <2>4
  <2>6. PICK m \in Nat : m = n + 1
    OBVIOUS
  <2>7. PICK r : r = [i \in 1 .. m |-> IF i = m THEN g ELSE q[i]]
    OBVIOUS
  <2>8. \A i \in 1 .. n : i \in 1 .. m /\ i # m
    BY <2>6
  <2>9. \A i \in 1 .. m : i = m \/ i \in 1 .. n
    BY <2>6
  <2>10. m \in 1 .. m /\ r[m] = g /\ \A i \in 1 .. n : r[i] = q[i] /\ q[i] \in U
    BY <2>5, <2>6, <2>7, <2>8 DEF Lists
  <2>11. r \in [1 .. m -> T]
    BY <2>2, <2>3, <2>7, <2>9, <2>10
  <2>12. ASSUME NEW s \in T PROVE \E i \in 1 .. m : r[i] = s
    BY <2>3, <2>5, <2>8, <2>10 DEF Lists
  <2>13. ASSUME NEW i \in 1 .. m, NEW j \in 1 .. m, i < j PROVE Below(r[i], r[j])
    <3>1. i \in 1 .. n
      BY <2>6, <2>13
    <3>2. CASE j \in 1 .. n
      BY <2>5, <2>10, <2>13, <3>1, <3>2 DEF Lists
    <3>3. CASE j = m
      BY <2>2, <2>3, <2>10, <3>1, <3>3
    <3> QED
      BY <2>9, <3>2, <3>3
  <2>14. Lists(r, m, T)
    BY <2>11, <2>12, <2>13 DEF Lists
  <2> QED
    BY <2>6, <2>14
<1> HIDE DEF H
<1>3. Cardinality(S) \in H
  BY <1>1, <1>2, SetInduction, FS_CardinalityType
<1> QED
  BY <1>3 DEF H

(***************************************************************************)
(* InOrder chooses the listing of a finite set.                            *)
(***************************************************************************)
LEMMA InOrderLists ==
    ASSUME NEW S \in SUBSET String, IsFiniteSet(S)
    PROVE  Lists(InOrder(S), Cardinality(S), S) /\ Cardinality(S) \in Nat
<1>1. PICK n \in Nat : n = Cardinality(S)
  BY FS_CardinalityType
<1> DEFINE Good(q) == /\ Range(q) = S
                      /\ \A i, j \in DOMAIN q : i < j => Below(q[i], q[j])
<1>2. ASSUME NEW q \in [1 .. n -> S] PROVE Good(q) <=> Lists(q, n, S)
  <2>1. DOMAIN q = 1 .. n
    OBVIOUS
  <2>2. Range(q) = S <=> \A s \in S : \E i \in 1 .. n : q[i] = s
    BY <2>1 DEF Range
  <2> QED
    BY <2>1, <2>2 DEF Lists
<1>3. PICK r \in [1 .. n -> S] : Good(r)
  <2>1. PICK r : Lists(r, n, S)
    BY <1>1, HasListing
  <2>2. r \in [1 .. n -> S]
    BY <2>1 DEF Lists
  <2> HIDE DEF Good
  <2> QED
    BY <1>2, <2>1, <2>2
<1>4. InOrder(S) = CHOOSE q \in [1 .. n -> S] : Good(q)
  BY <1>1 DEF InOrder
<1> HIDE DEF Good
<1>5. InOrder(S) \in [1 .. n -> S] /\ Good(InOrder(S))
  BY <1>3, <1>4
<1> QED
  BY <1>1, <1>2, <1>5

LEMMA ListingIsInOrder ==
    ASSUME NEW S \in SUBSET String, NEW n \in Nat, NEW q, Lists(q, n, S)
    PROVE  InOrder(S) = q
  BY ListingCounts, InOrderLists, OneListing


-----------------------------------------------------------------------------
(* Pages *)

LEMMA Part ==
    ASSUME NEW S, NEW q \in Seq(S), NEW m \in Nat, NEW n \in Nat, m <= n, n <= Len(q)
    PROVE  /\ SubSeq(q, m + 1, n) \in Seq(S) /\ Len(SubSeq(q, m + 1, n)) = n - m
           /\ \A i \in 1 .. n - m : SubSeq(q, m + 1, n)[i] = q[m + i]
<1>1. Len(q) \in Nat
  OBVIOUS
<1>2. SubSeq(q, m + 1, n) = [i \in 1 .. n - m |-> q[m + i]]
  BY <1>1
<1>3. \A i \in 1 .. n - m : q[m + i] \in S
  BY <1>1
<1>4. PICK k \in Nat : k = n - m
  OBVIOUS
<1>5. PICK r : r = SubSeq(q, m + 1, n)
  OBVIOUS
<1>6. r \in [1 .. k -> S]
  BY <1>2, <1>3, <1>4, <1>5
<1>7. r \in Seq(S) /\ Len(r) = k
  BY <1>6
<1> QED
  BY <1>2, <1>4, <1>5, <1>7

LEMMA SameSequence ==
    ASSUME NEW S, NEW q \in Seq(S), NEW r \in Seq(S), Len(q) = Len(r),
           \A i \in 1 .. Len(q) : q[i] = r[i]
    PROVE  q = r
  OBVIOUS

(***************************************************************************)
(* Two parts that meet are one.                                            *)
(***************************************************************************)
LEMMA PartsJoin ==
    ASSUME NEW S, NEW q \in Seq(S), NEW n \in Nat, NEW m \in Nat, n <= m, m <= Len(q)
    PROVE  SubSeq(q, 1, n) \o SubSeq(q, n + 1, m) = SubSeq(q, 1, m)
<1>1. Len(q) \in Nat /\ 0 \in Nat /\ n <= Len(q) /\ 0 <= n /\ 0 <= m
  OBVIOUS
<1>2. PICK a : a = SubSeq(q, 0 + 1, n)
  OBVIOUS
<1>3. a \in Seq(S) /\ Len(a) = n /\ \A i \in 1 .. n : a[i] = q[i]
  BY <1>1, <1>2, Part
<1>4. PICK b : b = SubSeq(q, n + 1, m)
  OBVIOUS
<1>5. b \in Seq(S) /\ Len(b) = m - n /\ \A i \in 1 .. m - n : b[i] = q[n + i]
  BY <1>4, Part
<1>6. PICK c : c = SubSeq(q, 0 + 1, m)
  OBVIOUS
<1>7. c \in Seq(S) /\ Len(c) = m /\ \A i \in 1 .. m : c[i] = q[i]
  BY <1>1, <1>6, Part
<1>8. a \o b \in Seq(S) /\ Len(a \o b) = m
  BY <1>3, <1>5
<1>9. ASSUME NEW i \in 1 .. m PROVE (a \o b)[i] = c[i]
  <2>1. CASE i <= n
    <3>1. (a \o b)[i] = a[i]
      BY <1>3, <1>5, <2>1
    <3> QED
      BY <1>3, <1>7, <2>1, <3>1
  <2>2. CASE ~(i <= n)
    <3>1. (a \o b)[i] = b[i - n]
      BY <1>3, <1>5, <2>2
    <3>2. PICK k \in 1 .. m - n : k = i - n
      BY <2>2
    <3>3. b[k] = q[n + k] /\ n + k = i
      BY <1>5, <3>2
    <3> QED
      BY <1>7, <3>1, <3>2, <3>3
  <2> QED
    BY <2>1, <2>2
<1>10. a \o b = c
  BY <1>7, <1>8, <1>9, SameSequence
<1>11. a = SubSeq(q, 1, n) /\ c = SubSeq(q, 1, m)
  BY <1>2, <1>6
<1> QED
  BY <1>4, <1>10, <1>11

(***************************************************************************)
(* The first elements of what is left.                                     *)
(***************************************************************************)
LEMMA PartOfPart ==
    ASSUME NEW S, NEW q \in Seq(S), NEW n \in Nat, NEW p \in Nat, n + p <= Len(q)
    PROVE  SubSeq(SubSeq(q, n + 1, Len(q)), 1, p) = SubSeq(q, n + 1, n + p)
<1>1. Len(q) \in Nat /\ n <= Len(q) /\ 0 \in Nat /\ n + p \in Nat /\ p <= Len(q) - n
  OBVIOUS
<1>2. PICK r : r = SubSeq(q, n + 1, Len(q))
  OBVIOUS
<1>3. r \in Seq(S) /\ Len(r) = Len(q) - n /\ \A i \in 1 .. Len(q) - n : r[i] = q[n + i]
  BY <1>1, <1>2, Part
<1>4. PICK a : a = SubSeq(r, 0 + 1, p)
  OBVIOUS
<1>5. a \in Seq(S) /\ Len(a) = p /\ \A i \in 1 .. p : a[i] = r[i]
  BY <1>1, <1>3, <1>4, Part
<1>6. PICK m \in Nat : m = n + p
  OBVIOUS
<1>7. PICK b : b = SubSeq(q, n + 1, m)
  OBVIOUS
<1>8. b \in Seq(S) /\ Len(b) = m - n /\ \A i \in 1 .. m - n : b[i] = q[n + i]
  <2>1. n <= m /\ m <= Len(q)
    BY <1>1, <1>6
  <2> QED
    BY <1>7, <2>1, Part
<1>9. m - n = p /\ \A i \in 1 .. p : i \in 1 .. Len(q) - n
  BY <1>1, <1>6
<1>10. a = b
  BY <1>3, <1>5, <1>8, <1>9, SameSequence
<1> QED
  BY <1>2, <1>4, <1>6, <1>7, <1>10

LEMMA ListingIsSequence ==
    ASSUME NEW S, NEW n \in Nat, NEW q, Lists(q, n, S)
    PROVE  q \in Seq(S) /\ Len(q) = n
<1>1. q \in [1 .. n -> S]
  BY DEF Lists
<1> QED
  BY <1>1

(***************************************************************************)
(* The elements from the one at n + 1 on.                                  *)
(***************************************************************************)
LEMMA RestIsListed ==
    ASSUME NEW S \in SUBSET String, NEW m \in Nat, NEW q, Lists(q, m, S), NEW n \in Nat, n < m
    PROVE  Lists(SubSeq(q, n + 1, m), m - n, {s \in S : ~Below(s, q[n + 1])})
<1>1. q \in Seq(S) /\ Len(q) = m /\ n <= m
  BY ListingIsSequence
<1>2. PICK r : r = SubSeq(q, n + 1, m)
  OBVIOUS
<1>3. PICK k \in Nat : k = m - n
  OBVIOUS
<1>4. r \in Seq(S) /\ Len(r) = k /\ \A i \in 1 .. k : r[i] = q[n + i]
  BY <1>1, <1>2, <1>3, Part
<1>5. PICK f \in 1 .. m : f = n + 1
  OBVIOUS
<1>6. PICK R : R = {s \in S : ~Below(s, q[f])}
  OBVIOUS
<1>7. \A i \in 1 .. m : q[i] \in S /\ q[i] \in String
  BY DEF Lists
<1>8. ASSUME NEW i \in 1 .. m PROVE ~Below(q[i], q[f]) <=> f <= i
  <2>1. CASE i < f
    BY <2>1 DEF Lists
  <2>2. CASE i = f
    BY <1>7, <2>2, BelowIrreflexive
  <2>3. CASE f < i
    <3>1. Below(q[f], q[i])
      BY <2>3 DEF Lists
    <3> QED
      BY <1>7, <2>3, <3>1, BelowAsymmetric
  <2> QED
    BY <2>1, <2>2, <2>3
<1>9. ASSUME NEW i \in 1 .. k PROVE n + i \in 1 .. m /\ f <= n + i /\ r[i] \in R
  <2>1. n + i \in 1 .. m /\ f <= n + i
    BY <1>3, <1>5
  <2> QED
    BY <1>4, <1>6, <1>7, <1>8, <2>1
<1>10. r \in [1 .. k -> R]
  <2>1. r \in [1 .. k -> S]
    BY <1>4
  <2> QED
    BY <1>9, <2>1
<1>11. ASSUME NEW s \in R PROVE \E i \in 1 .. k : r[i] = s
  <2>1. s \in S /\ ~Below(s, q[f])
    BY <1>6
  <2>2. PICK j \in 1 .. m : q[j] = s
    BY <2>1 DEF Lists
  <2>3. f <= j
    BY <1>8, <2>1, <2>2
  <2>4. PICK i \in 1 .. k : j = n + i
    <3>1. j - n \in 1 .. k /\ j = n + (j - n)
      BY <1>3, <1>5, <2>3
    <3> QED
      BY <3>1
  <2> QED
    BY <1>4, <2>2, <2>4
<1>12. ASSUME NEW i \in 1 .. k, NEW j \in 1 .. k, i < j PROVE Below(r[i], r[j])
  <2>1. n + i \in 1 .. m /\ n + j \in 1 .. m /\ n + i < n + j
    BY <1>9, <1>12
  <2>2. Below(q[n + i], q[n + j])
    BY <2>1 DEF Lists
  <2> QED
    BY <1>4, <2>2
<1>13. Lists(r, k, R)
  BY <1>10, <1>11, <1>12 DEF Lists
<1> QED
  BY <1>2, <1>3, <1>5, <1>6, <1>13


(***************************************************************************)
(* The ledger is a finite set: a call adds or removes one entry at most.   *)
(***************************************************************************)
FiniteEntries == IsFiniteSet(ledger)

LEMMA FiniteStep == FiniteEntries /\ [Next]_vars => FiniteEntries'
<1> SUFFICES ASSUME IsFiniteSet(ledger), [Next]_vars PROVE IsFiniteSet(ledger')
  BY DEF FiniteEntries
<1>1. ledger' = ledger \/ \E e : ledger' \in {ledger \cup {e}, ledger \ {e}}
  BY DEF Next, vars, get_state, put_state, del_state, PutComposite, get_state_by_range, FirstPage,
         NextPage, ReadPage, get_private_data, put_private_data, del_private_data,
         purge_private_data, get_private_data_by_range, get_state_by_partial_composite_key,
         CallFails, get_data, put_data, del_data, range_query, Reads, PeerPuts, PeerDeletes
<1>2. ASSUME NEW e, ledger' = ledger \cup {e} PROVE IsFiniteSet(ledger')
  BY <1>2, FS_AddElement
<1>3. ASSUME NEW e, ledger' = ledger \ {e} PROVE IsFiniteSet(ledger')
  BY <1>3, FS_RemoveElement
<1> QED
  BY <1>1, <1>2, <1>3

LEMMA FiniteLedger == Spec => []FiniteEntries
<1>1. Init => FiniteEntries
  BY FS_EmptySet DEF Init, FiniteEntries
<1> QED
  BY <1>1, FiniteStep, PTL DEF Spec

(***************************************************************************)
(* The keys in a range are strings, none of them empty, and finitely many. *)
(***************************************************************************)
LEMMA RangeOfLedger ==
    ASSUME LedgerInv, FiniteEntries, NEW start, NEW end
    PROVE  /\ PeerRange(Public, start, end) \in SUBSET String
           /\ <<>> \notin PeerRange(Public, start, end)
           /\ IsFiniteSet(PeerRange(Public, start, end))
<1>1. ASSUME NEW e \in ledger, e.collection = Public PROVE e.key \in String /\ e.key # <<>>
  <2>1. CASE e.key \in SimpleKeys /\ e.key # <<>>
    BY <2>1, StringsAssumption DEF String
  <2>2. ASSUME NEW m \in made, m.key = e.key PROVE e.key \in String /\ e.key # <<>>
    <3>1. PICK w : w = e.key
      OBVIOUS
    <3>2. w \in String /\ Starts(Delimiter, w)
      BY <2>2, <3>1, KeyShape DEF LedgerInv, Composed
    <3>3. Len(w) # 0
      BY <3>2, DelimiterString DEF Starts, String
    <3>4. w # <<>>
      BY <3>3
    <3> QED
      BY <3>1, <3>2, <3>4
  <2> QED
    BY <1>1, <2>1, <2>2 DEF LedgerInv, Known
<1>2. PICK F : F = {f \in ledger : f.collection = Public /\ InRange(f.key, start, end)}
  OBVIOUS
<1>3. PICK S : S = {e.key : e \in F} /\ S = PeerRange(Public, start, end)
  BY <1>2 DEF PeerRange
<1>4. IsFiniteSet(F)
  BY <1>2, FS_Subset DEF FiniteEntries
<1>5. [e \in F |-> e.key] \in Surjection(F, S)
  BY <1>3 DEF Surjection
<1>6. IsFiniteSet(S)
  BY <1>4, <1>5, FS_Surjection
<1>7. \A s \in S : s \in String /\ s # <<>>
  BY <1>1, <1>2, <1>3
<1> QED
  BY <1>3, <1>6, <1>7

(***************************************************************************)
(* The range from a key of a range on.                                     *)
(***************************************************************************)
LEMMA RangeFromKey ==
    ASSUME LedgerInv, FiniteEntries, NEW start \in String, NEW end,
           NEW b \in PeerRange(Public, start, end)
    PROVE  PeerRange(Public, b, end) = {s \in PeerRange(Public, start, end) : ~Below(s, b)}
<1>1. b \in String /\ b # <<>>
  BY RangeOfLedger
<1>2. start = <<>> \/ ~Below(b, start)
  BY DEF PeerRange, InRange
<1>3. ASSUME NEW k \in PeerRange(Public, b, end) PROVE start = <<>> \/ ~Below(k, start)
  <2> SUFFICES ASSUME start # <<>>, Below(k, start) PROVE FALSE
    OBVIOUS
  <2>1. k \in String /\ ~Below(k, b)
    BY <1>1, <1>3, RangeOfLedger DEF PeerRange, InRange
  <2>2. b # start /\ ~Below(start, b)
    BY <1>1, <2>1, BelowTransitive
  <2> QED
    BY <1>1, <1>2, <2>2, BelowTotal
<1>4. PeerRange(Public, b, end) \subseteq {s \in PeerRange(Public, start, end) : ~Below(s, b)}
  BY <1>1, <1>3 DEF PeerRange, InRange
<1>5. {s \in PeerRange(Public, start, end) : ~Below(s, b)} \subseteq PeerRange(Public, b, end)
  BY DEF PeerRange, InRange
<1> QED
  BY <1>4, <1>5

(***************************************************************************)
(* The keys of the range that is walked, and a walk that has read n of     *)
(* them and will go on with the next one.                                  *)
(***************************************************************************)
AllKeys(w) == InOrder(PeerRange(Public, w.start, w.end))

HasRead(w, n) ==
    /\ n \in Nat /\ n < Len(AllKeys(w))
    /\ w.keys = SubSeq(AllKeys(w), 1, n)
    /\ w.bookmark = AllKeys(w)[n + 1]

Walked(w) ==
    /\ DOMAIN w = DOMAIN NoWalk
    /\ w.state # "none" =>
          /\ w.start \in String /\ w.page_size \in Nat \ {0}
          /\ \/ w.state = "end" /\ w.keys = AllKeys(w)
             \/ w.state = "more" /\ \E n \in Nat : HasRead(w, n)

WalkInv == Walked(walk)

LEMMA AllKeysListed ==
    ASSUME LedgerInv, FiniteEntries, NEW w
    PROVE  /\ AllKeys(w) \in Seq(String) /\ Len(AllKeys(w)) \in Nat
           /\ Lists(AllKeys(w), Len(AllKeys(w)), PeerRange(Public, w.start, w.end))
<1>1. PICK S : S = PeerRange(Public, w.start, w.end)
  OBVIOUS
<1>2. S \in SUBSET String /\ IsFiniteSet(S)
  BY <1>1, RangeOfLedger
<1>3. PICK q : q = InOrder(S)
  OBVIOUS
<1>4. PICK n \in Nat : Lists(q, n, S)
  BY <1>2, <1>3, InOrderLists
<1>5. q \in Seq(S) /\ Len(q) = n
  BY <1>4, ListingIsSequence
<1>6. q \in Seq(String)
  BY <1>2, <1>5
<1> QED
  BY <1>1, <1>3, <1>4, <1>5, <1>6 DEF AllKeys


(***************************************************************************)
(* What is left of a range after n keys: all of it, or what comes from the *)
(* bookmark on.                                                            *)
(***************************************************************************)
From(w) == IF w.bookmark = <<>> THEN w.start ELSE w.bookmark

Rest(w, n) ==
    /\ n \in Nat /\ n <= Len(AllKeys(w))
    /\ w.keys = SubSeq(AllKeys(w), 1, n)
    /\ InOrder(PeerRange(Public, From(w), w.end)) = SubSeq(AllKeys(w), n + 1, Len(AllKeys(w)))

LEMMA RestAtStart ==
    ASSUME LedgerInv, FiniteEntries, NEW w, w.bookmark = <<>>, w.keys = <<>>
    PROVE  Rest(w, 0)
<1>1. PICK q : q = AllKeys(w) /\ q \in Seq(String) /\ Len(q) \in Nat
  BY AllKeysListed
<1>2. SubSeq(q, 1, 0) = <<>> /\ SubSeq(q, 0 + 1, Len(q)) = q
  BY <1>1
<1>3. 0 \in Nat /\ 0 <= Len(q)
  BY <1>1
<1>4. InOrder(PeerRange(Public, From(w), w.end)) = q
  BY <1>1 DEF From, AllKeys
<1> QED
  BY <1>1, <1>2, <1>3, <1>4 DEF Rest

LEMMA RestAtBookmark ==
    ASSUME LedgerInv, FiniteEntries, NEW w, w.start \in String, NEW n \in Nat, HasRead(w, n)
    PROVE  Rest(w, n)
<1>1. PICK q : q = AllKeys(w)
  OBVIOUS
<1>2. PICK S : S = PeerRange(Public, w.start, w.end)
  OBVIOUS
<1>3. PICK m \in Nat : m = Len(q)
  BY <1>1, AllKeysListed
<1>4. Lists(q, m, S) /\ S \in SUBSET String /\ <<>> \notin S
  BY <1>1, <1>2, <1>3, AllKeysListed, RangeOfLedger
<1>5. n < m /\ w.keys = SubSeq(q, 1, n) /\ w.bookmark = q[n + 1]
  BY <1>1, <1>3 DEF HasRead
<1>6. n + 1 \in 1 .. m
  BY <1>5
<1>7. PICK b \in S : b = q[n + 1]
  BY <1>4, <1>6 DEF Lists
<1>8. PICK R : R = {s \in S : ~Below(s, b)}
  OBVIOUS
<1>9. PeerRange(Public, b, w.end) = R
  BY <1>2, <1>7, <1>8, RangeFromKey
<1>10. PICK r : r = SubSeq(q, n + 1, m)
  OBVIOUS
<1>11. PICK k \in Nat : k = m - n
  BY <1>5
<1>12. Lists(r, k, R)
  BY <1>4, <1>5, <1>7, <1>8, <1>10, <1>11, RestIsListed
<1>13. InOrder(R) = r
  BY <1>4, <1>8, <1>12, ListingIsInOrder
<1>14. From(w) = b
  BY <1>4, <1>5, <1>7 DEF From
<1>15. InOrder(PeerRange(Public, From(w), w.end)) = r
  BY <1>9, <1>13, <1>14
<1> QED
  BY <1>1, <1>3, <1>5, <1>10, <1>15 DEF Rest

(***************************************************************************)
(* A page continues a walk by the keys of the page.                        *)
(***************************************************************************)
Continued(w, page) ==
    [w EXCEPT !.state = IF page.bookmark = <<>> THEN "end" ELSE "more",
              !.bookmark = page.bookmark, !.keys = @ \o page.keys]

LEMMA PageContinues ==
    ASSUME LedgerInv, FiniteEntries, NEW w, DOMAIN w = DOMAIN NoWalk, w.start \in String,
           w.page_size \in Nat \ {0}, NEW n, Rest(w, n)
    PROVE  Walked(Continued(w, PeerPage(w.start, w.end, w.page_size, w.bookmark)))
<1>1. PICK q : q = AllKeys(w) /\ q \in Seq(String)
  BY AllKeysListed
<1>2. PICK m \in Nat : m = Len(q)
  BY <1>1
<1>3. PICK p \in Nat : p = w.page_size /\ p # 0
  OBVIOUS
<1>4. PICK r : r = SubSeq(q, n + 1, m)
  OBVIOUS
<1>5. n \in Nat /\ n <= m /\ w.keys = SubSeq(q, 1, n)
  BY <1>1, <1>2 DEF Rest
<1>6. InOrder(PeerRange(Public, From(w), w.end)) = r
  BY <1>1, <1>2, <1>4 DEF Rest
<1>7. r \in Seq(String) /\ Len(r) = m - n /\ \A i \in 1 .. m - n : r[i] = q[n + i]
  BY <1>1, <1>2, <1>4, <1>5, Part
<1>8. PICK page : page = PeerPage(w.start, w.end, w.page_size, w.bookmark)
  OBVIOUS
<1>9. page = IF Len(r) <= p THEN [keys |-> r, bookmark |-> <<>>]
             ELSE [keys |-> SubSeq(r, 1, p), bookmark |-> r[p + 1]]
  BY <1>3, <1>6, <1>8 DEF PeerPage, From
<1>10. PICK v : v = Continued(w, page)
  OBVIOUS
<1>11. /\ DOMAIN v = DOMAIN NoWalk /\ v.start = w.start /\ v.end = w.end
       /\ v.page_size = w.page_size /\ v.bookmark = page.bookmark
       /\ v.state = (IF page.bookmark = <<>> THEN "end" ELSE "more")
       /\ v.keys = w.keys \o page.keys
  BY <1>10 DEF Continued, NoWalk
<1>12. AllKeys(v) = q
  BY <1>1, <1>11 DEF AllKeys
<1>13. CASE Len(r) <= p
  <2>1. v.keys = SubSeq(q, 1, n) \o SubSeq(q, n + 1, m) /\ v.state = "end"
    BY <1>4, <1>5, <1>9, <1>11, <1>13
  <2>2. v.keys = SubSeq(q, 1, m)
    <3>1. m <= Len(q)
      BY <1>2
    <3>2. q \in Seq(String)
      BY <1>1
    <3> QED
      BY ONLY m \in Nat, <1>5, <2>1, <3>1, <3>2, PartsJoin
  <2>3. v.keys = q
    BY <1>1, <1>2, <2>2
  <2> QED
    BY <1>8, <1>10, <1>11, <1>12, <2>1, <2>3 DEF Walked
<1>14. CASE ~(Len(r) <= p)
  <2>1. PICK k \in Nat : k = n + p
    BY <1>5
  <2>2. n <= k /\ k < m /\ k <= Len(q) /\ p + 1 \in 1 .. m - n /\ n + (p + 1) = k + 1
    BY <1>2, <1>5, <1>7, <1>14, <2>1
  <2>3. page.keys = SubSeq(r, 1, p) /\ page.bookmark = r[p + 1]
    BY <1>9, <1>14
  <2>4. page.keys = SubSeq(q, n + 1, k)
    BY <1>1, <1>2, <1>4, <1>5, <2>1, <2>2, <2>3, PartOfPart
  <2>5. v.keys = SubSeq(q, 1, k)
    BY <1>1, <1>5, <1>11, <2>2, <2>4, PartsJoin
  <2>6. page.bookmark = q[k + 1]
    BY <1>7, <2>2, <2>3
  <2>7. q[k + 1] # <<>>
    <3>1. PICK S : S = PeerRange(Public, w.start, w.end)
      OBVIOUS
    <3>2. Lists(q, m, S) /\ <<>> \notin S
      BY <1>1, <1>2, <3>1, AllKeysListed, RangeOfLedger
    <3>3. k + 1 \in 1 .. m
      BY <2>2
    <3> QED
      BY <3>2, <3>3 DEF Lists
  <2>8. HasRead(v, k) /\ v.state = "more"
    BY <1>2, <1>11, <1>12, <2>2, <2>5, <2>6, <2>7 DEF HasRead
  <2> QED
    BY <1>8, <1>10, <1>11, <2>8 DEF Walked
<1> QED
  BY <1>13, <1>14


LEMMA PageKeepsWalk ==
    ASSUME LedgerInv, FiniteEntries, NEW w, DOMAIN w = DOMAIN NoWalk, w.start \in String,
           w.page_size \in Nat \ {0}, NEW n, Rest(w, n), ReadPage(w)
    PROVE  WalkInv'
<1>1. PICK v : v = Continued(w, PeerPage(w.start, w.end, w.page_size, w.bookmark))
  OBVIOUS
<1>2. walk' = v /\ ledger' = ledger
  BY <1>1 DEF ReadPage, Continued, get_state_by_range_with_pagination
<1>3. Walked(v)
  BY <1>1, PageContinues
<1>4. AllKeys(v) = AllKeys(walk)'
  BY <1>2 DEF AllKeys, PeerRange
<1> QED
  BY <1>2, <1>3, <1>4 DEF WalkInv, Walked, HasRead

LEMMA NextWalk == LedgerInv /\ FiniteEntries /\ WalkInv /\ [Next]_vars => WalkInv'
<1> SUFFICES ASSUME LedgerInv, FiniteEntries, WalkInv, [Next]_vars PROVE WalkInv'
  OBVIOUS
<1>1. CASE walk' = NoWalk
  BY <1>1 DEF WalkInv, Walked, NoWalk
<1>2. ASSUME NEW k \in SimpleKeys, NEW l \in SimpleKeys, NEW p \in PageSizes, FirstPage(k, l, p)
      PROVE  WalkInv'
  <2>1. PICK w : w = [NoWalk EXCEPT !.start = k, !.end = l, !.page_size = p]
    OBVIOUS
  <2>2. /\ DOMAIN w = DOMAIN NoWalk /\ w.start = k /\ w.page_size = p
        /\ w.bookmark = <<>> /\ w.keys = <<>>
    BY <2>1 DEF NoWalk
  <2>3. k \in String /\ p \in Nat \ {0}
    BY StringsAssumption, LedgerBoundsAssumption DEF String
  <2>4. Rest(w, 0)
    BY <2>2, RestAtStart
  <2> QED
    BY <1>2, <2>1, <2>2, <2>3, <2>4, PageKeepsWalk DEF FirstPage
<1>3. CASE NextPage
  <2>1. PICK n \in Nat : HasRead(walk, n)
    BY <1>3 DEF NextPage, WalkInv, Walked
  <2>2. DOMAIN walk = DOMAIN NoWalk /\ walk.start \in String /\ walk.page_size \in Nat \ {0}
    BY <1>3 DEF NextPage, WalkInv, Walked
  <2>3. Rest(walk, n)
    BY <2>1, <2>2, RestAtBookmark
  <2> QED
    BY <1>3, <2>2, <2>3, PageKeepsWalk DEF NextPage
<1>4. CASE UNCHANGED vars
  BY <1>4 DEF vars, WalkInv, Walked, HasRead, AllKeys, PeerRange
<1> QED
  BY <1>1, <1>2, <1>3, <1>4
  DEF Next, get_state, put_state, del_state, PutComposite, get_state_by_range,
      get_state_by_partial_composite_key, get_private_data, put_private_data, del_private_data,
      purge_private_data, get_private_data_by_range, CallFails, get_data, put_data, del_data,
      range_query, Reads

LEMMA WalkExact == LedgerInv /\ FiniteEntries /\ WalkInv => PagesExact
<1> SUFFICES ASSUME LedgerInv, FiniteEntries, WalkInv, walk.state # "none"
             PROVE  /\ IsPrefix(walk.keys, AllKeys(walk))
                    /\ walk.state = "end" => walk.keys = AllKeys(walk)
  BY DEF PagesExact, AllKeys
<1>1. PICK q \in Seq(String) : q = AllKeys(walk) /\ Len(q) \in Nat
  BY AllKeysListed
<1>2. CASE walk.state = "end" /\ walk.keys = q
  <2>1. Starts(q, q)
    BY <1>1 DEF Starts
  <2> QED
    BY <1>1, <1>2, <2>1, PrefixStarts
<1>3. ASSUME NEW n \in Nat, HasRead(walk, n), walk.state = "more"
      PROVE  IsPrefix(walk.keys, q)
  <2>1. n < Len(q) /\ walk.keys = SubSeq(q, 0 + 1, n) /\ 0 \in Nat /\ n <= Len(q) /\ 0 <= n
    BY <1>1, <1>3 DEF HasRead
  <2>2. PICK r : r = walk.keys
    OBVIOUS
  <2>3. r \in Seq(String) /\ Len(r) = n /\ \A i \in 1 .. n : r[i] = q[i]
    BY <2>1, <2>2, Part
  <2>4. Starts(r, q)
    BY <2>1, <2>3 DEF Starts
  <2> QED
    BY <2>2, <2>3, <2>4, PrefixStarts
<1> QED
  BY <1>1, <1>2, <1>3 DEF WalkInv, Walked

(***************************************************************************)
(* A range read with get_state_by_range_with_pagination, page by page with *)
(* the bookmark of the page before, gives the keys of the range in order,  *)
(* each once, and all of them when a page comes without a bookmark: for    *)
(* any ledger, bounds and page size.                                       *)
(***************************************************************************)
THEOREM PagesAddUp == Spec => []PagesExact
<1>1. Init => WalkInv
  BY DEF Init, WalkInv, Walked, NoWalk
<1> QED
  BY <1>1, LedgerInvariance, FiniteLedger, NextWalk, WalkExact, PTL DEF Spec

=============================================================================
