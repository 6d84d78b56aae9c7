------------------------------- MODULE Names --------------------------------
(***************************************************************************)
(* Names as the macros of fabric-shim-macros change them: identifiers of   *)
(* methods, parameters and fields become names of functions, arguments and *)
(* JSON properties.  A name is a sequence of words, each in lower case, in *)
(* upper case or with a capital, and of marks between them.  The raw       *)
(* identifier r#type is the word r, a mark and the word type.              *)
(***************************************************************************)
EXTENDS Naturals, Sequences, FiniteSets

CONSTANT Words

Token == [text: Words, style: {"lower", "Capital", "UPPER"}]
            \cup [text: {"_", "-", "#"}, style: {"mark"}]

Word(w) == [text |-> w, style |-> "lower"]

Mark(m) == [text |-> m, style |-> "mark"]

(***************************************************************************)
(* The elements of a sequence at the positions P, in order.                *)
(***************************************************************************)
Selected(s, P) ==
    [k \in 1 .. Cardinality(P) |-> s[CHOOSE n \in P : Cardinality({m \in P : m <= n}) = k]]

InStyle(k, s) == IF k.style = "mark" THEN k ELSE [k EXCEPT !.style = s]

to_uppercase(name) == [n \in DOMAIN name |-> InStyle(name[n], "UPPER")]

to_lowercase(name) == [n \in DOMAIN name |-> InStyle(name[n], "lower")]

-----------------------------------------------------------------------------
(* heck (external) takes a name apart into its words and joins them again. *)

WordsOf(name) == Selected(name, {n \in DOMAIN name : name[n].style # "mark"})

Camel(name, first) ==
    LET w == WordsOf(name) IN
    [n \in DOMAIN w |-> InStyle(w[n], IF n = 1 THEN first ELSE "Capital")]

to_lower_camel_case(name) == Camel(name, "lower")

to_upper_camel_case(name) == Camel(name, "Capital")

Joined(name, style, mark) ==
    LET w == WordsOf(name) IN
    [n \in 1 .. 2 * Len(w) - 1 |->
        IF n % 2 = 1 THEN InStyle(w[(n + 1) \div 2], style) ELSE Mark(mark)]

apply_rename_all(field, rule) ==
    CASE rule = "camelCase" -> to_lower_camel_case(field)
      [] rule = "PascalCase" -> to_upper_camel_case(field)
      [] rule = "UPPERCASE" -> to_uppercase(field)
      [] rule = "lowercase" -> to_lowercase(field)
      [] rule = "SCREAMING_SNAKE_CASE" -> Joined(field, "UPPER", "_")
      [] rule = "kebab-case" -> Joined(field, "lower", "-")
      [] OTHER -> field

-----------------------------------------------------------------------------
(* serde (external) renames a field of words in lower case token by token. *)

Unraw(ident) ==
    IF Len(ident) > 2 /\ ident[2] = Mark("#") THEN SubSeq(ident, 3, Len(ident)) ELSE ident

Hyphens(name) == [n \in DOMAIN name |-> IF name[n] = Mark("_") THEN Mark("-") ELSE name[n]]

SerdeRenameAll(field, rule) ==
    LET words == Selected(field, {n \in DOMAIN field : field[n] # Mark("_")}) IN
    CASE rule = "PascalCase" -> [n \in DOMAIN words |-> InStyle(words[n], "Capital")]
      [] rule = "camelCase" ->
            [n \in DOMAIN words |-> InStyle(words[n], IF n = 1 THEN "lower" ELSE "Capital")]
      [] rule \in {"UPPERCASE", "SCREAMING_SNAKE_CASE"} -> to_uppercase(field)
      [] rule = "kebab-case" -> Hyphens(field)
      [] rule = "SCREAMING-KEBAB-CASE" -> Hyphens(to_uppercase(field))
      [] OTHER -> field

=============================================================================
