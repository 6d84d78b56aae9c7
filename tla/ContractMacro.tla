--------------------------- MODULE ContractMacro ----------------------------
(***************************************************************************)
(* What #[contract] and #[derive(DataType)] read in the source of a        *)
(* chaincode, and what they make of it (fabric-shim-macros/src/lib.rs).    *)
(*                                                                         *)
(* A type is a struct that derives DataType, Unit, or Plain for strings,   *)
(* numbers and bool.  Vec is left out: it mentions the struct inside it    *)
(* and registers what it registers.  A name on the wire is the sequence of *)
(* its parts between colons.                                               *)
(***************************************************************************)
EXTENDS Names, FiniteSets, FiniteSetsExt, SequencesExt

CONSTANTS
    Structs,    \* the structs that derive DataType
    Idents,     \* their identifiers, without the path: two may coincide
    Plain,
    Unit,
    None,
    Versions    \* of a contract

ArgTypes == Structs \cup {Plain}

ASSUME TypesAssumption ==
    /\ Plain \notin Structs /\ Unit \notin ArgTypes
    /\ None \notin ArgTypes \cup {Unit}

Name == Seq(Token)

Wire == Seq(Name)

-----------------------------------------------------------------------------
(* #[contract(...)] *)

(***************************************************************************)
(* key = "text", key = other, or not of that form.                         *)
(***************************************************************************)
ContractMeta ==
    [key: {"name", "title", "other"}, form: {"string", "value", "bare"}, value: Name]
        \cup [key: {"version"}, form: {"string", "value", "bare"}, value: Versions]

LastOf(metas, key, default) ==
    LET found == Selected(metas, {n \in DOMAIN metas : metas[n].key = key}) IN
    IF found = <<>> THEN default ELSE Last(found).value

ArgsRefused(metas) ==
    \E n \in DOMAIN metas : metas[n].form # "string" \/ metas[n].key = "other"

parse_contract_args(metas) ==
    [name |-> LastOf(metas, "name", None), title |-> LastOf(metas, "title", None),
     version |-> LastOf(metas, "version", None)]

-----------------------------------------------------------------------------
(* #[transaction] methods *)

(***************************************************************************)
(* An argument of a method: a receiver, which only the first can be, or    *)
(* typed, with an identifier or another pattern before the type.           *)
(***************************************************************************)
FnArg == [kind: {"receiver", "ident", "pattern"}, ident: Name, ty: ArgTypes]

(***************************************************************************)
(* An item of the impl.  "attr" is "bad" if what is in the parentheses of  *)
(* #[transaction(...)] does not parse.  The result is a path, by its last  *)
(* segment and the types in angle brackets, or there is none.              *)
(***************************************************************************)
TxMeta == [kind: {"submit", "evaluate", "name", "name value", "other"}, name: Wire]

Inputs == {s \in Seq(FnArg) : \A n \in DOMAIN s : n > 1 => s[n].kind # "receiver"}

Item == [kind: {"fn", "const"}, attr: {"none", "list", "bad"}, metas: Seq(TxMeta),
         ident: Name, inputs: Inputs,
         output: [segment: {"Result", "other", "none"}, args: Seq(ArgTypes \cup {Unit})]]

TxMethod == [wire_name: Wire, tag: {"submit", "evaluate"},
             params: Seq([ident: Name, ty: ArgTypes]), ok_ty: ArgTypes \cup {None}]

IsTransaction(item) == item.kind = "fn" /\ item.attr # "none"

extract_result_ok(ty) == IF ty.segment = "Result" /\ ty.args # <<>> THEN ty.args[1] ELSE None

MetasOf(item, kinds) ==
    Selected(item.metas, {n \in DOMAIN item.metas : item.metas[n].kind \in kinds})

MetaErrors(item) == [n \in DOMAIN MetasOf(item, {"name value", "other"}) |-> "meta"]

Params(item) == SubSeq(item.inputs, 3, Len(item.inputs))

Patterns(item) ==
    Selected(Params(item), {n \in DOMAIN Params(item) : Params(item)[n].kind = "pattern"})

(***************************************************************************)
(* The errors of a signature: the first of these that is wrong.            *)
(***************************************************************************)
SignatureErrors(item) ==
    IF item.inputs = <<>> \/ item.inputs[1].kind # "receiver" THEN <<"receiver">>
    ELSE IF Len(item.inputs) = 1 THEN <<"context">>
    ELSE IF Patterns(item) # <<>> THEN [n \in DOMAIN Patterns(item) |-> "pattern"]
    ELSE IF extract_result_ok(item.output) = None THEN <<"result">> ELSE <<>>

ItemErrors(item) ==
    IF item.attr = "bad" THEN <<"parse">> ELSE MetaErrors(item) \o SignatureErrors(item)

(***************************************************************************)
(* The transaction of an item, unless an error of its signature skips it.  *)
(***************************************************************************)
Skipped(item) == item.attr = "bad" \/ SignatureErrors(item) # <<>>

Mutant_TransactionOf(item) ==
    LET tags == MetasOf(item, {"submit", "evaluate"})
        names == MetasOf(item, {"name"})
    IN  [wire_name |-> IF names = <<>> THEN <<to_upper_camel_case(item.ident)>>
                       ELSE Last(names).name,
         tag |-> IF tags = <<>> THEN "submit" ELSE Last(tags).kind,
         params |-> [n \in DOMAIN Params(item) |->
                        [ident |-> Params(item)[n].ident, ty |-> Params(item)[n].ty]],
         ok_ty |-> extract_result_ok(item.output)]

TransactionOf(item) ==
    LET tags == MetasOf(item, {"submit", "evaluate"})
        names == MetasOf(item, {"name"})
    IN  [wire_name |-> IF names = <<>> THEN <<to_upper_camel_case(item.ident)>>
                       ELSE Last(names).name,
         tag |-> IF tags = <<>> THEN "submit" ELSE Last(tags).kind,
         params |-> [n \in DOMAIN Params(item) |->
                        [ident |-> Params(item)[n].ident, ty |-> Params(item)[n].ty]],
         ok_ty |-> LET ty == extract_result_ok(item.output) IN IF ty = Unit THEN None ELSE ty]

-----------------------------------------------------------------------------
(* #[derive(DataType)] *)

(***************************************************************************)
(* One entry of #[serde(...)]: key = "text", a bare key, or key(...).      *)
(* Other keys are those that leave the properties alone: skip, default,    *)
(* flatten and the like, which the macro ignores, are left out.            *)
(***************************************************************************)
SerdeMeta == [key: {"rename", "other"}, form: {"value", "bare", "list"}, value: Name]

Rules == {"camelCase", "PascalCase", "UPPERCASE", "lowercase", "snake_case",
          "SCREAMING_SNAKE_CASE", "kebab-case", "SCREAMING-KEBAB-CASE"}

RuleMeta == [key: {"rename_all"}, form: {"value"}, value: Rules]
                \cup [key: {"other"}, form: {"value", "bare", "list"}, value: {None}]

Field == [ident: Name, attrs: Seq(Seq(SerdeMeta)), ty: ArgTypes, option: BOOLEAN]

Struct == [data: {"named", "tuple", "enum"}, generic: BOOLEAN,
           attrs: Seq(Seq(RuleMeta)), fields: Seq(Field)]

(***************************************************************************)
(* The value of a key in the first attribute that gives it one.  Reading   *)
(* an attribute ends, without an error, at an entry that is a list, and at *)
(* the key without a value.                                                *)
(***************************************************************************)
Stops(meta, key) == meta.form = "list" \/ (meta.key = key /\ meta.form # "value")

Found(attr, key) ==
    {n \in DOMAIN attr : attr[n].key = key /\ \A k \in 1 .. n : ~Stops(attr[k], key)}

Mutant_serde_string_value(attrs, key) ==
    IF attrs # <<>> /\ Found(attrs[1], key) # {}
      THEN attrs[1][Max(Found(attrs[1], key))].value ELSE None

serde_string_value(attrs, key) ==
    LET with == {n \in DOMAIN attrs : Found(attrs[n], key) # {}} IN
    IF with = {} THEN None
    ELSE LET attr == attrs[Min(with)] IN attr[Max(Found(attr, key))].value

json_name(field, rule) ==
    LET rename == serde_string_value(field.attrs, "rename") IN
    IF rename # None THEN rename ELSE apply_rename_all(field.ident, rule)

Derivable(struct) == struct.data = "named" /\ ~struct.generic

(***************************************************************************)
(* The schema of a struct; an Option is described by the type inside it.   *)
(***************************************************************************)
derive_data_type(struct) ==
    LET rule == serde_string_value(struct.attrs, "rename_all")
        fields == struct.fields
    IN  [properties |-> {json_name(fields[n], rule) : n \in DOMAIN fields},
         required |-> {json_name(fields[n], rule) :
                            n \in {k \in DOMAIN fields : ~fields[k].option}}]

-----------------------------------------------------------------------------
(* serde (external) *)

(***************************************************************************)
(* Where the attributes have a key, and its value: serde reads all of them *)
(* and refuses a key that is given twice.                                  *)
(***************************************************************************)
Places(attrs, key) ==
    UNION {{<<n, k>> : k \in {j \in DOMAIN attrs[n] : attrs[n][j].key = key}} :
              n \in DOMAIN attrs}

SerdeValue(attrs, key) ==
    LET places == Places(attrs, key)
        p == CHOOSE q \in places : TRUE
    IN  IF places = {} THEN None ELSE attrs[p[1]][p[2]].value

SerdeName(field, rule) ==
    IF SerdeValue(field.attrs, "rename") # None
      THEN SerdeValue(field.attrs, "rename")
      ELSE SerdeRenameAll(Unraw(field.ident), rule)

(***************************************************************************)
(* The properties serde writes, and those without which it refuses to read *)
(* the struct.                                                             *)
(***************************************************************************)
SerdeJson(struct) ==
    LET rule == SerdeValue(struct.attrs, "rename_all")
        fields == struct.fields
    IN  [properties |-> {SerdeName(fields[n], rule) : n \in DOMAIN fields},
         required |-> {SerdeName(fields[n], rule) :
                            n \in {k \in DOMAIN fields : ~fields[k].option}}]

=============================================================================
