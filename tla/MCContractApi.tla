--------------------------- MODULE MCContractApi ----------------------------
(***************************************************************************)
(* ContractApi for TLC. GetMetadata is asked of contracts over all graphs  *)
(* of three structs, two of them with at most two fields and one with at   *)
(* most one, cyclic graphs included, with distinct and with coinciding     *)
(* identifiers, and of contracts with one struct whose fields have all     *)
(* combinations of names, attributes and rules. Calls are made on          *)
(* contracts with two methods, whose names may be equal or have a colon.   *)
(* Impls with every kind of malformed method, and with malformed           *)
(* arguments, are given to the macro.                                      *)
(***************************************************************************)
EXTENDS ContractApi

CONSTANTS a, b, c

MCStructs == {a, b, c}

MCIdents == {"A", "B", "C"}

MCWords == {"cars", "read", "buy", "car", "fabric", "get", "metadata", "r"}

UpToTwo(S) == UNION {[1 .. n -> S] : n \in 0 .. 2}

Snake(v, w) == <<Word(v), Mark("_"), Word(w)>>

Cars == to_upper_camel_case(<<Word("cars")>>)

Read == to_upper_camel_case(<<Word("read")>>)

Buy == to_upper_camel_case(<<Word("buy")>>)

Get == METADATA_FUNCTION[2]

-----------------------------------------------------------------------------
(* Sources *)

Locals == <<<<Word("cars")>>, Snake("read", "car"), <<Word("car")>>>>

Self == [kind |-> "receiver", ident |-> <<>>, ty |-> Plain]

Param(n, t) == [kind |-> "ident", ident |-> Locals[n], ty |-> t]

Pattern == [Param(1, Plain) EXCEPT !.kind = "pattern"]

Ok(t) == [segment |-> "Result", args |-> <<t, Plain>>]

Named(w) == [kind |-> "name", name |-> w]

Key(k) == [kind |-> k, name |-> <<>>]

Fn(ident, metas, params, ok_ty) ==
    [kind |-> "fn", attr |-> "list", metas |-> metas, ident |-> ident,
     inputs |-> <<Self, Param(1, Plain)>>
                  \o [n \in DOMAIN params |-> Param(n + 1, params[n])],
     output |-> Ok(ok_ty)]

Method(n, w, params, ok_ty) == Fn(Locals[n], <<Named(w)>>, params, ok_ty)

PlainField(n, t) == [ident |-> Locals[n], attrs |-> <<>>, ty |-> t, option |-> FALSE]

StructOf(fields) == [data |-> "named", generic |-> FALSE, attrs |-> <<>>, fields |-> fields]

NoFields == [t \in MCStructs |-> StructOf(<<>>)]

Distinct == [t \in MCStructs |-> CASE t = a -> "A" [] t = b -> "B" [] t = c -> "C"]

Impl(items, structs) ==
    [args |-> <<>>, generic |-> FALSE, named |-> TRUE, type_name |-> Cars,
     items |-> items, ident |-> Distinct, structs |-> structs]

Asked(source) == [contract |-> source, request |-> [function |-> METADATA_FUNCTION, args |-> <<>>]]

-----------------------------------------------------------------------------
(* Graphs of structs *)

DescribedIdents == {Distinct, [Distinct EXCEPT ![b] = "A"], [Distinct EXCEPT ![c] = "B"]}

DescribedItems ==
    {<<Method(1, <<Buy>>, <<a>>, Unit)>>,
     <<Method(1, <<Read>>, <<Plain>>, a), Method(2, <<Buy>>, <<Plain, b>>, c)>>}

GraphFields(f) == StructOf([n \in DOMAIN f |-> PlainField(n, f[n])])

Described ==
    {Asked([Impl(m, [t \in MCStructs |-> GraphFields(f[t])]) EXCEPT !.ident = i]) :
        i \in DescribedIdents, m \in DescribedItems,
        f \in {g \in [MCStructs -> UpToTwo(MCStructs)] : Len(g[c]) < 2}}

-----------------------------------------------------------------------------
(* Attributes of fields *)

Serde(k, f, v) == [key |-> k, form |-> f, value |-> v]

Renamed == Serde("rename", "value", Buy)

FieldAttrs ==
    {<<>>, <<<<Renamed>>>>, <<<<Serde("other", "bare", <<>>), Renamed>>>>,
     <<<<Serde("other", "value", <<>>)>>, <<Renamed>>>>,
     <<<<Serde("other", "list", <<>>), Renamed>>>>,
     <<<<Serde("other", "list", <<>>)>>, <<Renamed, Serde("other", "list", <<>>)>>>>,
     <<<<Renamed>>, <<Serde("rename", "value", Read)>>>>, <<<<Serde("rename", "bare", Buy)>>>>}

FieldIdents ==
    {<<Word("car")>>, Snake("read", "car"), <<Mark("_"), Word("car")>>,
     <<Word("r"), Mark("#"), Word("car")>>}

RuleAttrs ==
    {<<>>} \cup {<<<<[key |-> "other", form |-> "bare", value |-> None],
                    [key |-> "rename_all", form |-> "value", value |-> r]>>>> : r \in Rules}

WithAttrs ==
    {Asked(Impl(<<Method(1, <<Buy>>, <<a>>, Unit)>>,
                [NoFields EXCEPT ![a] = [StructOf(<<PlainField(1, Plain), f>>) EXCEPT !.attrs = r]])) :
        r \in RuleAttrs,
        f \in [ident: FieldIdents, attrs: FieldAttrs, ty: {Plain}, option: BOOLEAN]}

-----------------------------------------------------------------------------
(* Calls *)

CalledWires == {<<Read>>, <<Buy>>, <<Cars, Read>>, <<Get>>}

CalledItems ==
    {<<Method(1, v, <<Plain, a>>, a), Method(2, w, p, Unit)>> :
        v \in CalledWires, w \in CalledWires, p \in {<<>>, <<a>>}}

CalledNames ==
    {<<>>, <<Read>>, <<Buy>>, <<Cars, Read>>, <<Cars, Cars, Read>>, <<Get>>, METADATA_FUNCTION}

Called ==
    {[contract |-> Impl(m, NoFields), request |-> [function |-> f, args |-> r]] :
        m \in CalledItems, f \in CalledNames, r \in UpToTwo({{}, {Plain}, {Plain, a}})}

-----------------------------------------------------------------------------
(* Impls *)

Good == Fn(Snake("read", "car"), <<Key("evaluate")>>, <<Plain>>, a)

Items ==
    {Good, [Good EXCEPT !.attr = "none"], [Good EXCEPT !.kind = "const"],
     [Good EXCEPT !.metas = <<Key("evaluate"), Key("submit"), Named(<<Read>>)>>],
     [Good EXCEPT !.attr = "bad"],
     [Good EXCEPT !.metas = <<Key("other"), Key("name value")>>],
     [Good EXCEPT !.inputs = <<>>], [Good EXCEPT !.inputs = <<Param(1, Plain), Param(2, Plain)>>],
     [Good EXCEPT !.inputs = <<Self>>],
     [Good EXCEPT !.inputs = <<Self, Pattern, Param(2, a)>>],
     [Good EXCEPT !.inputs = <<Self, Param(1, a), Pattern, Pattern>>],
     [Good EXCEPT !.output.segment = "other"], [Good EXCEPT !.output.args = <<>>],
     [Good EXCEPT !.output = [segment |-> "none", args |-> <<>>]]}

Arg(k, f, v) == [key |-> k, form |-> f, value |-> v]

ArgLists ==
    {<<>>, <<Arg("name", "string", Buy)>>,
     <<Arg("version", "string", "1.0"), Arg("title", "string", Read)>>,
     <<Arg("name", "string", Buy), Arg("other", "string", Buy)>>,
     <<Arg("name", "value", Buy)>>, <<Arg("title", "bare", Buy)>>}

ReadCar == to_upper_camel_case(Snake("read", "car"))

CalledOn(items, args, f) ==
    [contract |-> [Impl(items, NoFields) EXCEPT !.args = args],
     request |-> [function |-> f, args |-> <<{Plain}>>]]

Impls ==
    {CalledOn(<<i, [j EXCEPT !.ident = <<Word("buy")>>]>>, <<>>, <<Cars, ReadCar>>) : i \in Items, j \in Items}
      \cup {CalledOn(<<Good>>, args, f) :
                args \in ArgLists, f \in {<<Buy, ReadCar>>, <<Cars, ReadCar>>}}

Refusals ==
    {Asked([Impl(<<Good>>, NoFields) EXCEPT !.generic = TRUE]),
     Asked([Impl(<<Good>>, NoFields) EXCEPT !.named = FALSE]),
     Asked(Impl(<<Good>>, [NoFields EXCEPT ![b].data = "tuple"])),
     Asked(Impl(<<Good>>, [NoFields EXCEPT ![b].data = "enum"])),
     Asked(Impl(<<Good>>, [NoFields EXCEPT ![b].generic = TRUE]))}

MCScenarios == Described \cup WithAttrs \cup Called \cup Impls \cup Refusals

=============================================================================
