----------------------------- MODULE ContractApi ----------------------------
(***************************************************************************)
(* The chaincode that #[contract] generates (fabric-shim-macros/src/lib.rs *)
(* with fabric-shim/src/contract.rs and metadata.rs).  The macro reads the *)
(* impl method by method, and gives a compile error or an implementation   *)
(* of Chaincode.  That serves one request: GetMetadata, which collects the *)
(* schemas of all structs the transactions mention, or a call, which is    *)
(* routed by name, parses its arguments and runs a method.                 *)
(*                                                                         *)
(* A raw argument is the set of types whose from_arg accepts it.           *)
(***************************************************************************)
EXTENDS ContractMacro

CONSTANT Scenarios  \* contracts, each with a request to serve

Source ==
    [args: Seq(ContractMeta), generic: BOOLEAN, named: BOOLEAN, type_name: Name,
     items: Seq(Item), ident: [Structs -> Idents], structs: [Structs -> Struct]]

Request == [function: Wire, args: Seq(SUBSET ArgTypes)]

ASSUME ScenariosAssumption ==
    \A s \in Scenarios : s.contract \in Source /\ s.request \in Request

VARIABLES
    contract,   \* the source, fixed
    request,    \* the request, fixed
    phase,      \* what the macro or the chaincode is doing
    errors,     \* the errors of items, in order
    txs,        \* the transactions read from the items
    tx,         \* the item, later the transaction, it is at
    arg,        \* the parameter of it, in order; its result comes last
    stack,      \* the calls of components: struct, and next field to visit
    out,        \* the schemas collected: for an identifier, the struct described
    response    \* how the request was answered

program == <<contract, request, errors, txs>>

vars == <<program, phase, tx, arg, stack, out, response>>

METADATA_FUNCTION == 
    <<<<Word("fabric")>>, to_upper_camel_case(<<Word("get"), Word("metadata")>>)>>

Phases == {"contract", "items", "rejected", "new", "components", "parse", "done"}

Responses ==
    {"none", "metadata", "no function", "unknown function", "argument count",
     "invalid argument", "success", "method error", "not serialized"}

Frame == [struct: Structs, field: Nat \ {0}]

Init ==
    /\ \E s \in Scenarios : contract = s.contract /\ request = s.request
    /\ phase = "contract" /\ tx = 1 /\ arg = 1
    /\ errors = <<>> /\ txs = <<>>
    /\ stack = <<>>
    /\ out = [n \in Idents |-> None]
    /\ response = "none"

Respond(r) == phase' = "done" /\ response' = r

-----------------------------------------------------------------------------
(* Expansion *)

(***************************************************************************)
(* The checks before the items are read, and those of the derives, each of *)
(* which ends the compilation.                                             *)
(***************************************************************************)
Refused ==
    \/ ArgsRefused(contract.args) \/ contract.generic \/ ~contract.named
    \/ \E s \in Structs : ~Derivable(contract.structs[s])

Expand ==
    /\ phase = "contract"
    /\ phase' = IF Refused THEN "rejected" ELSE "items"
    /\ UNCHANGED <<program, tx, arg, stack, out, response>>

Mutant_ReadItem ==
    LET item == contract.items[tx] IN
    /\ phase = "items" /\ tx <= Len(contract.items)
    /\ errors' = IF ~IsTransaction(item) THEN errors
                 ELSE [n \in DOMAIN ItemErrors(item) |-> tx]
    /\ txs' = IF ~IsTransaction(item) \/ Skipped(item) THEN txs
              ELSE Append(txs, TransactionOf(item))
    /\ tx' = tx + 1
    /\ UNCHANGED <<contract, request, phase, arg, stack, out, response>>

ReadItem ==
    LET item == contract.items[tx] IN
    /\ phase = "items" /\ tx <= Len(contract.items)
    /\ errors' = IF ~IsTransaction(item) THEN errors
                 ELSE errors \o [n \in DOMAIN ItemErrors(item) |-> tx]
    /\ txs' = IF ~IsTransaction(item) \/ Skipped(item) THEN txs
              ELSE Append(txs, TransactionOf(item))
    /\ tx' = tx + 1
    /\ UNCHANGED <<contract, request, phase, arg, stack, out, response>>

Generate ==
    /\ phase = "items" /\ tx > Len(contract.items)
    /\ phase' = IF errors = <<>> THEN "new" ELSE "rejected"
    /\ tx' = 1
    /\ UNCHANGED <<program, arg, stack, out, response>>

contract_name ==
    LET name == parse_contract_args(contract.args).name IN
    IF name = None THEN contract.type_name ELSE name

title ==
    LET given == parse_contract_args(contract.args).title IN
    IF given = None THEN contract_name ELSE given

Signature(m) ==
    [n \in DOMAIN m.params |-> m.params[n].ty] \o IF m.ok_ty = None THEN <<>> ELSE <<m.ok_ty>>

-----------------------------------------------------------------------------
(* metadata *)

(***************************************************************************)
(* spawn_transaction serves the full name of GetMetadata itself.           *)
(***************************************************************************)
GetMetadata ==
    /\ phase = "new" /\ request.function = METADATA_FUNCTION
    /\ phase' = "components"
    /\ UNCHANGED <<program, tx, arg, stack, out, response>>

(***************************************************************************)
(* <T as ContractSchema>::components, called with the stack s: a struct    *)
(* enters its schema before it visits its fields, and only if there is no  *)
(* schema with its identifier.                                             *)
(***************************************************************************)
Mutant_components(t, s) ==
    /\ stack' = IF t = Plain \/ out[contract.ident[t]] # None
                  THEN s ELSE Append(s, [struct |-> t, field |-> 1])
    /\ UNCHANGED out

components(t, s) ==
    IF t = Plain \/ out[contract.ident[t]] # None
      THEN stack' = s /\ UNCHANGED out
      ELSE /\ out' = [out EXCEPT ![contract.ident[t]] = t]
           /\ stack' = Append(s, [struct |-> t, field |-> 1])

Top == stack[Len(stack)]

Fields(s) == contract.structs[s].fields

(***************************************************************************)
(* The generated calls for the parameters and the result of a transaction. *)
(***************************************************************************)
Mutant_component_regs ==
    /\ phase = "components" /\ stack = <<>> /\ tx <= Len(txs)
    /\ IF arg <= Len(txs[tx].params)
         THEN /\ components(txs[tx].params[arg].ty, stack)
              /\ arg' = arg + 1 /\ UNCHANGED tx
         ELSE /\ tx' = tx + 1 /\ arg' = 1
              /\ UNCHANGED <<stack, out>>
    /\ UNCHANGED <<program, phase, response>>

component_regs ==
    /\ phase = "components" /\ stack = <<>> /\ tx <= Len(txs)
    /\ IF arg <= Len(Signature(txs[tx]))
         THEN /\ components(Signature(txs[tx])[arg], stack)
              /\ arg' = arg + 1 /\ UNCHANGED tx
         ELSE /\ tx' = tx + 1 /\ arg' = 1
              /\ UNCHANGED <<stack, out>>
    /\ UNCHANGED <<program, phase, response>>

nested_components ==
    /\ phase = "components" /\ stack # <<>>
    /\ Top.field <= Len(Fields(Top.struct))
    /\ components(Fields(Top.struct)[Top.field].ty,
                  [stack EXCEPT ![Len(stack)].field = @ + 1])
    /\ UNCHANGED <<program, phase, tx, arg, response>>

ComponentsReturns ==
    /\ phase = "components" /\ stack # <<>>
    /\ Top.field > Len(Fields(Top.struct))
    /\ stack' = SubSeq(stack, 1, Len(stack) - 1)
    /\ UNCHANGED <<program, phase, tx, arg, out, response>>

(***************************************************************************)
(* The document that metadata builds, with the components of out.  A       *)
(* transaction returns a schema unless its result is ().                   *)
(***************************************************************************)
Parameter(p) == [name |-> to_lower_camel_case(p.ident), schema |-> p.ty]

Transaction(m) ==
    [name |-> m.wire_name, tag |-> <<m.tag>>,
     parameters |-> [n \in DOMAIN m.params |-> Parameter(m.params[n])], returns |-> m.ok_ty]

Contract ==
    [name |-> contract_name, info |-> [title |-> contract_name, version |-> "latest"],
     transactions |-> [n \in DOMAIN txs |-> Transaction(txs[n])], default |-> TRUE]

Document ==
    [info |-> [title |-> title, version |-> parse_contract_args(contract.args).version],
     contracts |-> {Contract}, components |-> out]

metadata ==
    /\ phase = "components" /\ stack = <<>> /\ tx > Len(txs)
    /\ Respond("metadata")
    /\ UNCHANGED <<program, tx, arg, stack, out>>

-----------------------------------------------------------------------------
(* invoke *)

(***************************************************************************)
(* The last part of the name decides, whatever is before it.               *)
(***************************************************************************)
Mutant_function == <<request.function[1]>>

function == <<request.function[Len(request.function)]>>

(***************************************************************************)
(* The first arm of the match that names the function.                     *)
(***************************************************************************)
Arms ==
    {i \in DOMAIN txs :
        /\ txs[i].wire_name = function
        /\ \A j \in 1 .. i - 1 : txs[j].wire_name # function}

Invoked == phase = "new" /\ request.function # METADATA_FUNCTION

NoFunction ==
    /\ Invoked /\ request.function = <<>>
    /\ Respond("no function")
    /\ UNCHANGED <<program, tx, arg, stack, out>>

UnknownFunction ==
    /\ Invoked /\ request.function # <<>> /\ Arms = {}
    /\ Respond("unknown function")
    /\ UNCHANGED <<program, tx, arg, stack, out>>

invoke ==
    /\ Invoked /\ request.function # <<>>
    /\ \E i \in Arms :
          /\ tx' = i
          /\ IF Len(request.args) # Len(txs[i].params)
               THEN Respond("argument count")
               ELSE phase' = "parse" /\ UNCHANGED response
    /\ UNCHANGED <<program, arg, stack, out>>

from_arg(t, raw) == t \in raw

ParseArg ==
    /\ phase = "parse" /\ arg <= Len(txs[tx].params)
    /\ IF from_arg(txs[tx].params[arg].ty, request.args[arg])
         THEN arg' = arg + 1 /\ UNCHANGED <<phase, response>>
         ELSE Respond("invalid argument") /\ UNCHANGED arg
    /\ UNCHANGED <<program, tx, stack, out>>

(***************************************************************************)
(* Serialization of a result can fail if it is JSON.                       *)
(***************************************************************************)
into_payload(t) == {"success"} \cup IF t \in Structs THEN {"not serialized"} ELSE {}

MethodReturns ==
    /\ phase = "parse" /\ arg > Len(txs[tx].params)
    /\ \E r \in into_payload(txs[tx].ok_ty) \cup {"method error"} : Respond(r)
    /\ UNCHANGED <<program, tx, arg, stack, out>>

Metadata ==
    GetMetadata \/ component_regs \/ nested_components \/ ComponentsReturns \/ metadata

Invocation ==
    NoFunction \/ UnknownFunction \/ invoke \/ ParseArg \/ MethodReturns

Expansion == Expand \/ ReadItem \/ Generate

Next == Expansion \/ Metadata \/ Invocation

Spec == Init /\ [][Next]_vars

-----------------------------------------------------------------------------
(* Properties *)

(***************************************************************************)
(* Every variable has its type.  In particular the transactions that the   *)
(* macro generates code for mention types with a schema only: a result of  *)
(* () is no result, and a method without a Result is not among them.       *)
(***************************************************************************)
TypeOK ==
    /\ contract \in Source /\ request \in Request
    /\ errors \in Seq(Nat) /\ txs \in Seq(TxMethod)
    /\ phase \in Phases /\ response \in Responses
    /\ tx \in Nat \ {0} /\ arg \in Nat \ {0}
    /\ stack \in Seq(Frame)
    /\ out \in [Idents -> Structs \cup {None}]

Registered(t) == t \in {Plain, None} \/ Document.components[contract.ident[t]] # None

(***************************************************************************)
(* No transaction method is dropped and none is generated half: when the   *)
(* chaincode runs, there are as many transactions as methods with the      *)
(* attribute, and each method is as the documentation demands (&self, a    *)
(* context, plain parameters, a Result); when the macro refuses the impl   *)
(* after reading it, every method that is not so is among the errors.      *)
(***************************************************************************)
AsDocumented(item) ==
    /\ item.attr = "list"
    /\ \A n \in DOMAIN item.metas : item.metas[n].kind \notin {"name value", "other"}
    /\ Len(item.inputs) >= 2 /\ item.inputs[1].kind = "receiver"
    /\ \A n \in 3 .. Len(item.inputs) : item.inputs[n].kind = "ident"
    /\ item.output.segment = "Result" /\ item.output.args # <<>>

MethodsAccounted ==
    LET methods == {n \in DOMAIN contract.items : IsTransaction(contract.items[n])}
        malformed == {n \in methods : ~AsDocumented(contract.items[n])}
    IN  /\ phase = "rejected" /\ ~Refused => malformed # {} /\ malformed = Range(errors)
        /\ phase \in {"new", "components", "parse", "done"} =>
              malformed = {} /\ Len(txs) = Cardinality(methods)

(***************************************************************************)
(* The metadata document is closed: every $ref of a parameter, a result or *)
(* a property of a component names a component of the document, for        *)
(* recursive structs and structs whose identifiers coincide as well.       *)
(***************************************************************************)
RefsResolve ==
    response = "metadata" =>
        /\ \A k \in Document.contracts : \A i \in DOMAIN k.transactions :
              LET t == k.transactions[i] IN
              /\ \A j \in DOMAIN t.parameters : Registered(t.parameters[j].schema)
              /\ Registered(t.returns)
        /\ \A n \in Idents : out[n] # None =>
              \A j \in DOMAIN Fields(out[n]) : Registered(Fields(out[n])[j].ty)

(***************************************************************************)
(* components does not recur without end: the calls that are active at a   *)
(* time are for structs with different identifiers, each of them already   *)
(* entered, however the structs refer to each other.                       *)
(***************************************************************************)
RecursionBounded ==
    /\ \A i \in DOMAIN stack : out[contract.ident[stack[i].struct]] = stack[i].struct
    /\ \A i, j \in DOMAIN stack :
          contract.ident[stack[i].struct] = contract.ident[stack[j].struct] => i = j

(***************************************************************************)
(* A schema has the properties that serde writes, and requires those that  *)
(* serde requires, whatever mix of rename, rename_all and other entries    *)
(* the attributes have.  Excepted are identifiers other than words joined  *)
(* by single underscores, keys that are given twice, without a value or    *)
(* after an entry with parentheses (serde refuses the first two, but for   *)
(* rename(serialize = ..)), and the rule SCREAMING-KEBAB-CASE, which the   *)
(* macro does not know.                                                    *)
(***************************************************************************)
SnakeCase(ident) ==
    /\ Len(ident) % 2 = 1
    /\ \A n \in DOMAIN ident : IF n % 2 = 1 THEN ident[n].style = "lower"
                                ELSE ident[n] = Mark("_")

Legible(attrs, key) ==
    /\ \A p, q \in Places(attrs, key) : p = q
    /\ \A p \in Places(attrs, key) :
          /\ attrs[p[1]][p[2]].form = "value"
          /\ \A k \in 1 .. p[2] : attrs[p[1]][k].form # "list"

Supported(struct) ==
    /\ Legible(struct.attrs, "rename_all")
    /\ SerdeValue(struct.attrs, "rename_all") # "SCREAMING-KEBAB-CASE"
    /\ \A n \in DOMAIN struct.fields :
          SnakeCase(struct.fields[n].ident) /\ Legible(struct.fields[n].attrs, "rename")

FieldsMatch ==
    \A n \in Idents :
        LET struct == contract.structs[out[n]] IN
        out[n] # None /\ Supported(struct) => derive_data_type(struct) = SerdeJson(struct)

(***************************************************************************)
(* A call made as the metadata says is not refused: under the name listed, *)
(* with or without the name of the contract before it, and with arguments  *)
(* of the types listed.  A name that two methods share, or that contains a *)
(* colon, is excepted: the macro accepts both.                             *)
(***************************************************************************)
Listed(i) ==
    /\ Len(txs[i].wire_name) = 1
    /\ \A j \in DOMAIN txs : txs[j].wire_name = txs[i].wire_name => j = i

AsListed(t) ==
    /\ request.function \in {t.name, <<Contract.name>> \o t.name}
    /\ Len(request.args) = Len(t.parameters)
    /\ \A j \in DOMAIN request.args : t.parameters[j].schema \in request.args[j]

ListedCallsRun ==
    \A i \in DOMAIN txs :
        Listed(i) /\ AsListed(Contract.transactions[i]) =>
            response \notin {"unknown function", "argument count", "invalid argument"}

(***************************************************************************)
(* What the documentation of DataType says: the schema always matches the  *)
(* serialized JSON.  The component a $ref leads to has the fields of the   *)
(* struct it stands for.                                                   *)
(***************************************************************************)
SchemaMatches ==
    response = "metadata" =>
        \A i \in DOMAIN txs : \A j \in DOMAIN Signature(txs[i]) :
            LET t == Signature(txs[i])[j] IN
            t # Plain => Fields(out[contract.ident[t]]) = Fields(t)

=============================================================================
