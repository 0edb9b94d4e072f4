--------------------------- MODULE CodeGenerator ---------------------------
(***************************************************************************)
(* What idlc's CodeGenerator puts into the five files of an interface: the *)
(* declarations and the code that differ between interfaces.  (What the    *)
(* code does is the subject of Wire and Rpc.)                              *)
(***************************************************************************)
EXTENDS IdlBuilder
LOCAL INSTANCE SequencesExt

CONSTANT Capital  \* Capital[n] is n with its first letter in upper case

\* gCppArgTypeNames and gCppReturnTypeNames, which are the same.
gCppTypeNames ==
  [t \in gPrimitiveTypeNames |->
     CASE t = "bool" -> "bool" [] t = "float32" -> "float" [] t = "float64" -> "double"
       [] t = "string" -> "std::string" [] t = "blob" -> "std::vector<std::byte>"
       [] OTHER -> t \o "_t"]

CppTypenameForArg(a) == IF a.isBuiltin THEN gCppTypeNames[LowerCase[a.type]] ELSE a.type

Fields(args) ==
  [i \in DOMAIN args |-> [name |-> args[i].name, type |-> CppTypenameForArg(args[i])]]

HasMultipleReturns(m) == Len(m.returns) > 1

ReturnStruct(m) == [name |-> m.name \o "Return", fields |-> Fields(m.returns)]

ReturnStructs(intf) ==
  LET structured == SelectSeq(intf.methods, HasMultipleReturns)
  IN  [i \in DOMAIN structured |-> ReturnStruct(structured[i])]

ReturnType(m, classPrefix) ==
  CASE m.async \/ m.returns = << >> -> "void"
    [] ~m.async /\ Len(m.returns) = 1 -> CppTypenameForArg(m.returns[1])
    [] OTHER -> classPrefix \o ReturnStruct(m).name

Parameter(a) ==
  [name |-> a.name, type |-> CppTypenameForArg(a), byReference |-> ~a.isPrimitive]

MethodDef(m, prefix, classPrefix) ==
  [name |-> prefix \o Capital[m.name], returns |-> ReturnType(m, classPrefix),
   params |-> [i \in DOMAIN m.params |-> Parameter(m.params[i])]]

MethodDefs(intf, prefix, classPrefix) ==
  [i \in DOMAIN intf.methods |-> MethodDef(intf.methods[i], prefix, classPrefix)]

-----------------------------------------------------------------------------
(* The serialization header.                                               *)

MessageIdEnumName(m) == Capital[m.name]
RequestName(m) == Capital[m.name] \o "Request"
ResponseName(m) == Capital[m.name] \o "Response"

MessageStructs(m) ==
  <<[name |-> RequestName(m), fields |-> Fields(m.params)]>>
  \o (IF m.async THEN << >>
      ELSE <<[name |-> ResponseName(m), fields |-> Fields(m.returns)]>>)

Serialization(intf) ==
  [includes |-> intf.includes,
   ids |-> [i \in DOMAIN intf.methods |->
              <<MessageIdEnumName(intf.methods[i]), intf.methods[i].identifier>>],
   structs |-> FlattenSeq([i \in DOMAIN intf.methods |-> MessageStructs(intf.methods[i])])]

-----------------------------------------------------------------------------
(* Headers and sources of the stubs.                                       *)

Marshaller(m) == "_marshall" \o Capital[m.name]

ServerHeader(intf) ==
  [includes |-> intf.includes, class |-> Capital[intf.name] \o "Server",
   structs |-> ReturnStructs(intf), methods |-> MethodDefs(intf, "impl", ""),
   marshallers |-> [i \in DOMAIN intf.methods |-> Marshaller(intf.methods[i])]]

\* What each field of the reply is read from.
ReplyValues(m) ==
  [i \in DOMAIN m.returns |->
     <<m.returns[i].name,
       IF HasMultipleReturns(m) THEN "retVal." \o m.returns[i].name ELSE "retVal">>]

Names(args) == [i \in DOMAIN args |-> args[i].name]

ServerMethod(m) ==
  [name |-> Marshaller(m), case |-> MessageIdEnumName(m), decodes |-> RequestName(m),
   calls |-> "impl" \o Capital[m.name], arguments |-> Names(m.params),
   encodes |-> IF m.async THEN "" ELSE ResponseName(m),
   reply |-> IF m.async THEN << >> ELSE ReplyValues(m)]

ServerSource(intf, headers) ==
  [headers |-> headers, helpers |-> intf.numCustomTypes # 0,
   methods |-> [i \in DOMAIN intf.methods |-> ServerMethod(intf.methods[i])]]

ClientHeader(intf) ==
  [includes |-> intf.includes, class |-> Capital[intf.name] \o "Client",
   structs |-> ReturnStructs(intf), methods |-> MethodDefs(intf, "", "")]

\* What each field of the reply is assigned to, or returned.
ResultValues(m) ==
  [i \in DOMAIN m.returns |->
     <<IF HasMultipleReturns(m) THEN "r." \o m.returns[i].name ELSE "return",
       m.returns[i].name>>]

ClientMethod(m) ==
  [def |-> MethodDef(m, "Client::", "Client::"), encodes |-> RequestName(m),
   arguments |-> Names(m.params), sends |-> MessageIdEnumName(m),
   decodes |-> IF m.async THEN "" ELSE ResponseName(m),
   declares |-> IF ~m.async /\ HasMultipleReturns(m) THEN ReturnStruct(m).name ELSE "",
   results |-> IF m.async THEN << >> ELSE ResultValues(m)]

ClientSource(intf, headers) ==
  [headers |-> headers, helpers |-> intf.numCustomTypes # 0,
   methods |-> [i \in DOMAIN intf.methods |-> ClientMethod(intf.methods[i])]]

-----------------------------------------------------------------------------
Kinds == <<"RpcHelpers_.hpp", "Server_.hpp", "Server_.cpp", "Client_.hpp", "Client_.cpp">>

\* `serialization` is the member serializationFile.
Content(kind, intf, serialization) ==
  CASE kind = "RpcHelpers_.hpp" -> Serialization(intf)
    [] kind = "Server_.hpp" -> ServerHeader(intf)
    [] kind = "Server_.cpp" ->
         ServerSource(intf, <<<<"Server_.hpp", intf.name>>, serialization>>)
    [] kind = "Client_.hpp" -> ClientHeader(intf)
    [] kind = "Client_.cpp" ->
         ClientSource(intf, <<<<"Client_.hpp", intf.name>>, serialization>>)

-----------------------------------------------------------------------------
(* What the five files of an interface are for.                            *)

SameFields(params, fields) ==
  /\ Len(params) = Len(fields)
  /\ \A k \in DOMAIN params : /\ params[k].name = fields[k].name
                              /\ params[k].type = fields[k].type

\* A call of the client's method i arrives at the server's method i: they have
\* the same signature, what one encodes the other decodes, in structures that
\* the serialization header declares, and each result takes the way back, from
\* the server's value to the client's by the field of its name.
CallArrives(ser, sh, sc, ch, cc, i) ==
  LET fields(name) == UNION {{ser.structs[k].fields} :
                        k \in {j \in DOMAIN ser.structs : ser.structs[j].name = name}}
      call == ch.methods[i]
      impl == sh.methods[i]
      sent == cc.methods[i]
      got == sc.methods[i]
      structs == {ch.structs[k] : k \in DOMAIN ch.structs}
  IN  /\ call.params = impl.params /\ call.returns = impl.returns
      /\ sent.def.params = call.params /\ got.calls = impl.name
      /\ sent.sends = got.case /\ got.name = sh.marshallers[i]
      /\ sent.encodes = got.decodes /\ sent.arguments = got.arguments
      /\ \E f \in fields(sent.encodes) :
           SameFields(call.params, f) /\ sent.arguments = Names(f)
      /\ sent.decodes = got.encodes
      /\ got.encodes = "" => call.returns = "void"
      /\ got.encodes # "" => \E f \in fields(got.encodes) :
           /\ Len(f) = Len(got.reply) /\ Len(f) = Len(sent.results)
           /\ \A k \in DOMAIN f : /\ got.reply[k][1] = f[k].name
                                 /\ sent.results[k][2] = f[k].name
           /\ Len(f) = 0 => call.returns = "void"
           /\ Len(f) = 1 => /\ call.returns = f[1].type
                            /\ got.reply[1][2] = "retVal" /\ sent.results[1][1] = "return"
           /\ Len(f) > 1 =>
                /\ [name |-> call.returns, fields |-> f] \in structs
                /\ sent.declares = call.returns
                /\ \A k \in DOMAIN f : /\ got.reply[k][2] = "retVal." \o f[k].name
                                      /\ sent.results[k][1] = "r." \o f[k].name

\* The numbers that the label of a method of the server's switch stands for.
CaseLabels(ser, method) ==
  {ser.ids[k][2] : k \in {j \in DOMAIN ser.ids : ser.ids[j][1] = method.case}}

\* The switch of Server::runOne has one method for each number.
CasesDiffer(ser, sc) ==
  /\ \A i \in DOMAIN sc.methods : Cardinality(CaseLabels(ser, sc.methods[i])) = 1
  /\ \A i, j \in DOMAIN sc.methods :
       i # j => CaseLabels(ser, sc.methods[i]) \cap CaseLabels(ser, sc.methods[j]) = {}

\* The files of an interface, by kind, implement the description d.
Implement(f, d) ==
  LET ser == f["RpcHelpers_.hpp"]
      methods == DOMAIN d.methods
  IN  /\ Len(ser.ids) = Len(d.methods) /\ CasesDiffer(ser, f["Server_.cpp"])
      /\ \A i \in methods :
           /\ ser.ids[i] = <<Capital[d.methods[i].name], d.methods[i].identifier>>
           /\ f["Client_.hpp"].methods[i].name = Capital[d.methods[i].name]
           /\ Names(f["Client_.hpp"].methods[i].params) = Names(d.methods[i].params)
           /\ CallArrives(ser, f["Server_.hpp"], f["Server_.cpp"],
                          f["Client_.hpp"], f["Client_.cpp"], i)
      /\ \A kind \in {"Server_.cpp", "Client_.cpp"} :
           /\ f[kind].helpers = (\E i \in methods :
                \E a \in {d.methods[i].params[k] : k \in DOMAIN d.methods[i].params}
                           \cup {d.methods[i].returns[k] : k \in DOMAIN d.methods[i].returns} :
                  ~a.isBuiltin)
           /\ f[kind].headers[2] = <<"RpcHelpers_.hpp", d.name>>
=============================================================================
