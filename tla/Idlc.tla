-------------------------------- MODULE Idlc --------------------------------
(***************************************************************************)
(* The interface compiler (tools/idlc): one run of main over source files, *)
(* up to the files it leaves in the output directory.  A source file is    *)
(* its tokens; white space and comments, which the grammar allows between  *)
(* most of them, are left out.  The grammar needs one token to know what   *)
(* comes next (a rule that fails half way is never followed by another     *)
(* that succeeds), so that parsing is one step for each token, and each    *)
(* step calls the builder as the grammar's actions do.                     *)
(***************************************************************************)
EXTENDS CodeGenerator
LOCAL INSTANCE SequencesExt

CONSTANTS
  MaxFaults,     \* files that cannot be opened (bound)
  CommandLines,  \* [options, files, lost, asserts]: see Tokens and Builder
  Identifiers, TypeNames, Values, Paths   \* words, by where they may stand

ASSUME IdlcAssumption ==
  /\ MaxFaults \in Nat
  /\ \A l \in CommandLines : Len(l.files) \in Nat
  /\ "" \notin Identifiers \cup TypeNames   \* the grammar's are not empty

VARIABLES
  line,        \* the command line and what its files hold
  phase,       \* of main
  status,      \* what main returned, or "abort"
  file, pos,   \* the token to read next
  at,          \* the place in the grammar
  builder,
  interfaces,  \* of all files so far
  written,     \* output files that were opened or not
  serializationFile,  \* of the current CodeGenerator
  output,      \* the output directory: contents by kind and interface name
  unopened     \* history: files that could not be opened

outVars == <<written, serializationFile, output, unopened>>
vars == <<line, phase, status, file, pos, at, builder, interfaces, outVars>>

-----------------------------------------------------------------------------
(* Source files, from syntax trees.  A file is a sequence of includes      *)
(* [include] and interfaces [interface, methods]; a method is [name,       *)
(* decorators, params, async, returns], with arguments [name, type] and    *)
(* decorators [key, value].                                                *)

Commas(parts) ==
  FlattenSeq([i \in DOMAIN parts |-> IF i = 1 THEN parts[i] ELSE <<",">> \o parts[i]])

ArgTokens(args) ==
  <<"(">> \o Commas([i \in DOMAIN args |-> <<args[i].name, ":", args[i].type>>]) \o <<")">>

MethodTokens(m) ==
  <<m.name>>
  \o FlattenSeq([i \in DOMAIN m.decorators |->
                   <<"[", m.decorators[i].key, "=", m.decorators[i].value, "]">>])
  \o ArgTokens(m.params)
  \o (IF m.async THEN <<"=|">> ELSE <<"=>">> \o ArgTokens(m.returns))

ItemTokens(item) ==
  IF "include" \in DOMAIN item THEN <<"#include", "<", item.include, ">">>
  ELSE <<"interface", item.interface, "{">>
       \o FlattenSeq([i \in DOMAIN item.methods |-> MethodTokens(item.methods[i])])
       \o <<"}">>

FileTokens(tree) == FlattenSeq([i \in DOMAIN tree |-> ItemTokens(tree[i])])

\* The files' tokens; of the first file the token `lost` is missing, if any.
Tokens(l) ==
  [i \in DOMAIN l.files |->
     LET all == FileTokens(l.files[i])
     IN  Append(IF i = 1 /\ l.lost > 0 THEN RemoveAt(all, l.lost) ELSE all, "end")]

-----------------------------------------------------------------------------
Parsing == phase = "parse" /\ file <= Len(line.files)
tok == Tokens(line)[file][pos]

Exit(with) == phase' = "exit" /\ status' = with

\* A token that fits: the parser goes on at `to`, after the builder's call.
Take(from, fits, to, b) ==
  /\ Parsing /\ at = from /\ fits
  /\ at' = to /\ pos' = pos + 1
  /\ builder' = b
  /\ IF b.aborted THEN Exit("abort")
     ELSE IF b.thrown THEN Exit("failure")
     ELSE UNCHANGED <<phase, status>>
  /\ UNCHANGED <<line, file, interfaces, outVars>>

\* Tokens that the builder is not told of.
Punctuation ==
  {[from |-> "top", text |-> "#include", to |-> "include"],
   [from |-> "include", text |-> "<", to |-> "path"],
   [from |-> "include end", text |-> ">", to |-> "top"],
   [from |-> "top", text |-> "interface", to |-> "interface name"],
   [from |-> "interface open", text |-> "{", to |-> "member"],
   [from |-> "method", text |-> "[", to |-> "key"],
   [from |-> "equals", text |-> "=", to |-> "value"],
   [from |-> "colon", text |-> ":", to |-> "type"],
   [from |-> "arg end", text |-> ",", to |-> "next arg"]}

Punctuate == \E p \in Punctuation : Take(p.from, tok = p.text, p.to, builder)

IncludePath ==
  Take("path", tok \in Paths, "include end", AddIncludePath(builder, tok))
EmptyPath == Take("path", tok = ">", "top", AddIncludePath(builder, ""))

InterfaceName ==
  Take("interface name", tok \in Identifiers, "interface open",
       BeginInterface(builder, tok))
InterfaceEnd == Take("member", tok = "}", "top", EndInterface(builder))

MethodName ==
  Take("member", tok \in Identifiers, "method", BeginMethod(builder, tok))

DecoratorKey ==
  Take("key", tok \in Identifiers, "equals", SetNextDecoratorKey(builder, tok))
DecoratorValue ==
  Take("value", tok \in Values, "close", SetNextDecoratorValue(builder, tok))
DecoratorClose == Take("close", tok = "]", "method", PushNextDecorator(builder))
EmptyValue ==
  Take("value", tok = "]", "method",
       PushNextDecorator(SetNextDecoratorValue(builder, "")))

ArgsOpen == Take("method", tok = "(", "first arg", BeginMethodParams(builder))
ReturnOpen == Take("return", tok = "(", "first arg", BeginMethodReturns(builder))
ArgName ==
  Take(IF at = "next arg" THEN at ELSE "first arg", tok \in Identifiers, "colon",
       SetNextArgName(builder, tok))
ArgType ==
  Take("type", tok \in TypeNames, "arg end",
       PushNextArg(SetNextArgTypename(builder, tok)))

\* The end of a list: of parameters, or of return values and the method.
ListClose ==
  Take(IF at = "first arg" THEN at ELSE "arg end", tok = ")",
       IF builder.argContext = "Parameter" THEN "arrow" ELSE "member",
       IF builder.argContext = "Parameter" THEN EndMethodParams(builder)
       ELSE EndMethod(EndMethodReturns(builder)))

AsyncMarker ==
  Take("arrow", tok = "=|", "member", EndMethod(SetMethodAsync(builder, TRUE)))
SyncMarker ==
  Take("arrow", tok = "=>", "return", SetMethodAsync(builder, FALSE))

\* A token that does not fit: a parse_error, and parse returns false.
Fits ==
  \/ \E p \in Punctuation : at = p.from /\ tok = p.text
  \/ at = "path" /\ tok \in Paths \cup {">"}
  \/ at \in {"interface name", "key", "next arg"} /\ tok \in Identifiers
  \/ at = "member" /\ tok \in Identifiers \cup {"}"}
  \/ at = "value" /\ tok \in Values \cup {"]"}
  \/ at = "close" /\ tok = "]"
  \/ at \in {"method", "return"} /\ tok = "("
  \/ at = "first arg" /\ tok \in Identifiers \cup {")"}
  \/ at = "arg end" /\ tok = ")"
  \/ at = "type" /\ tok \in TypeNames
  \/ at = "arrow" /\ tok \in {"=|", "=>"}

ParseError ==
  /\ Parsing /\ ~Fits /\ ~(at = "top" /\ tok = "end")
  /\ Exit("failure")
  /\ UNCHANGED <<line, file, pos, at, builder, interfaces, outVars>>

-----------------------------------------------------------------------------
(* main.                                                                   *)

\* The first of "version" and "unknown" on the line decides.
ParseCommandLine ==
  /\ phase = "options"
  /\ \/ "version" \in line.options /\ Exit("success")
     \/ "unknown" \in line.options /\ Exit("failure")
     \/ /\ line.options \cap {"version", "unknown"} = {}
        /\ IF line.files = << >> THEN Exit("failure")
           ELSE phase' = "directory" /\ UNCHANGED status
  /\ UNCHANGED <<line, file, pos, at, builder, interfaces, outVars>>

CreateDirectories ==
  /\ phase = "directory"
  /\ IF "read-only" \in line.options THEN Exit("failure")
     ELSE phase' = "parse" /\ UNCHANGED status
  /\ UNCHANGED <<line, file, pos, at, builder, interfaces, outVars>>

\* Mutant: code is generated after each file.
FileDoneEager ==
  LET found == Finalize(builder)
      names == {found[i].name : i \in DOMAIN found}
  IN  /\ Parsing /\ at = "top" /\ tok = "end"
      /\ interfaces' = interfaces \o found
      /\ output' = [f \in DOMAIN output \cup ({Kinds[1]} \X names) |-> << >>]
      /\ file' = file + 1 /\ pos' = 1 /\ builder' = Builder(line.asserts)
      /\ UNCHANGED <<line, phase, status, at, written, serializationFile, unopened>>

FileDone ==
  /\ Parsing /\ at = "top" /\ tok = "end"
  /\ interfaces' = interfaces \o Finalize(builder)
  /\ file' = file + 1 /\ pos' = 1 /\ builder' = Builder(line.asserts)
  /\ UNCHANGED <<line, phase, status, at, outVars>>

Generating == phase = "parse" /\ file > Len(line.files)
MoreFiles == written < Len(Kinds) * Len(interfaces)

\* The next file of generateSerialization, generateServerStub or
\* generateClientStub.  No stream is looked at after it was opened.
WriteFile(opens) ==
  LET intf == interfaces[written \div Len(Kinds) + 1]
      kind == Kinds[(written % Len(Kinds)) + 1]
      name == <<kind, intf.name>>
  IN  /\ Generating /\ MoreFiles
      /\ opens \/ Cardinality(unopened) < MaxFaults
      /\ serializationFile' = IF kind = Kinds[1] THEN name ELSE serializationFile
      /\ IF opens
         THEN /\ output' = [f \in DOMAIN output \cup {name} |->
                             IF f = name THEN Content(kind, intf, serializationFile')
                             ELSE output[f]]
              /\ UNCHANGED unopened
         ELSE unopened' = unopened \cup {name} /\ UNCHANGED output
      /\ written' = written + 1
      /\ UNCHANGED <<line, phase, status, file, pos, at, builder, interfaces>>

AllWritten ==
  /\ Generating /\ ~MoreFiles
  /\ Exit("success")
  /\ UNCHANGED <<line, file, pos, at, builder, interfaces, outVars>>

Init ==
  /\ line \in CommandLines
  /\ phase = "options" /\ status = "running"
  /\ file = 1 /\ pos = 1 /\ at = "top"
  /\ builder = Builder(line.asserts)
  /\ interfaces = << >>
  /\ written = 0 /\ serializationFile = << >> /\ output = << >> /\ unopened = {}

Next ==
  \/ ParseCommandLine \/ CreateDirectories \/ Punctuate \/ IncludePath \/ EmptyPath
  \/ InterfaceName \/ InterfaceEnd \/ MethodName
  \/ DecoratorKey \/ DecoratorValue \/ DecoratorClose \/ EmptyValue
  \/ ArgsOpen \/ ReturnOpen \/ ArgName \/ ArgType \/ ListClose
  \/ AsyncMarker \/ SyncMarker \/ ParseError \/ FileDone
  \/ (\E opens \in BOOLEAN : WriteFile(opens)) \/ AllWritten

Spec == Init /\ [][Next]_vars

-----------------------------------------------------------------------------
(* What a source file means.                                               *)

MeantArgs(args) == [i \in DOMAIN args |-> Argument(args[i].name, args[i].type)]

Identifier(m) ==
  LET given == {i \in DOMAIN m.decorators : m.decorators[i].key = "identifier"}
  IN  IF given = {} THEN NameHash[m.name]
      ELSE Stoull[m.decorators[CHOOSE i \in given : TRUE].value]

MeantMethod(m) ==
  [name |-> m.name, async |-> m.async, identifier |-> Identifier(m),
   params |-> MeantArgs(m.params),
   returns |-> IF m.async THEN << >> ELSE MeantArgs(m.returns)]

CustomTypes(methods) ==
  LET args(m) == m.params \o m.returns
  IN  Cardinality({c \in UNION {{i} \X DOMAIN args(methods[i]) : i \in DOMAIN methods} :
                     ~args(methods[c[1]])[c[2]].isBuiltin})

MeantInterface(item, includes) ==
  LET methods == [i \in DOMAIN item.methods |-> MeantMethod(item.methods[i])]
  IN  [name |-> item.interface, methods |-> methods, includes |-> includes,
       numCustomTypes |-> CustomTypes(methods)]

\* Includes count for all interfaces of their file.
Meaning(tree) ==
  LET included == SelectSeq(tree, LAMBDA item : "include" \in DOMAIN item)
      includes == [i \in DOMAIN included |-> included[i].include]
      items == SelectSeq(tree, LAMBDA item : "interface" \in DOMAIN item)
  IN  [i \in DOMAIN items |-> MeantInterface(items[i], includes)]

LegalMethod(m) ==
  /\ m.name \notin Underscored
  /\ Identifier(m) # Invalid
  /\ \A i, j \in DOMAIN m.decorators :
       i # j => m.decorators[i].key # m.decorators[j].key

\* Methods of an interface are told apart by their identifiers and, in what is
\* generated, by their names with the first letter in upper case.
Legal(tree) ==
  \A item \in {tree[i] : i \in DOMAIN tree} : "interface" \in DOMAIN item =>
    LET methods == item.methods
    IN  /\ \A i \in DOMAIN methods : LegalMethod(methods[i])
        /\ \A i, j \in DOMAIN methods : i # j =>
             /\ Capital[methods[i].name] # Capital[methods[j].name]
             /\ Identifier(methods[i]) # Identifier(methods[j])

AllMeant == FlattenSeq([i \in DOMAIN line.files |-> Meaning(line.files[i])])

\* Includes aside: a file that has lost one may still be a file.
SameButIncludes(s, t) ==
  [i \in DOMAIN s |-> [s[i] EXCEPT !.includes = << >>]]
    = [i \in DOMAIN t |-> [t[i] EXCEPT !.includes = << >>]]

FilesOf(name) == [k \in {Kinds[i] : i \in DOMAIN Kinds} |-> output[<<k, name>>]]

\* The last interface of a name is the one whose output remains.
Remains(i) == \A j \in DOMAIN interfaces : j > i => interfaces[j].name # interfaces[i].name

\* When the compiler succeeds, the output directory holds for the interfaces
\* that its files describe the five files, which implement the description and
\* fit each other: nothing leaks from one method, interface or file to the
\* next, and a file that has lost a token is not taken for another one.  Legal
\* files are accepted and others refused (idl::Builder, CodeGenerator and
\* main.cpp); for files whose methods share an identifier see IdentifiersUnique.
AsWritten ==
  LET compiles == phase = "exit" /\ line.options = {} /\ line.files # << >>
      legal == \A i \in DOMAIN line.files : Legal(line.files[i])
  IN  compiles =>
        /\ status = "success" =>
             /\ legal /\ SameButIncludes(interfaces, AllMeant)
             /\ unopened = {} => \A i \in {j \in DOMAIN interfaces : Remains(j)} :
                  Implement(FilesOf(interfaces[i].name), AllMeant[i])
        /\ line.lost = 0 /\ legal =>
             /\ status = "success" /\ interfaces = AllMeant
             /\ \A f \in DOMAIN output : f[1] \in {Kinds[1], Kinds[2], Kinds[4]} =>
                  \E i \in DOMAIN AllMeant : /\ AllMeant[i].name = f[2]
                                             /\ output[f].includes = AllMeant[i].includes

\* A method's identifier is "unique in the interface to identify method"
\* (InterfaceDescription.h:133): the server that the compiler leaves behind when it
\* succeeds tells the methods apart by it.
IdentifiersUnique ==
  status = "success" => \A f \in DOMAIN output : f[1] = "Server_.cpp" =>
    LET ser == <<"RpcHelpers_.hpp", f[2]>>
    IN  ser \in DOMAIN output => CasesDiffer(output[ser], output[f])

\* No stub is written when any of the files is refused (main.cpp).
AllOrNothing == status \in {"failure", "abort"} => output = << >>
=============================================================================
