----------------------------- MODULE IdlBuilder -----------------------------
(***************************************************************************)
(* What the interface compiler's parser calls: idl::Builder, which gathers *)
(* interface descriptions.  A builder is a record of the class's fields;   *)
(* `thrown` is set when a call threw an exception and `aborted` when an    *)
(* assertion failed.  Strings are compared only, except for the classes of *)
(* strings that the constants name.                                        *)
(***************************************************************************)
EXTENDS Integers, Sequences, FiniteSets
LOCAL INSTANCE SequencesExt

CONSTANTS
  Underscored,   \* names that begin with an underscore
  LowerCase,     \* LowerCase[t] is t in lower case
  NameHash,      \* NameHash[n] is the hash of a method's name
  Stoull         \* Stoull[v] is the number that v spells, or Invalid

Invalid == -1

gPrimitiveTypeNames ==
  {"bool", "int8", "int16", "int32", "int64", "uint8", "uint16", "uint32", "uint64",
   "float32", "float64", "string", "blob"}

Argument(name, type) ==
  LET isBuiltin == LowerCase[type] \in gPrimitiveTypeNames
  IN  [name |-> name, type |-> type, isBuiltin |-> isBuiltin,
       isPrimitive |-> isBuiltin /\ LowerCase[type] \notin {"string", "blob"}]

Method(name) ==
  [name |-> name, async |-> FALSE, identifier |-> NameHash[name],
   params |-> << >>, returns |-> << >>]

Interface(name) ==
  [name |-> name, methods |-> << >>, includes |-> << >>, numCustomTypes |-> 0]

NoInterface == Interface("")
NoMethod == [Method("") EXCEPT !.identifier = 0]

\* `asserts` tells whether the build checks assertions.
Builder(asserts) ==
  [asserts |-> asserts, current |-> NoInterface, currentMethod |-> NoMethod,
   argContext |-> "None", nextArgName |-> "", nextArgTypename |-> "", nextDecoratorKey |-> "",
   nextDecoratorValue |-> "", decorators |-> << >>, includes |-> << >>,
   allIds |-> << >>, thrown |-> FALSE, aborted |-> FALSE]

Throw(b) == [b EXCEPT !.thrown = TRUE]
Abort(b) == [b EXCEPT !.aborted = TRUE]

-----------------------------------------------------------------------------
BeginInterface(b, name) == [b EXCEPT !.current = Interface(name)]

EndInterface(b) ==
  [b EXCEPT !.allIds = Append(@, b.current), !.current = NoInterface]

BeginMethod(b, name) ==
  IF \/ name \in Underscored
     \/ \E i \in DOMAIN b.current.methods : b.current.methods[i].name = name
  THEN Throw(b)
  ELSE [b EXCEPT !.currentMethod = Method(name)]

SetMethodAsync(b, isAsync) == [b EXCEPT !.currentMethod.async = isAsync]

\* The decorators' values by key.
Decorator(b, key) ==
  {b.decorators[i].value : i \in {j \in DOMAIN b.decorators : b.decorators[j].key = key}}

\* Mutant: the decorators are left for the next method.
EndMethodKeeping(b) ==
  LET numbers == {Stoull[v] : v \in Decorator(b, "identifier")}
      method == IF numbers = {} THEN b.currentMethod
                ELSE [b.currentMethod EXCEPT !.identifier = CHOOSE n \in numbers : TRUE]
  IN  IF Invalid \in numbers THEN Throw(b)
      ELSE [b EXCEPT !.current.methods = Append(@, method), !.currentMethod = NoMethod]

EndMethod(b) ==
  LET numbers == {Stoull[v] : v \in Decorator(b, "identifier")}
      method == IF numbers = {} THEN b.currentMethod
                ELSE [b.currentMethod EXCEPT !.identifier = CHOOSE n \in numbers : TRUE]
  IN  IF Invalid \in numbers THEN Throw(b)
      ELSE [b EXCEPT !.current.methods = Append(@, method), !.currentMethod = NoMethod,
                     !.decorators = << >>]

BeginMethodParams(b) == [b EXCEPT !.argContext = "Parameter"]
EndMethodParams(b) == [b EXCEPT !.argContext = "None"]
BeginMethodReturns(b) == [b EXCEPT !.argContext = "Return"]
EndMethodReturns(b) == [b EXCEPT !.argContext = "None"]

SetNextArgName(b, name) == [b EXCEPT !.nextArgName = name]
SetNextArgTypename(b, name) == [b EXCEPT !.nextArgTypename = name]

PushNextArg(b) ==
  LET arg == Argument(b.nextArgName, b.nextArgTypename)
      c == [b EXCEPT !.current.numCustomTypes = IF arg.isBuiltin THEN @ ELSE @ + 1,
                     !.nextArgName = "", !.nextArgTypename = ""]
  IN  IF b.argContext = "Parameter"
      THEN [c EXCEPT !.currentMethod.params = Append(@, arg)]
      ELSE [c EXCEPT !.currentMethod.returns = Append(@, arg)]

SetNextDecoratorKey(b, key) == [b EXCEPT !.nextDecoratorKey = key]
SetNextDecoratorValue(b, value) == [b EXCEPT !.nextDecoratorValue = value]

\* The grammar lets a value be empty; only an assertion is against it.
PushNextDecorator(b) ==
  IF b.asserts /\ b.nextDecoratorValue = "" THEN Abort(b)
  ELSE IF Decorator(b, b.nextDecoratorKey) # {} THEN Throw(b)
  ELSE [b EXCEPT !.decorators = Append(@, [key |-> b.nextDecoratorKey,
                                           value |-> b.nextDecoratorValue]),
                 !.nextDecoratorKey = "", !.nextDecoratorValue = ""]

AddIncludePath(b, path) == [b EXCEPT !.includes = Append(@, path)]

\* The interfaces that finalize hands out.
Finalize(b) == [i \in DOMAIN b.allIds |-> [b.allIds[i] EXCEPT !.includes = b.includes]]
=============================================================================
