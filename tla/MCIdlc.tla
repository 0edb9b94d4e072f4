------------------------------- MODULE MCIdlc -------------------------------
(***************************************************************************)
(* Source files to check Idlc with, each also with any one token missing.  *)
(***************************************************************************)
EXTENDS Idlc

Arg(name, type) == [name |-> name, type |-> type]
Deco(key, value) == [key |-> key, value |-> value]
Sync(name, decorators, params, returns) ==
  [name |-> name, decorators |-> decorators, params |-> params, async |-> FALSE,
   returns |-> returns]
Async(name, decorators, params) ==
  [Sync(name, decorators, params, << >>) EXCEPT !.async = TRUE]
Intf(name, methods) == [interface |-> name, methods |-> methods]
Include(path) == [include |-> path]

Words == {"interface", "Echo", "Log", "say", "poke", "_hidden", "a", "b", "identifier",
          "fast", "String", "UInt32", "Point"}
MCIdentifiers == Words
MCTypeNames == Words \cup {"ns::Point"}
MCValues == Words \cup {"0x2a", "7", "08"}
MCPaths == Words \cup {"0x2a", "7", "08", "rpc/types.hpp"}
MCLowerCase ==
  [t \in MCTypeNames |-> CASE t = "String" -> "string" [] t = "UInt32" -> "uint32"
                           [] OTHER -> t]
MCNameHash == [n \in Words \cup {""} |->
                 CASE n = "say" -> 11 [] n = "poke" -> 12 [] n = "a" -> 13
                   [] OTHER -> 0]
MCCapital == [n \in Words \cup {""} |->
                CASE n = "say" -> "Say" [] n = "poke" -> "Poke" [] n = "a" -> "A"
                  [] n = "identifier" -> "Identifier" [] OTHER -> n]
MCStoull == [v \in MCValues \cup {""} |->
               CASE v = "0x2a" -> 42 [] v = "7" -> 7 [] v = "08" -> 0
                 [] OTHER -> -1]

Echo ==
  <<Intf("Echo", <<Async("say", <<Deco("identifier", "0x2a"), Deco("fast", "fast")>>,
                         <<Arg("a", "String")>>),
                   Sync("poke", << >>, <<Arg("a", "UInt32"), Arg("b", "ns::Point")>>,
                        <<Arg("b", "Point")>>)>>),
    Include("rpc/types.hpp")>>
Two ==
  <<Include("a"), Intf("Echo", <<Sync("poke", << >>, << >>, << >>)>>), Intf("Log", << >>)>>
Twice ==
  <<Intf("Log", <<Async("a", <<Deco("identifier", "08")>>, << >>),
                  Sync("say", << >>, << >>, << >>), Async("say", << >>, << >>)>>)>>
Hidden == <<Intf("Log", <<Async("_hidden", << >>, << >>)>>)>>
BadNumber == <<Intf("Log", <<Async("a", <<Deco("identifier", "fast")>>, << >>)>>)>>
BadKeys == <<Intf("Log", <<Async("a", <<Deco("fast", "7"), Deco("fast", "7")>>, << >>)>>)>>
SameId ==
  <<Intf("Log", <<Async("a", <<Deco("identifier", "7")>>, << >>),
                  Async("say", <<Deco("identifier", "7")>>, << >>)>>)>>

Run(options, files, lost, asserts) ==
  [options |-> options, files |-> files, lost |-> lost, asserts |-> asserts]
Damaged(files) ==
  {Run({}, files, k, a) : k \in 0 .. Len(FileTokens(files[1])), a \in BOOLEAN}

MCCommandLines ==
  UNION {Damaged(<<Echo, Two>>), Damaged(<<Two, Echo>>), Damaged(<<Twice>>)}
  \cup {Run({}, files, 0, TRUE) : files \in {<<Two, Hidden>>, <<BadNumber, Two>>,
                                       <<Echo, BadKeys>>, << >>}}
  \cup {Run({"read-only"}, <<Two>>, 0, TRUE), Run({}, <<Two, Two>>, 0, TRUE)}
  \cup {Run({"version"}, <<Two>>, 0, TRUE), Run({"unknown"}, <<Two>>, 0, TRUE)}

\* Two methods that are given the same number.
SameIdLines == {Run({}, <<SameId>>, 0, TRUE)}
=============================================================================
