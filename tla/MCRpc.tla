------------------------------- MODULE MCRpc --------------------------------
(* The sample interface's kinds of methods, small, for TLC.                *)
EXTENDS Rpc

CONSTANTS c1, c2

\* As in sample/hello.idl, and a method with several results.
Hello ==
  [sayHello2 |-> [async |-> FALSE, params |-> <<"string", "uint32">>,
                  returns |-> <<"string">>],
   dataMsg |-> [async |-> TRUE, params |-> <<"blob">>, returns |-> <<>>],
   poke |-> [async |-> FALSE, params |-> <<>>, returns |-> <<>>],
   split |-> [async |-> FALSE, params |-> <<"bool", "string", "string">>,
              returns |-> <<"string", "uint16", "string">>]]

Number1 == <<1, 2, 3, 4>>

MCCalls ==
  {[method |-> "sayHello2", args |-> <<<<65, 66>>, Number1>>],
   [method |-> "dataMsg", args |-> <<<<1>>>>],
   [method |-> "poke", args |-> <<>>],
   [method |-> "split", args |-> <<<<1>>, <<67>>, <<68, 69>>>>]}

MCResults ==
  [sayHello2 |-> {<<<<>>>>, <<<<70>>>>},
   dataMsg |-> {<<>>},
   poke |-> {<<>>},
   split |-> {<<<<71, 72>>, <<5, 6>>, <<73>>>>}]
=============================================================================
