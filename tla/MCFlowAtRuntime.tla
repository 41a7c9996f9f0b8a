-------------------------- MODULE MCFlowAtRuntime ---------------------------
(***************************************************************************)
(* Component Foo: its generated base, which derives from the framework's,  *)
(* the class FooImpl that derives from it directly or through Mid, a class *)
(* Sub derived from FooImpl, a helper class Util, in three units in either *)
(* order. FooImpl's handler calls a helper of its own, virtually or not,   *)
(* and Util through a pointer or in a way that cannot be resolved; the     *)
(* helper may call itself and Util; Util may call back, or have no body;   *)
(* the helper may have an overload in its own unit or in another; the base *)
(* may have a handler too; Sub overrides the helper, or both.              *)
(***************************************************************************)
EXTENDS FlowAtRuntime, TLC

MCClass == {"Framework", "Base", "Mid", "FooImpl", "Sub", "Util"}
MCMethod == {"in_handler", "help", "f"}
MCPort == {"p", "q", "r"}
MCMember == {<<"Base", "b">>, <<"FooImpl", "x">>, <<"Util", "y">>}
MCComponentOf == "Base" :> "Foo" @@ "Framework" :> "Passive"
MCSuffixed ==
  [c \in MCClass \cup {"Foo", "Passive"} |-> IF c = "Foo" THEN <<"Foo", "FooImpl">> ELSE <<c>>]

MCCall(h, c, m) == [how |-> h, to |-> <<c, m>>]
MCBody(k, calls, ports, reads, writes) ==
  [key |-> k, calls |-> calls, ports |-> ports, reads |-> reads, writes |-> writes]

MCHandler(calls) ==
  MCBody(<<"FooImpl", "in_handler">>, calls, {}, {<<"FooImpl", "x">>, <<"Base", "b">>}, {})
MCHelp(calls) ==
  MCBody(<<"FooImpl", "help">>, calls, {"p"}, {}, {<<"FooImpl", "x">>})
MCOverload == MCBody(<<"FooImpl", "help">>, {}, {"q"}, {<<"FooImpl", "x">>}, {<<"Base", "b">>})
MCBaseHandler == MCBody(<<"Base", "in_handler">>, {}, {"q"}, {}, {<<"Base", "b">>})
MCSubHandler ==
  MCBody(<<"Sub", "in_handler">>, {MCCall("method", "FooImpl", "in_handler")}, {"r"}, {}, {})
MCSubHelp == MCBody(<<"Sub", "help">>, {}, {"r"}, {}, {})
MCUtil(calls) == MCBody(<<"Util", "f">>, calls, {"r"}, {}, {<<"Util", "y">>})

MCProgram(hcalls, kcalls, base, here, there, inBase, sub, util) ==
  [ units |-> LET impl == {MCHandler(hcalls), MCHelp(kcalls)} \cup here
              IN  IF inBase = {} THEN <<util \cup there, sub \cup inBase, impl>>
                  ELSE <<impl, sub \cup inBase, util \cup there>>,
    base |-> [c \in MCClass |-> CASE c = "Base" -> "Framework" [] c = "Mid" -> "Base"
                                  [] c = "FooImpl" -> base [] c = "Sub" -> "FooImpl"
                                  [] OTHER -> NoClass] ]

MCPrograms ==
  { MCProgram(hcalls, kcalls, base, over[1], over[2], inBase, sub, util) :
      hcalls \in { {MCCall("method", "FooImpl", "help")}, {MCCall("virtual", "FooImpl", "help")},
                   {MCCall("pointer", "Util", "f"), MCCall("method", "FooImpl", "help")},
                   {MCCall("unresolved", "Util", "f")} },
      kcalls \in { {}, {MCCall("method", "Util", "f"), MCCall("method", "FooImpl", "help")} },
      base \in {"Base", "Mid"},
      over \in {<<{}, {}>>, <<{MCOverload}, {}>>, <<{}, {MCOverload}>>},
      inBase \in {{}, {MCBaseHandler}},
      sub \in {{}, {MCSubHelp}, {MCSubHandler, MCSubHelp}},
      util \in {{}, {MCUtil({})}, {MCUtil({MCCall("method", "FooImpl", "help")})}} }
=============================================================================
