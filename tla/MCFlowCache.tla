---------------------------- MODULE MCFlowCache -----------------------------
(***************************************************************************)
(* Two translation units that share a header, one of which includes the    *)
(* header generated for its component; a database that lists both and one  *)
(* that passes the first other arguments.                                  *)
(***************************************************************************)
EXTENDS FlowCache, TLC

CONSTANTS r1, r2, s, t, plain, ac

MCRun == {r1, r2}
MCOneRun == {r1}
MCSource == {s, t}
MCHeader == {plain, ac}
MCGenerated == {ac}
MCIncludes == (s :> {plain, ac}) @@ (t :> {plain})
MCDatabases ==
  {<<[source |-> s, args |-> "-O0"], [source |-> t, args |-> "-O0"]>>,
   <<[source |-> s, args |-> "-DUT"], [source |-> t, args |-> "-O0"]>>}
MCNone == {}
MCRemovable == {s, plain, ac}
=============================================================================
