------------------------------ MODULE MCBuilds ------------------------------
(***************************************************************************)
(* A program of three modules, one of which imports the other two.         *)
(***************************************************************************)
EXTENDS Builds

Text(stated, rest) == [stated |-> stated, rest |-> rest]

TheImports == [a |-> <<>>, b |-> <<"a">>, main |-> <<"a", "b">>]

TheSources == [a |-> {"v1", "v2"}, b |-> {"v1", "v2"}, main |-> {"v1"}]

\* The second version adds a declaration, so half of its interface may read
\* as the first.
TheInterface == [v1 |-> Text("one", ""), v2 |-> Text("one two", "")]
TheTexts == {Text("one", ""), Text("one two", "")}
=============================================================================
