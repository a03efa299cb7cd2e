------------------------------- MODULE MC_Url -------------------------------
(***************************************************************************)
(* TLC instance of Url: two URLs held at once, strings over a, A, b, B, 1, *)
(* ':' and '/', and parse inputs that reach every Parse outcome.           *)
(***************************************************************************)
EXTENDS Url

MCChars == {"a", "A", "b", "B", "1", ":", "/"}

MCSchemes == {"", "acc", "http"}

MCUsers ==
  {NoUser,
   [name |-> <<"a">>, pw |-> <<>>, set |-> TRUE],
   [name |-> <<"a">>, pw |-> <<"b">>, set |-> TRUE]}

MCHosts == {<<>>, <<":", "1">>, <<"a">>, <<"A">>, <<"a", "b">>, <<"a", ":", "1">>}

MCPaths == {<<>>, <<"/">>, <<"/", "b">>, <<"/", "B">>}

MCSegments == {<<>>, <<"b">>, <<"/", "b">>, <<"b", "/">>}
=============================================================================
