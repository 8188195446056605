------------------------------ MODULE MCRouter ------------------------------
(* Patterns that overlap and all short paths.                              *)
EXTENDS Router

CONSTANT MaxPath   \* length of the paths

MCPatterns ==
  { <<"/">>,
    <<"/", "a">>,
    <<"/", ":", "x">>,
    <<"/", "a", "/", "{", "x", "}">>,
    <<"/", ":", "x", "/", ":", "x">>,
    <<"/", ":", "x", "/", "a">>,
    <<"/", ":", "x", "/", "*", "y">>,
    <<"/", "*", "y">>,
    <<"/", "*", "y", "/">>,
    <<"/", "a", "/", "*", "y", "/", "a">> }

MCPaths ==
  {<<"/">> \o t : t \in UNION {[1..n -> {"/", "a", "b"}] : n \in 0..(MaxPath - 1)}}
    \union {<<"/", "a", "?", "/">>, <<"?", "a">>, <<"a", "/">>, <<>>}
=============================================================================
