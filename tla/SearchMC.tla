------------------------------ MODULE SearchMC ------------------------------
(* The instance of Search that TLC explores: constants a .cfg cannot hold.  *)
EXTENDS Search

A(name, type, scope) == [name |-> name, type |-> type, scope |-> scope]

\* "name" is also the name of a static field, a key may hold characters an
\* identifier of the query language does not, and the last entry is invalid.
MCAttributes == <<A(<<"team">>, "string", "resource"), A(<<"Name">>, "bool", "span"),
                  A(<<"db", "/", "system">>, "string", "span"), A(<<"x">>, "", "span")>>

MCDictionary == {[name |-> <<"team">>, scope |-> "resource", value |-> "'Mercedes'"],
                 [name |-> <<"db", "/", "system">>, scope |-> "span", value |-> "'Mercedes'"],
                 [name |-> <<"f1">>, scope |-> "datapoint", value |-> "'Mercedes'"]}

MCPhrases == {<<"name">>, <<"duration", ">">>, <<"'null'">>, <<"=">>, <<"=~">>,
              <<"NOT">>, <<"IN">>, <<"OR">>, <<"AND">>, <<"(">>, <<")">>, <<"]">>,
              <<"name", "=", "'Red Bull'">>, <<"kind", "=", "Server", "OR">>,
              <<"(", "name", "=", "'Red Bull'", "AND">>, <<"scope.name", "=", "NULL", ")">>,
              <<"kind", "IN", "[">>, <<"1s", ",">>, <<"Server", "]">>,
              <<"scope.name", "=", "NULL", "AND", "team">>}
=============================================================================
