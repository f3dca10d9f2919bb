---------------------------- MODULE MCAlgorithms ----------------------------
(* Texts of a grammar for the rules, one for what opens and closes, one for *)
(* strings over several lines, one for quoted names and one for EXPLAIN;    *)
(* files with two spellings of a path in two cases, a path below another,   *)
(* reserved ones, the root, and strings and descriptions that are refused;  *)
(* a host name, an address with colons and one that ends like it does with  *)
(* a port, both ports, a tunnel; three tables of which two are fetched and  *)
(* one is published.                                                        *)
EXTENDS Algorithms, TLC

MCGrammars == {[first |-> {"select", "explain", "(", "show"},
                rest |-> {"select", "explain", "analyze", "verbose", "insert", "into", "for", "share",
                          "nextval", "x", "(", ")", ";"}, longest |-> 5],
               [first |-> {"select"},
                rest |-> {"x", "insert", "into", ";", "'", "E", "backslash", "quote", "--", "CR", "LF",
                          "/*", "*/", "$$"}, longest |-> 5],
               [first |-> {"select"}, rest |-> {"x", "E", "'", "--", "LF"}, longest |-> 7],
               [first |-> {"select"}, rest |-> {"nextval", "quote", "("}, longest |-> 6],
               [first |-> {"explain"},
                rest |-> {"explain", "select", "show", "for", "share", "analyze", "(", ")"},
                longest |-> 6]}

MCEntry(path, string, described) ==
    [path |-> path, conn_string |-> string, description |-> described]
MCEntries == {MCEntry(<<"/", "mcp">>, "a", TRUE), MCEntry(<<"mcp", "/">>, "b", TRUE),
              MCEntry(<<" ", "/", "MCP">>, "a", TRUE), MCEntry(<<"/", "db", "/", " ">>, "", TRUE),
              MCEntry(<<"/", "db", "/", "mcp">>, "a", TRUE), MCEntry(<<"db">>, "uri", TRUE),
              MCEntry(<<"/">>, "a", TRUE), MCEntry(<<"/", "API", "/", "mcp">>, "a", TRUE),
              MCEntry(<<"/", "mcp">>, "b", FALSE)}

MCHosts == {<<"db", ".", "internal">>, <<":", ":", "1">>, <<":", ":", "1", ":", "6432">>}
MCPorts == {<<"5432">>, <<"6432">>}
MCTunnels == {<<>>, <<"deploy", "@", "h", ":", "22">>}
MCDatabases == {<<>>, <<"crm">>, <<"CRM">>, <<"crm", "/", "@", "2">>}

Symmetry == Permutations(Relation)

MCSeries == <<"crm", "reporting">>
=============================================================================
