----------------------------- MODULE Endpoints ------------------------------
(***************************************************************************)
(* ServerEndpoint (src/settings.rs): which server and which database a     *)
(* connection string leads to.  The pages group mounts by the key, and     *)
(* what two mounts read of one database must not be counted twice.         *)
(*                                                                         *)
(* A connection string is a sequence of pieces: marks, blanks and words.   *)
(* `meant` is the endpoint somebody had in mind, `conn_string` one of the  *)
(* ways to write it down that the driver accepts.  Values with blanks in   *)
(* them, blanks around "=" and percent-encoding are not among them.        *)
(***************************************************************************)
EXTENDS Integers, Sequences, Functions

CONSTANTS Hosts,      \* host names and addresses in lower case, as sequences of pieces
          Ports,      \* the ports, DEFAULT_PORT among them
          Tunnels,    \* what ssh may name; <<>>: no tunnel
          Databases   \* database names; <<>>: none is given

VARIABLES meant, conn_string
endpointVars == <<meant, conn_string>>

Blank == " "
Capital == {"HOST", "SSH", "DB"}

\* No part holds what ends it in a connection string: a host is a name or an
\* address (a socket's directory is not among them), a port is digits, a tunnel
\* is user@host:port, a database may have a "/" or an "@" in its name.
Quotes == {Blank, "'", "quote"}
Lacks(s, pieces) == Range(s) \cap pieces = {}
ASSUME EndpointsAssumption ==
    /\ Hosts \cup Ports \cup Tunnels \cup Databases \subseteq Seq(STRING)
    /\ <<>> \notin Hosts \cup Ports
    /\ \A host \in Hosts : Lacks(host, Quotes \cup Capital \cup {"@", "/", "?", ",", "[", "]", "://"})
    /\ \A port \in Ports : Lacks(port, Quotes \cup {"@", "/", "?", ",", ":"})
    /\ \A ssh \in Tunnels : Lacks(ssh, Quotes \cup {"/", "&"})
    /\ \A dbname \in Databases : Lacks(dbname, Quotes \cup {"?"})

DEFAULT_PORT == <<"5432">>
UNKNOWN_HOST == <<"unknown">>

\* <<>> stands for None.
ServerEndpoint == [host : Hosts, port : Ports, ssh : Tunnels, dbname : Databases]

-----------------------------------------------------------------------------
(* Strings.                                                                *)

SmallOf(piece) == CASE piece = "HOST" -> "host" [] piece = "SSH" -> "ssh" [] piece = "DB" -> "db"
                    [] OTHER -> piece
ToLowercase(s) == [i \in DOMAIN s |-> SmallOf(s[i])]

FirstOf(places) == CHOOSE i \in places : \A j \in places : i <= j
LastOf(places) == CHOOSE i \in places : \A j \in places : j <= i

\* split_once and rsplit_once: what stands before and after the mark, and
\* whether it is there.
SplitAt(s, i) == [found |-> TRUE, left |-> SubSeq(s, 1, i - 1), right |-> SubSeq(s, i + 1, Len(s))]
NotFound(s) == [found |-> FALSE, left |-> s, right |-> <<>>]
SplitOnce(s, mark) ==
    IF mark \in Range(s) THEN SplitAt(s, FirstOf({i \in DOMAIN s : s[i] = mark})) ELSE NotFound(s)
RSplitOnce(s, mark) ==
    IF mark \in Range(s) THEN SplitAt(s, LastOf({i \in DOMAIN s : s[i] = mark})) ELSE NotFound(s)

\* split, and split_whitespace for the blank: the parts, some of them empty,
\* under the places where they begin.
Split(s, mark) ==
    [i \in {i \in 1..Len(s) + 1 : i = 1 \/ s[i - 1] = mark} |-> SplitOnce(SubSeq(s, i, Len(s)), mark).left]

TrimMatches(s, mark) ==
    LET kept == {i \in DOMAIN s : s[i] # mark} IN
    IF kept = {} THEN <<>> ELSE SubSeq(s, FirstOf(kept), LastOf(kept))

OrElse(value, default) == IF value = <<>> THEN default ELSE value

-----------------------------------------------------------------------------
(* ServerEndpoint::parse.                                                  *)

\* Mistake: hostaddr names the server as well as host does.
HostKeysEither == {<<"host">>, <<"hostaddr">>}

HostKeys == {<<"host">>}

KeyOf(token) == ToLowercase(SplitOnce(token, "=").left)
ValueOf(token) == TrimMatches(TrimMatches(SplitOnce(token, "=").right, "'"), "quote")

\* Where the tokens with one of the keys are; one that is no pair, or has no
\* value, is passed over.
PlacesOf(tokens, keys) == {i \in DOMAIN tokens : KeyOf(tokens[i]) \in keys /\ ValueOf(tokens[i]) # <<>>}
FirstValue(tokens, keys) ==
    IF PlacesOf(tokens, keys) = {} THEN <<>> ELSE ValueOf(tokens[FirstOf(PlacesOf(tokens, keys))])
LastValue(tokens, keys) ==
    IF PlacesOf(tokens, keys) = {} THEN <<>> ELSE ValueOf(tokens[LastOf(PlacesOf(tokens, keys))])

\* The first host counts, and the last of the others.
ParseKeywordValue(s) ==
    LET tokens == Split(s, Blank) IN
    [host |-> OrElse(ToLowercase(FirstValue(tokens, HostKeys)), UNKNOWN_HOST),
     port |-> OrElse(LastValue(tokens, {<<"port">>}), DEFAULT_PORT),
     ssh |-> LastValue(tokens, {<<"ssh">>}), dbname |-> LastValue(tokens, {<<"dbname">>})]

\* The password may hold an "@": the host stands after the last one.
WithoutCredentials(authority) ==
    LET cut == RSplitOnce(authority, "@") IN IF cut.found THEN cut.right ELSE authority

\* A bracketed address keeps its colons.
HostAndPort(authority) ==
    IF authority # <<>> /\ authority[1] = "["
    THEN LET cut == SplitOnce(Tail(authority), "]") IN
         [left |-> cut.left,
          right |-> IF cut.right # <<>> /\ cut.right[1] = ":" THEN Tail(cut.right) ELSE <<>>]
    ELSE SplitOnce(authority, ":")

\* The first parameter called ssh, in whatever case.
SshParameter(query) ==
    LET pairs == {i \in DOMAIN query : SplitOnce(query[i], "=").found /\ KeyOf(query[i]) = <<"ssh">>}
    IN IF pairs = {} THEN <<>> ELSE SplitOnce(query[FirstOf(pairs)], "=").right

\* The query comes off first, then the path, then the credentials, then the
\* alternate hosts.
ParseUri(s) ==
    LET query == SplitOnce(SplitOnce(s, "://").right, "?")
        path == SplitOnce(query.left, "/")
        host == HostAndPort(SplitOnce(WithoutCredentials(path.left), ",").left)
    IN [host |-> OrElse(ToLowercase(host.left), UNKNOWN_HOST), port |-> OrElse(host.right, DEFAULT_PORT),
        ssh |-> SshParameter(Split(query.right, "&")), dbname |-> path.right]

IsUri(s) == Len(s) > 1 /\ s[1] \in {"postgres", "postgresql"} /\ s[2] = "://"
Parse(s) == LET trimmed == TrimMatches(s, Blank) IN
            IF IsUri(trimmed) THEN ParseUri(trimmed) ELSE ParseKeywordValue(trimmed)

Key(e) == (IF e.ssh = <<>> THEN <<>> ELSE <<"ssh", "://">> \o e.ssh \o <<"/">>)
          \o e.host \o <<":">> \o e.port

\* <<>>: no database is named, so none is known to be the same.
DatabaseKey(e) == IF e.dbname = <<>> THEN <<>> ELSE Key(e) \o <<"/">> \o e.dbname

Label(e) == e.host \o (IF e.port = DEFAULT_PORT THEN <<>> ELSE <<":">> \o e.port)
            \o (IF e.ssh = <<>> THEN <<>> ELSE <<Blank, "(via", Blank, "ssh", Blank>> \o e.ssh \o <<")">>)

\* What GET /api/Stats says of the server of a mount.
ServerEndpointModel(e) == [key |-> Key(e), label |-> Label(e), database_key |-> DatabaseKey(e)]

-----------------------------------------------------------------------------
(* The ways to write an endpoint down.                                     *)

Capitals(s) == [i \in DOMAIN s |-> IF s[i] = "db" THEN "DB" ELSE s[i]]

\* A value that is given, or the item left out.
Pair(key, value) == <<key, "=">> \o value
Item(key, value) == IF value = <<>> THEN <<>> ELSE <<Blank>> \o Pair(key, value)
PortWritten(e) == {e.port} \cup (IF e.port = DEFAULT_PORT THEN {<<>>} ELSE {})

\* The items in one order and in the other, the key of the host in both cases.
KeywordForm(e, addr, key, host, port) ==
    Item("hostaddr", addr) \o Item(key, host) \o Item("password", <<"p", "=", "@", "q">>)
    \o Item("port", port) \o Item("ssh", e.ssh) \o Item("dbname", e.dbname)
KeywordFormBackwards(e, addr, key, host, port) ==
    Item("dbname", e.dbname) \o Item("ssh", e.ssh) \o Item("port", port)
    \o Item("password", <<"p", "=", "@", "q">>) \o Item(key, host) \o Item("hostaddr", addr)
HostQuoted(host) == {Capitals(host), <<"'">> \o host \o <<"'">>}
KeywordForms(e) ==
    UNION {{KeywordForm(e, addr, key, host, port), KeywordFormBackwards(e, addr, key, host, port)} :
           addr \in {<<>>, <<"10.0.0.7">>}, key \in {"host", "HOST"}, port \in PortWritten(e),
           host \in HostQuoted(e.host)}

Prefixed(mark, s) == IF s = <<>> THEN <<>> ELSE <<mark>> \o s
Suffixed(s, mark) == IF s = <<>> THEN <<>> ELSE s \o <<mark>>
HostWritten(host) == IF ":" \in Range(host) THEN <<"[">> \o host \o <<"]">> ELSE Capitals(host)
Parameters(e) ==
    {Pair("options", <<"/", "@">>) \o (IF e.ssh = <<>> THEN <<>> ELSE <<"&">> \o Pair(key, e.ssh)) :
     key \in {"ssh", "SSH"}}
    \cup (IF e.ssh = <<>> THEN {<<>>} ELSE {})

UriForm(e, scheme, credentials, port, others, parameters) ==
    <<Blank, scheme, "://">> \o Suffixed(credentials, "@") \o HostWritten(e.host) \o Prefixed(":", port)
        \o Prefixed(",", others) \o Prefixed("/", e.dbname) \o Prefixed("?", parameters)
UriForms(e) ==
    {UriForm(e, scheme, credentials, port, others, parameters) :
     scheme \in {"postgres", "postgresql"}, port \in PortWritten(e),
     credentials \in {<<>>, <<"u">>, <<"u", ":", "p", "@", "q">>},
     others \in {<<>>, <<"db", "2", ":", "5432">>}, parameters \in Parameters(e)}

EndpointInit == meant \in ServerEndpoint /\ conn_string \in KeywordForms(meant) \cup UriForms(meant)

-----------------------------------------------------------------------------
(* Properties.                                                             *)

SameServer(e, f) == <<e.host, e.port, e.ssh>> = <<f.host, f.port, f.ssh>>

\* An address with colons, written without its port, ends like one with a port.
LabelTells(e) == ":" \notin Range(e.host) \/ e.port # DEFAULT_PORT

\* A server has one card and a database is counted once: however an endpoint is
\* written - as words in any order or as a URI, with or without the port
\* everybody uses, with credentials and parameters full of marks - it has the
\* key of that server and of no other, and the key of that database and of no
\* other, and none when no database is named; its label is that of the server,
\* and of no other whose label ends where its host or its port ends (parse,
\* key, database_key, label).
OneCardPerServer ==
    conn_string # <<>> =>
    LET read == ServerEndpointModel(Parse(conn_string)) IN
    \A other \in ServerEndpoint :
        LET model == ServerEndpointModel(other)
            sameDatabase == SameServer(meant, other) /\ meant.dbname = other.dbname
                            /\ meant.dbname # <<>>
        IN /\ (read.key = model.key) <=> SameServer(meant, other)
           /\ SameServer(meant, other) => read.label = model.label
           /\ read.label = model.label /\ LabelTells(meant) /\ LabelTells(other) => SameServer(meant, other)
           /\ (read.database_key = model.database_key /\ read.database_key # <<>>) <=> sameDatabase

\* What the comment on label says: the label tells servers apart as well as host
\* and port do, although the port everybody uses is left off (label).
LabelTellsServers ==
    conn_string # <<>> =>
    \A other \in ServerEndpoint :
        Label(Parse(conn_string)) = Label(other) => SameServer(meant, other)
=============================================================================
