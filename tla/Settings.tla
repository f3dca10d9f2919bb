------------------------------ MODULE Settings ------------------------------
(***************************************************************************)
(* src/settings.rs, src/app/app_ctx.rs and src/http_server/startup.rs:     *)
(* which databases a settings file mounts, where their paths lead, and     *)
(* which connection string a mount connects with.                          *)
(*                                                                         *)
(* The mounts are fixed when the server starts.  The file may be edited    *)
(* while it runs: it is read anew on every connect, and it is not          *)
(* validated again.                                                        *)
(***************************************************************************)
EXTENDS Integers, Sequences, SequencesExt

CONSTANTS Entries,   \* what the file may hold: [path, conn_string, description]
          MaxFile,   \* how many entries it has at most
          MaxEdits   \* bound on the edits in one run

(* A path is spelled as a sequence of "/", " " and segments.  A connection *)
(* string is "", "uri" (the URI form) or a name.                           *)
Spelling == {e.path : e \in Entries}

Unit == {"/"} \cup UNION {ToSet(path) : path \in Spelling}

\* Blanks stand around a path, not inside it: no request carries one there.
ASSUME EntriesAssumption ==
    /\ MaxFile \in Nat
    /\ \A path \in Spelling :
          /\ path \in Seq(Unit)
          /\ \A i \in DOMAIN path : path[i] = " " =>
                \/ \A j \in 1..i : path[j] = " "
                \/ \A j \in i..Len(path) : path[j] = " "

VARIABLES file,      \* SettingsModel.databases as it now stands on disk
          mounts,    \* AppContext.databases, empty while the server is down
          connected, \* the string each mount connected with last, "" before
          edits,     \* bound
          named      \* path and string of every entry the file has had since
                     \* the start (history variable)

settingsVars == <<file, mounts, connected, edits, named>>

-----------------------------------------------------------------------------
(* Paths.                                                                  *)

\* str::trim and trim_end_matches('/').
DropLast(p, units) == LET keep == {i \in DOMAIN p : p[i] \notin units} IN
                      IF keep = {} THEN <<>> ELSE SubSeq(p, 1, CHOOSE i \in keep : \A j \in keep : j <= i)
Trim(p) == Reverse(DropLast(Reverse(DropLast(p, {" "})), {" "}))

NormalizePath(path) == LET p == DropLast(Trim(path), {"/"}) IN
                       IF p # <<>> /\ p[1] = "/" THEN p ELSE <<"/">> \o p

\* to_lowercase, which is also what eq_ignore_ascii_case compares.
LowerCase == [API |-> "api", MCP |-> "mcp"]
Lower(p) == [i \in DOMAIN p |-> IF p[i] \in DOMAIN LowerCase THEN LowerCase[p[i]] ELSE p[i]]
PathsAreEqual(left, right) == Lower(left) = Lower(right)

\* RESERVED_PREFIXES: the prefix itself and everything under it.
Under(prefix, p) == Len(p) >= 2 /\ SubSeq(p, 1, 2) = <<"/", prefix>> /\ (Len(p) = 2 \/ p[3] = "/")
Reserved(p) == \E prefix \in {"api", "swagger"} : Under(prefix, Lower(p))

-----------------------------------------------------------------------------
(* get_mounts: all the entries of the file, or none.                       *)

\* Mistake: only the prefix itself is reserved.
ValidButUnder(e) == /\ NormalizePath(e.path) # <<"/">>
                    /\ NormalizePath(e.path) \notin {<<"/", "api">>, <<"/", "swagger">>}
                    /\ e.conn_string \notin {"", "uri"} /\ e.description

Valid(e) == /\ NormalizePath(e.path) # <<"/">> /\ ~Reserved(NormalizePath(e.path))
            /\ e.conn_string \notin {"", "uri"} /\ e.description

Distinct(entries) == \A i, j \in DOMAIN entries :
    i # j => ~PathsAreEqual(NormalizePath(entries[i].path), NormalizePath(entries[j].path))

GetMounts(entries) ==
    IF entries # <<>> /\ (\A i \in DOMAIN entries : Valid(entries[i])) /\ Distinct(entries)
    THEN [i \in DOMAIN entries |-> [path |-> NormalizePath(entries[i].path),
                                    conn_string |-> entries[i].conn_string]]
    ELSE <<>>

\* The first that matches, 0 if none does.
First(S) == IF S = {} THEN 0 ELSE CHOOSE i \in S : \A j \in S : i <= j

\* AppContext::get_db: what the admin API takes a path for.
GetDb(path) == First({i \in DOMAIN mounts : PathsAreEqual(mounts[i].path, NormalizePath(path))})

\* setup_server: the middlewares in their order, the controllers and swagger
\* first; -1 stands for those, 0 for the static files, which answer the rest.
Route(path) == IF Reserved(path) THEN -1
               ELSE First({i \in DOMAIN mounts : PathsAreEqual(mounts[i].path, path)})

-----------------------------------------------------------------------------
(* The connection string of a mount.                                       *)

\* find_conn_string: the first entry of that path in the file as it is now.
Entry(entries, path) ==
    First({i \in DOMAIN entries : PathsAreEqual(NormalizePath(entries[i].path), path)})
FindConnString(entries, path) == IF Entry(entries, path) = 0 THEN ""
                                 ELSE entries[Entry(entries, path)].conn_string

\* Mistake: the place in the file is taken for the mount.
ConnStringAt(i) == IF i <= Len(file) /\ file[i].conn_string # "" THEN file[i].conn_string
                   ELSE mounts[i].conn_string

\* get_connection_string: a path that is gone, or whose string is empty, falls
\* back to what it was when the server started.
ConnString(i) == LET live == FindConnString(file, mounts[i].path) IN
                 IF live # "" THEN live ELSE mounts[i].conn_string

-----------------------------------------------------------------------------
Files == UNION {[1..n -> Entries] : n \in 0..MaxFile}
Names(entries) == {<<Lower(NormalizePath(entries[i].path)), entries[i].conn_string>> : i \in DOMAIN entries}

SettingsInit == /\ file \in Files /\ edits = 0 /\ mounts = <<>> /\ connected = <<>> /\ named = {}

\* A file that cannot be mounted stops the boot.
Start == /\ mounts = <<>> /\ mounts' = GetMounts(file)
         /\ mounts' # <<>> /\ connected' = [i \in DOMAIN file |-> ""] /\ named' = Names(file)
         /\ UNCHANGED <<file, edits>>

Edit(entries) == /\ edits < MaxEdits /\ edits' = edits + 1
                 /\ file' = entries
                 /\ named' = IF mounts = <<>> THEN {} ELSE named \cup Names(entries)
                 /\ UNCHANGED <<mounts, connected>>

\* The driver opens a connection, the first one or another.
Connect(i) == /\ i \in DOMAIN mounts
              /\ connected' = [connected EXCEPT ![i] = ConnString(i)]
              /\ UNCHANGED <<file, mounts, edits, named>>

Stop == /\ mounts # <<>> /\ mounts' = <<>> /\ connected' = <<>> /\ named' = {}
        /\ UNCHANGED <<file, edits>>

SettingsNext == Start \/ Stop \/ (\E entries \in Files : Edit(entries))
                \/ \E i \in DOMAIN mounts : Connect(i)

-----------------------------------------------------------------------------
(* Properties.                                                             *)

\* Every mount is served: its own path leads to it, for HTTP and for the admin
\* API alike, in whatever case, and however a path is spelled in a call, the
\* API means the database that HTTP would have led to (get_mounts, get_db,
\* setup_server).
MountsAreServed ==
    /\ \A i \in DOMAIN mounts : /\ Route(mounts[i].path) = i /\ GetDb(mounts[i].path) = i
                                /\ Route(Lower(mounts[i].path)) = i
    /\ \A path \in Spelling : GetDb(path) # 0 => Route(NormalizePath(path)) = GetDb(path)

\* However the file is edited, a mount connects with a string that was written
\* for its own path since the server started, and never with none: entries that
\* are moved, dropped, emptied or spelled differently never lend it another's
\* (DbConnectionSettings).
OwnConnection ==
    \A i \in DOMAIN mounts :
        connected[i] # "" => <<Lower(mounts[i].path), connected[i]>> \in named
NeverEmpty == \A i \in DOMAIN mounts : ConnString(i) # ""
ConnectsToItsOwn == OwnConnection /\ NeverEmpty
=============================================================================
