------------------------------- MODULE Questions -------------------------------
(***************************************************************************)
(* The answers of the built-in templates of ltm query                      *)
(* (internal/query/engine.go) over storage.Query, QueryText and Sockets,   *)
(* as the ids of the rows they print.  A limit applies to the rows a query *)
(* selects, before the template keeps those that answer the question.      *)
(***************************************************************************)
EXTENDS HostEvents

CONSTANTS QueryLimit,    \* 200
          SocketsLimit,  \* 500
          TextLimit,     \* 50
          Lower          \* strings.ToLower on names

ASSUME QuestionsAssumption ==
    /\ QueryLimit \in Nat \ {0}
    /\ SocketsLimit \in Nat \ {0}
    /\ TextLimit \in Nat \ {0}
    /\ Lower \in [Names -> Names]

-----------------------------------------------------------------------------
(* storage.Query, with the fields of Filter that templates use.            *)

AnyEvent == [pids |-> {}, categories |-> {}, actions |-> {}, comms |-> {},
             exactPath |-> Empty]

Matches(f, ev) ==
    /\ f.pids # {} => ev.pid \in f.pids
    /\ f.categories # {} => ev.category \in f.categories
    /\ f.actions # {} => ev.action \in f.actions
    /\ f.comms # {} => ev.comm \in f.comms
    /\ f.exactPath # Empty => f.exactPath \in {ev.path, ev.oldPath}

\* ORDER BY ts, id LIMIT n.
Oldest(ids, n) == {i \in ids : Cardinality({j \in ids : j < i}) < n}
Newest(ids, n) == {i \in ids : Cardinality({j \in ids : j > i}) < n}

Selected(f) == {i \in DOMAIN events : Matches(f, events[i])}

Query(f, orderAsc) ==
    IF orderAsc THEN Oldest(Selected(f), QueryLimit) ELSE Newest(Selected(f), QueryLimit)

HasAddress(ev) ==
    ev.category = "network" /\ (ev.localAddr # Empty \/ ev.remoteAddr # Empty)

WithAddress == {i \in DOMAIN events : HasAddress(events[i])}

\* Mutant: the limit of Sockets cuts off its newest rows.
OldestSockets(limit) == Oldest(WithAddress, limit)

Sockets(limit) == Newest(WithAddress, limit)

InLowerCase(t) == IF t \in Names THEN Lower[t] ELSE t

\* textSearchColumns.
Columns(ev) == {ev.category, ev.action, ev.comm, ev.exe, ev.path, ev.oldPath,
                ev.localAddr, ev.remoteAddr}

\* A term is the whole text of a column.
WithTerms(terms) ==
    {i \in DOMAIN events : \A term \in terms :
        \E column \in Columns(events[i]) : InLowerCase(column) = InLowerCase(term)}

QueryText(terms) == IF terms = {} THEN {} ELSE Newest(WithTerms(terms), TextLimit)

-----------------------------------------------------------------------------
(* The templates; any other question is a search for its words.            *)

\* "who modified <path>"
Modifies(ev) == ev.category = "file" /\ ev.action \in {"write", "rename", "unlink"}
AboutPath(path) == [AnyEvent EXCEPT !.exactPath = path]
WhoModified(path) == {i \in Query(AboutPath(path), TRUE) : Modifies(events[i])}

\* "show activity for file <path>"
ActivityOfFile(path) == Query(AboutPath(path), TRUE)

\* "show activity for pid <pid>"
AboutPid(pid) == [AnyEvent EXCEPT !.pids = {pid}]
ActivityOfPid(pid) == Query(AboutPid(pid), TRUE)

\* "... before <name> restarted", the name in lower case, or no name.
AboutRestart(name) ==
    [AnyEvent EXCEPT !.categories = {"process"},
                     !.actions = {"exec", "exit", "fork", "clone"},
                     !.comms = IF name = Empty THEN {} ELSE {Lower[name]}]
Restarts(name) == Query(AboutRestart(name), FALSE)

\* "connected to <address>", or no address: no row has a remote_host.
AboutConnect == [AnyEvent EXCEPT !.categories = {"network"}, !.actions = {"connect"}]
Targets(addr, ev) == addr = Empty \/ ev.remoteAddr = addr
Connections(addr) == {i \in Query(AboutConnect, FALSE) : Targets(addr, events[i])}

\* "opened port <port>"
Opens(port, ev) == ev.localPort = port /\ ev.action \in {"listen", "bind"}
OpenedPort(port) == {i \in Sockets(SocketsLimit) : Opens(port, events[i])}

-----------------------------------------------------------------------------

TypeOK ==
    /\ comm \in [Pids -> Names \cup {Empty}]
    /\ events \in Seq(Event)
    /\ Len(events) <= MaxRows

Before(i, ids) == Cardinality({j \in ids : j < i})
After(i, ids) == Cardinality({j \in ids : j > i})

\* An answer that is told from its beginning has every modification of a path,
\* under either of its names, until the limit is reached; the rows that count
\* towards the limit are all the rows about the path, and not the
\* modifications only.
ModificationsUpToLimit ==
    \A path \in Files :
        LET about == {i \in DOMAIN events : path \in {events[i].path, events[i].oldPath}}
            asked == {i \in about : Modifies(events[i])}
        IN  /\ WhoModified(path) \subseteq asked
            /\ \A i \in asked \ WhoModified(path) :
                  /\ Before(i, about) >= QueryLimit
                  /\ \A j \in WhoModified(path) : j < i

\* The activity for a pid or a path is told from its beginning too.
ActivityUpToLimit ==
    /\ \A pid \in Pids :
          LET asked == {i \in DOMAIN events : events[i].pid = pid}
          IN  \A i \in asked \ ActivityOfPid(pid) :
                 /\ Before(i, asked) >= QueryLimit
                 /\ \A j \in ActivityOfPid(pid) : j < i
    /\ \A path \in Files :
          LET asked == {i \in DOMAIN events : path \in {events[i].path, events[i].oldPath}}
          IN  \A i \in asked \ ActivityOfFile(path) :
                 /\ Before(i, asked) >= QueryLimit
                 /\ \A j \in ActivityOfFile(path) : j < i

\* An answer that is told from its end has every row that answers the question
\* but those that newer rows push out: connects to other targets, for a port
\* the connects and sends of every process, and for a restart the forks and
\* execs of what runs under the name, which must be in lower case to be found.
\* Of the binds to a port the ones to the wildcard address are missing, whatever
\* the limit: AnswersAsDocumented is about them.
\* A search for the words of a name and a path finds what a program of the name
\* has done to the path, in whatever letters the name is written.
AnswersBackToLimit ==
    /\ \A addr \in Addrs :
          LET connects == {i \in DOMAIN events : events[i].action = "connect"}
              asked == {i \in connects : events[i].remoteAddr = addr}
          IN  \A i \in asked \ Connections(addr) :
                 /\ After(i, connects) >= QueryLimit
                 /\ \A j \in Connections(addr) : j > i
    /\ \A port \in Ports :
          LET addressed == {i \in DOMAIN events :
                              \/ events[i].localAddr # Empty
                              \/ events[i].remoteAddr # Empty}
              asked == {i \in DOMAIN events : events[i].localPort = port}
          IN  \A i \in asked \ OpenedPort(port) :
                 \/ events[i].localAddr = Empty
                 \/ /\ After(i, addressed) >= SocketsLimit
                    /\ \A j \in OpenedPort(port) : j > i
    /\ \A name \in Names :
          LET named == {i \in DOMAIN events :
                          events[i].category = "process" /\ events[i].comm = name}
          IN  name = Lower[name] =>
                 \A i \in named \ Restarts(name) :
                    /\ After(i, named) >= QueryLimit
                    /\ \A j \in Restarts(name) : j > i
    /\ \A name \in Names, path \in Files :
          LET asked == {i \in DOMAIN events :
                          /\ path \in {events[i].path, events[i].oldPath}
                          /\ Lower[events[i].comm] = Lower[name]}
          IN  \A i \in asked \ QueryText({name, path}) :
                 /\ After(i, WithTerms({name, path})) >= TextLimit
                 /\ \A j \in QueryText({name, path}) : j > i

\* A limit takes rows from the far end of an answer only, and none before it is
\* reached: the limits of query/engine.go cut the rows a query selects, before a
\* template filters them.
LimitsCutOneEnd == ModificationsUpToLimit /\ ActivityUpToLimit /\ AnswersBackToLimit

-----------------------------------------------------------------------------
(* What the documentation says.                                            *)

\* The table of templates in docs/querying.md: "opened port" is "bind/listen matching
\* the port", "show activity for pid N" is "all events for that pid", and that for a
\* file "events touching path / old_path".
AnswersAsDocumented ==
    /\ \A port \in Ports :
          OpenedPort(port) = {i \in DOMAIN events : Opens(port, events[i])}
    /\ \A pid \in Pids :
          ActivityOfPid(pid) = {i \in DOMAIN events : events[i].pid = pid}
    /\ \A path \in Files :
          ActivityOfFile(path)
            = {i \in DOMAIN events : path \in {events[i].path, events[i].oldPath}}

=============================================================================
