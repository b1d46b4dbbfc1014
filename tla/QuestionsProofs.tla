---------------------------- MODULE QuestionsProofs ----------------------------
(***************************************************************************)
(* What the answers of the templates hold and what they leave out, for     *)
(* tables and limits of any size.                                          *)
(***************************************************************************)
EXTENDS Questions, FiniteSetTheorems, TLAPS

-----------------------------------------------------------------------------
(* Types.                                                                  *)

LEMMA EventOfType ==
    ASSUME TypeOK, NEW p \in Running, NEW category \in DOMAIN Actions,
           NEW action \in Actions[category]
    PROVE  EventOf(p, category, action) \in Event
<1>1. comm[p] \in Names
  BY DEF TypeOK, Running
<1>2. p \in Pids
  BY DEF Running
<1>3. EventOf(p, category, action) \in Fields
  BY <1>1, <1>2 DEF EventOf, Fields, Actions, Paths
<1> QED
  BY <1>3 DEF EventOf, Event

LEMMA ActionsOfCategories ==
    /\ DOMAIN Actions = {"process", "file", "network"}
    /\ Actions["process"] = {"clone", "fork", "exec", "exit"}
    /\ Actions["file"] = {"open", "write", "rename", "unlink"}
    /\ Actions["network"] = {"bind", "listen", "connect", "send"}
BY DEF Actions

LEMMA SockaddrEventType ==
    ASSUME TypeOK, NEW p \in Running, NEW action \in {"bind", "connect", "send"},
           NEW sa \in Sockaddr
    PROVE  SockaddrEvent(p, action, sa) \in Event
<1>1. EventOf(p, "network", action) \in Event
  BY EventOfType, ActionsOfCategories
<1>2. CASE sa = OtherFamily
  BY <1>1, <1>2 DEF SockaddrEvent
<1>3. CASE sa # OtherFamily
  <2>1. AddrText(sa.addr) \in Addrs \cup {Empty} /\ sa.port \in Ports
    BY <1>3 DEF Sockaddr, AddrText
  <2> DEFINE ev == SockaddrEvent(p, action, sa)
  <2>2. ev \in Fields
    BY <1>1, <1>3, <2>1 DEF SockaddrEvent, EventOf, Event, Fields
  <2>3. /\ ev.category = "network" /\ ev.action = action
        /\ ev.path = Empty /\ ev.exe = Empty /\ ev.oldPath = Empty
        /\ action = "bind" => ev.localPort = sa.port /\ ev.remotePort = Empty /\ ev.remoteAddr = Empty
        /\ action # "bind" => ev.remotePort = sa.port /\ ev.localPort = Empty /\ ev.localAddr = Empty
    BY <1>3 DEF SockaddrEvent, EventOf
  <2>4. sa.port # Empty
    BY <2>1, HostAssumption
  <2> HIDE DEF ev
  <2>5. ev \in Event
    BY <2>2, <2>3, <2>4, ActionsOfCategories DEF Event
  <2> QED
    BY <2>5 DEF ev
<1> QED
  BY <1>2, <1>3

\* A step adds rows, one or two, or none.
Adds == \E evs \in Seq(Event) : Emit(evs)
AddsOrKeeps ==
    /\ comm' \in [Pids -> Names \cup {Empty}]
    /\ Adds \/ UNCHANGED events

LEMMA OneIsAdded ==
    ASSUME NEW a \in Event, Emit(<<a>>)
    PROVE  Adds
<1>1. <<a>> \in Seq(Event)
  OBVIOUS
<1> QED
  BY <1>1 DEF Adds

LEMMA TwoAreAdded ==
    ASSUME NEW a \in Event, NEW b \in Event, Emit(<<a, b>>)
    PROVE  Adds
<1>1. <<a, b>> \in Seq(Event)
  OBVIOUS
<1> QED
  BY <1>1 DEF Adds

LEMMA StepAdds == TypeOK /\ [Next]_vars => AddsOrKeeps
<1> SUFFICES ASSUME TypeOK, [Next]_vars PROVE AddsOrKeeps
  OBVIOUS
<1> USE ActionsOfCategories
<1>1. ASSUME NEW p \in Pids, NEW child \in Pids, Fork(p, child) PROVE AddsOrKeeps
  <2>1. p \in Running /\ comm[p] \in Names
    BY <1>1 DEF Fork, Running, TypeOK
  <2>2. EventOf(p, "process", "clone") \in Event /\ EventOf(p, "process", "fork") \in Event
    BY <2>1, EventOfType
  <2>3. [EventOf(p, "process", "fork") EXCEPT !.pid = child] \in Event
    BY <2>2 DEF Event, Fields
  <2>4. Adds
    <3>1. CASE Emit(<<EventOf(p, "process", "clone"),
                      [EventOf(p, "process", "fork") EXCEPT !.pid = child]>>)
      BY <3>1, <2>2, <2>3, TwoAreAdded
    <3>2. CASE Emit(<<[EventOf(p, "process", "fork") EXCEPT !.pid = child]>>)
      BY <3>2, <2>3, OneIsAdded
    <3> QED
      BY <1>1, <3>1, <3>2 DEF Fork
  <2> QED
    BY <1>1, <2>1, <2>4 DEF Fork, TypeOK, AddsOrKeeps
<1>2. ASSUME NEW p \in Pids, NEW path \in Paths, NEW name \in Names, Exec(p, path, name)
      PROVE  AddsOrKeeps
  <2>1. EventOf(p, "process", "exec") \in Event
    BY <1>2, EventOfType DEF Exec
  <2>2. [EventOf(p, "process", "exec") EXCEPT !.path = path, !.exe = path] \in Event
    BY <2>1 DEF EventOf, Event, Fields
  <2>3. Adds
    BY <1>2, <2>2, OneIsAdded DEF Exec
  <2> QED
    BY <1>2, <2>3 DEF Exec, TypeOK, AddsOrKeeps
<1>3. ASSUME NEW p \in Pids, Exit(p) PROVE AddsOrKeeps
  <2>1. EventOf(p, "process", "exit") \in Event
    BY <1>3, EventOfType DEF Exit
  <2>2. Adds
    BY <1>3, <2>1, OneIsAdded DEF Exit
  <2> QED
    BY <1>3, <2>2 DEF Exit, TypeOK, AddsOrKeeps
<1>4. ASSUME NEW p \in Pids, NEW action \in {"open", "rename", "unlink"},
             NEW path \in Paths, NEW old \in Paths,
             old # Empty => action = "rename", PathCall(p, action, path, old)
      PROVE  AddsOrKeeps
  <2>1. EventOf(p, "file", action) \in Event
    BY <1>4, EventOfType DEF PathCall
  <2>2. [EventOf(p, "file", action) EXCEPT !.path = path, !.oldPath = old] \in Event
    BY <1>4, <2>1 DEF EventOf, Event, Fields
  <2>3. Adds
    BY <1>4, <2>2, OneIsAdded DEF PathCall
  <2> QED
    BY <1>4, <2>3 DEF PathCall, TypeOK, AddsOrKeeps
<1>5. ASSUME NEW p \in Pids, Write(p) PROVE AddsOrKeeps
  <2>1. EventOf(p, "file", "write") \in Event
    BY <1>5, EventOfType DEF Write
  <2>2. Adds
    BY <1>5, <2>1, OneIsAdded DEF Write
  <2> QED
    BY <1>5, <2>2 DEF Write, TypeOK, AddsOrKeeps
<1>6. ASSUME NEW p \in Pids, NetworkStep(p) PROVE AddsOrKeeps
  <2>1. p \in Running /\ UNCHANGED comm
    BY <1>6 DEF NetworkStep, SocketCall, Listen, SendTo, Send
  <2>2. /\ \A action \in Actions["network"] : EventOf(p, "network", action) \in Event
        /\ \A action \in {"bind", "connect", "send"}, sa \in Sockaddr :
              SockaddrEvent(p, action, sa) \in Event
    BY <2>1, EventOfType, SockaddrEventType
  <2>3. Adds
    <3>1. ASSUME NEW action \in {"bind", "connect"}, NEW sa \in Sockaddr,
                 SocketCall(p, action, sa)
          PROVE  Adds
      BY <3>1, <2>2, OneIsAdded DEF SocketCall
    <3>2. ASSUME NEW sa \in Sockaddr, SendTo(p, sa)
          PROVE  Adds
      BY <3>2, <2>2, TwoAreAdded DEF SendTo
    <3>3. CASE Listen(p)
      BY <3>3, <2>2, OneIsAdded DEF Listen
    <3>4. CASE Send(p)
      BY <3>4, <2>2, OneIsAdded DEF Send
    <3> QED
      BY <1>6, <3>1, <3>2, <3>3, <3>4 DEF NetworkStep
  <2> QED
    BY <2>1, <2>3 DEF TypeOK, AddsOrKeeps
<1>7. CASE UNCHANGED vars
  BY <1>7 DEF vars, TypeOK, AddsOrKeeps
<1> QED
  BY <1>1, <1>2, <1>3, <1>4, <1>5, <1>6, <1>7
     DEF Next, ProcessStep, FileStep, Quiet, Paths

LEMMA StepKeepsTypes == TypeOK /\ [Next]_vars => TypeOK'
<1> SUFFICES ASSUME TypeOK, [Next]_vars PROVE TypeOK'
  OBVIOUS
<1>1. AddsOrKeeps
  BY StepAdds
<1>2. ASSUME NEW evs \in Seq(Event), Emit(evs) PROVE TypeOK'
  BY <1>1, <1>2, HostAssumption DEF TypeOK, Emit, AddsOrKeeps
<1> QED
  BY <1>1, <1>2 DEF TypeOK, AddsOrKeeps, Adds

\* Every row holds the fields its kernel program can give and no others: the exe
\* of an exec is its path, and no row has an address of 0.
THEOREM TypesHold == Spec => []TypeOK
<1>1. Init => TypeOK
  BY HostAssumption DEF Init, TypeOK
<1> QED
  BY <1>1, StepKeepsTypes, PTL DEF Spec

-----------------------------------------------------------------------------
(* What a limit leaves out.                                                *)

LEMMA OldestCut ==
    ASSUME NEW S, IsFiniteSet(S), S \subseteq Nat, NEW n \in Nat,
           NEW i \in S \ Oldest(S, n)
    PROVE  Before(i, S) >= n /\ \A j \in Oldest(S, n) : j < i
<1>1. Before(i, S) \in Nat
  BY FS_Subset, FS_CardinalityType DEF Before
<1>2. Before(i, S) >= n
  BY <1>1 DEF Oldest, Before
<1>3. ASSUME NEW j \in Oldest(S, n), ~(j < i) PROVE FALSE
  <2>1. {k \in S : k < i} \subseteq {k \in S : k < j}
    <3>1. i \in Nat /\ j \in Nat
      BY DEF Oldest
    <3>2. \A k \in S : k < i => k < j
      BY <1>3, <3>1
    <3> QED
      BY <3>2
  <2>2. Before(i, S) <= Before(j, S) /\ Before(j, S) \in Nat
    <3>1. IsFiniteSet({k \in S : k < j})
      BY FS_Subset, {k \in S : k < j} \subseteq S
    <3> QED
      BY <2>1, <3>1, FS_Subset, FS_CardinalityType DEF Before
  <2>3. Before(j, S) < n
    BY <1>3 DEF Oldest, Before
  <2> QED
    BY <1>1, <1>2, <2>2, <2>3
<1> QED
  BY <1>2, <1>3

LEMMA NewestCut ==
    ASSUME NEW S, IsFiniteSet(S), S \subseteq Nat, NEW n \in Nat,
           NEW i \in S \ Newest(S, n)
    PROVE  After(i, S) >= n /\ \A j \in Newest(S, n) : j > i
<1>1. After(i, S) \in Nat
  BY FS_Subset, FS_CardinalityType DEF After
<1>2. After(i, S) >= n
  BY <1>1 DEF Newest, After
<1>3. ASSUME NEW j \in Newest(S, n), ~(j > i) PROVE FALSE
  <2>1. {k \in S : k > i} \subseteq {k \in S : k > j}
    <3>1. i \in Nat /\ j \in Nat
      BY DEF Newest
    <3>2. \A k \in S : k > i => k > j
      BY <1>3, <3>1
    <3> QED
      BY <3>2
  <2>2. After(i, S) <= After(j, S) /\ After(j, S) \in Nat
    <3>1. IsFiniteSet({k \in S : k > j})
      BY FS_Subset, {k \in S : k > j} \subseteq S
    <3> QED
      BY <2>1, <3>1, FS_Subset, FS_CardinalityType DEF After
  <2>3. After(j, S) < n
    BY <1>3 DEF Newest, After
  <2> QED
    BY <1>1, <1>2, <2>2, <2>3
<1> QED
  BY <1>2, <1>3

LEMMA IdsAreFinite ==
    ASSUME TypeOK, NEW S, S \subseteq DOMAIN events
    PROVE  IsFiniteSet(S) /\ S \subseteq Nat
<1>1. DOMAIN events = 1..Len(events) /\ Len(events) \in Nat
  BY DEF TypeOK
<1>2. IsFiniteSet(1..Len(events))
  BY <1>1, FS_Interval
<1> QED
  BY <1>1, <1>2, FS_Subset

LEMMA SelectedAboutPath ==
    ASSUME NEW path \in Files
    PROVE  Selected(AboutPath(path))
             = {i \in DOMAIN events : path \in {events[i].path, events[i].oldPath}}
<1>1. path # Empty
  BY HostAssumption
<1> QED
  BY <1>1 DEF Selected, AboutPath, AnyEvent, Matches

LEMMA ModificationsFollow == TypeOK => ModificationsUpToLimit
<1> SUFFICES ASSUME TypeOK, NEW path \in Files,
                    NEW about, about = {i \in DOMAIN events :
                                          path \in {events[i].path, events[i].oldPath}}
             PROVE  LET asked == {i \in about : Modifies(events[i])}
                    IN  /\ WhoModified(path) \subseteq asked
                        /\ \A i \in asked \ WhoModified(path) :
                              /\ Before(i, about) >= QueryLimit
                              /\ \A j \in WhoModified(path) : j < i
  BY DEF ModificationsUpToLimit
<1>1. WhoModified(path) = {i \in Oldest(about, QueryLimit) : Modifies(events[i])}
  BY SelectedAboutPath DEF WhoModified, Query
<1>2. IsFiniteSet(about) /\ about \subseteq Nat
  BY IdsAreFinite
<1>3. Oldest(about, QueryLimit) \subseteq about
  BY DEF Oldest
<1>4. ASSUME NEW i \in about, Modifies(events[i]), i \notin WhoModified(path)
      PROVE  Before(i, about) >= QueryLimit /\ \A j \in WhoModified(path) : j < i
  <2>1. i \in about \ Oldest(about, QueryLimit)
    BY <1>1, <1>4
  <2>2. Before(i, about) >= QueryLimit /\ \A j \in Oldest(about, QueryLimit) : j < i
    BY <1>2, <2>1, OldestCut, QuestionsAssumption
  <2> QED
    BY <1>1, <2>2
<1> QED
  BY <1>1, <1>3, <1>4

\* "who modified" leaves a modification out only behind as many rows about the
\* path as the limit, and never from the middle of its answer.
THEOREM ModificationsTheorem == Spec => []ModificationsUpToLimit
BY TypesHold, ModificationsFollow, PTL

LEMMA ActivityFollows == TypeOK => ActivityUpToLimit
<1> SUFFICES ASSUME TypeOK PROVE ActivityUpToLimit
  OBVIOUS
<1>1. ASSUME NEW pid \in Pids,
             NEW asked, asked = {i \in DOMAIN events : events[i].pid = pid},
             NEW i \in asked \ ActivityOfPid(pid)
      PROVE  Before(i, asked) >= QueryLimit /\ \A j \in ActivityOfPid(pid) : j < i
  <2>1. Selected(AboutPid(pid)) = asked
    BY <1>1 DEF Selected, AboutPid, AnyEvent, Matches
  <2>2. ActivityOfPid(pid) = Oldest(asked, QueryLimit)
    BY <2>1 DEF ActivityOfPid, Query
  <2>3. IsFiniteSet(asked) /\ asked \subseteq Nat
    BY <1>1, IdsAreFinite
  <2> QED
    BY <1>1, <2>2, <2>3, OldestCut, QuestionsAssumption
<1>2. ASSUME NEW path \in Files,
             NEW asked, asked = {i \in DOMAIN events :
                                   path \in {events[i].path, events[i].oldPath}},
             NEW i \in asked \ ActivityOfFile(path)
      PROVE  Before(i, asked) >= QueryLimit /\ \A j \in ActivityOfFile(path) : j < i
  <2>1. ActivityOfFile(path) = Oldest(asked, QueryLimit)
    BY <1>2, SelectedAboutPath DEF ActivityOfFile, Query
  <2>2. IsFiniteSet(asked) /\ asked \subseteq Nat
    BY <1>2, IdsAreFinite
  <2> QED
    BY <1>2, <2>1, <2>2, OldestCut, QuestionsAssumption
<1> QED
  BY <1>1, <1>2 DEF ActivityUpToLimit

\* The activity for a pid or a path lacks a row only behind as many older ones as
\* the limit.
THEOREM ActivityTheorem == Spec => []ActivityUpToLimit
BY TypesHold, ActivityFollows, PTL

LEMMA SelectedConnects ==
    TypeOK => Selected(AboutConnect) = {i \in DOMAIN events : events[i].action = "connect"}
<1> SUFFICES ASSUME TypeOK, NEW i \in DOMAIN events
             PROVE  Matches(AboutConnect, events[i]) <=> events[i].action = "connect"
  BY DEF Selected
<1>1. events[i] \in Event
  BY DEF TypeOK
<1>2. events[i].action = "connect" => events[i].category = "network"
  BY <1>1, ActionsOfCategories DEF Event, Fields
<1>3. /\ AboutConnect.pids = {} /\ AboutConnect.comms = {}
      /\ AboutConnect.categories = {"network"} /\ AboutConnect.actions = {"connect"}
      /\ AboutConnect.exactPath = Empty
  BY DEF AboutConnect, AnyEvent
<1>4. Matches(AboutConnect, events[i])
        <=> events[i].category = "network" /\ events[i].action = "connect"
  BY <1>3 DEF Matches
<1> QED
  BY <1>2, <1>4

\* The filter of a restart question selects the process rows of the name.
LEMMA SelectedRestarts ==
    ASSUME TypeOK, NEW name \in Names, name = Lower[name]
    PROVE  Selected(AboutRestart(name))
             = {i \in DOMAIN events :
                  events[i].category = "process" /\ events[i].comm = name}
<1> SUFFICES ASSUME NEW i \in DOMAIN events
             PROVE  Matches(AboutRestart(name), events[i])
                      <=> events[i].category = "process" /\ events[i].comm = name
  BY DEF Selected
<1>1. events[i] \in Event
  BY DEF TypeOK
<1>2. events[i].category = "process" => events[i].action \in {"exec", "exit", "fork", "clone"}
  BY <1>1 DEF Event, Actions
<1>3. name # Empty
  BY HostAssumption
<1>4. /\ AboutRestart(name).pids = {} /\ AboutRestart(name).comms = {name}
      /\ AboutRestart(name).categories = {"process"}
      /\ AboutRestart(name).actions = {"exec", "exit", "fork", "clone"}
      /\ AboutRestart(name).exactPath = Empty
  BY <1>3 DEF AboutRestart, AnyEvent
<1>5. Matches(AboutRestart(name), events[i])
        <=> /\ events[i].category = "process" /\ events[i].comm = name
            /\ events[i].action \in {"exec", "exit", "fork", "clone"}
  BY <1>4 DEF Matches
<1> QED
  BY <1>2, <1>5

LEMMA AnswersFollow == TypeOK => AnswersBackToLimit
<1> SUFFICES ASSUME TypeOK PROVE AnswersBackToLimit
  OBVIOUS
<1> DEFINE connects == {i \in DOMAIN events : events[i].action = "connect"}
           addressed == {i \in DOMAIN events :
                           \/ events[i].localAddr # Empty
                           \/ events[i].remoteAddr # Empty}
<1>1. IsFiniteSet(connects) /\ connects \subseteq Nat
  BY IdsAreFinite
<1>2. IsFiniteSet(addressed) /\ addressed \subseteq Nat
  BY IdsAreFinite
<1>3. ASSUME NEW addr \in Addrs, NEW i \in connects,
             events[i].remoteAddr = addr, i \notin Connections(addr)
      PROVE  After(i, connects) >= QueryLimit /\ \A j \in Connections(addr) : j > i
  <2>1. Connections(addr)
          = {j \in Newest(connects, QueryLimit) : Targets(addr, events[j])}
    BY SelectedConnects DEF Connections, Query
  <2> HIDE DEF connects
  <2>2. i \in connects \ Newest(connects, QueryLimit)
    BY <1>3, <2>1 DEF Targets
  <2> QED
    BY <1>1, <2>1, <2>2, NewestCut, QuestionsAssumption
<1>4. ASSUME NEW port \in Ports, NEW i \in addressed,
             events[i].localPort = port, i \notin OpenedPort(port)
      PROVE  After(i, addressed) >= SocketsLimit /\ \A j \in OpenedPort(port) : j > i
  <2>1. WithAddress = addressed
    <3>1. ASSUME NEW ev \in Event, ev.localAddr # Empty \/ ev.remoteAddr # Empty
          PROVE  ev.category = "network"
      <4>1. ev.action \in {"bind", "connect", "send"} /\ ev.action \in Actions[ev.category]
            /\ ev.category \in DOMAIN Actions
        BY <3>1 DEF Event, Fields
      <4> QED
        BY <4>1, ActionsOfCategories
    <3>2. \A j \in DOMAIN events : events[j] \in Event
      BY DEF TypeOK
    <3> QED
      BY <3>1, <3>2 DEF WithAddress, HasAddress
  <2>2. OpenedPort(port)
          = {j \in Newest(addressed, SocketsLimit) : Opens(port, events[j])}
    BY <2>1 DEF OpenedPort, Sockets
  <2>3. Opens(port, events[i])
    <3>1. events[i] \in Event /\ port # Empty
      BY HostAssumption DEF TypeOK
    <3> QED
      BY <1>4, <3>1 DEF Opens, Event
  <2> HIDE DEF addressed
  <2>4. i \in addressed \ Newest(addressed, SocketsLimit)
    BY <1>4, <2>2, <2>3
  <2> QED
    BY <1>2, <2>2, <2>4, NewestCut, QuestionsAssumption
<1>5. ASSUME NEW name \in Names, name = Lower[name],
             NEW named, named = {i \in DOMAIN events :
                          events[i].category = "process" /\ events[i].comm = name},
             NEW i \in named \ Restarts(name)
      PROVE  After(i, named) >= QueryLimit /\ \A j \in Restarts(name) : j > i
  <2>1. Restarts(name) = Newest(named, QueryLimit)
    BY <1>5, SelectedRestarts DEF Restarts, Query
  <2>2. IsFiniteSet(named) /\ named \subseteq Nat
    BY <1>5, IdsAreFinite
  <2>3. i \in named \ Newest(named, QueryLimit)
    BY <1>5, <2>1
  <2>4. /\ After(i, named) >= QueryLimit
        /\ \A j \in Newest(named, QueryLimit) : j > i
    BY <2>2, <2>3, NewestCut, QuestionsAssumption
  <2> QED
    BY <2>1, <2>4
<1>6. ASSUME NEW name \in Names, NEW path \in Files, NEW i \in DOMAIN events,
             path \in {events[i].path, events[i].oldPath},
             Lower[events[i].comm] = Lower[name],
             i \notin QueryText({name, path})
      PROVE  /\ After(i, WithTerms({name, path})) >= TextLimit
             /\ \A j \in QueryText({name, path}) : j > i
  <2>1. i \in WithTerms({name, path})
    <3>1. events[i].comm \in Names
      BY DEF TypeOK, Event, Fields
    <3>2. InLowerCase(events[i].comm) = InLowerCase(name)
      BY <1>6, <3>1 DEF InLowerCase
    <3>3. {events[i].comm, path} \subseteq Columns(events[i])
      BY <1>6 DEF Columns
    <3> QED
      BY <3>2, <3>3 DEF WithTerms
  <2>2. QueryText({name, path}) = Newest(WithTerms({name, path}), TextLimit)
    BY DEF QueryText
  <2>3. /\ IsFiniteSet(WithTerms({name, path}))
        /\ WithTerms({name, path}) \subseteq Nat
    BY IdsAreFinite DEF WithTerms
  <2>4. i \in WithTerms({name, path}) \ Newest(WithTerms({name, path}), TextLimit)
    BY <1>6, <2>1, <2>2
  <2> QED
    BY <2>2, <2>3, <2>4, NewestCut, QuestionsAssumption
<1>7. ASSUME NEW port \in Ports, NEW i \in DOMAIN events,
             events[i].localPort = port, i \notin OpenedPort(port)
      PROVE  \/ events[i].localAddr = Empty
             \/ After(i, addressed) >= SocketsLimit /\ \A j \in OpenedPort(port) : j > i
  <2>1. CASE events[i].localAddr = Empty
    BY <2>1
  <2>2. CASE events[i].localAddr # Empty
    <3>1. i \in addressed
      BY <2>2
    <3> HIDE DEF addressed
    <3> QED
      BY <1>4, <1>7, <3>1
  <2> QED
    BY <2>1, <2>2
<1> QED
  BY <1>3, <1>5, <1>6, <1>7 DEF AnswersBackToLimit

\* A connect to an address, a bind to a port of an address, a row of a restart and
\* one with the words of a search are left out only behind as many newer rows as
\* the limit.
THEOREM AnswersTheorem == Spec => []AnswersBackToLimit
BY TypesHold, AnswersFollow, PTL

\* All three, of every answer that a limit may cut.
THEOREM LimitsTheorem == Spec => []LimitsCutOneEnd
BY ModificationsTheorem, ActivityTheorem, AnswersTheorem, PTL DEF LimitsCutOneEnd

=============================================================================
