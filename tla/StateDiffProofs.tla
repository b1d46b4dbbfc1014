--------------------------- MODULE StateDiffProofs ---------------------------
(***************************************************************************)
(* The scan of StateDiff agrees with the definitions of its report, for    *)
(* every set of rows, every range and every limit.                         *)
(***************************************************************************)
EXTENDS StateDiff, FiniteSetTheorems, TLAPS

LEMMA InitEstablishesInv == Init => ScanInv
<1> SUFFICES ASSUME Init PROVE ScanInv
  OBVIOUS
<1>1. events \in Seq(Event) /\ Len(events) = 0 /\ DOMAIN events = {}
  BY DEF Init
<1>2. TypeOK
  <2>1. listed \in [Lists -> SUBSET (DOMAIN events)]
    BY DEF Init
  <2>2. lastExit \in [Keys -> {0} \cup DOMAIN events] /\ writes \in [Paths -> SUBSET (DOMAIN events)]
    BY DEF Init
  <2>3. seenNewPID \subseteq DOMAIN PidText /\ hot \subseteq Paths /\ done \in BOOLEAN
    BY DEF Init
  <2> QED
    BY <1>1, <2>1, <2>2, <2>3, DiffAssumption DEF TypeOK
<1>3. NewProcessesAreFirst /\ RestartsFollowExits
  BY <1>1 DEF NewProcessesAreFirst, RestartsFollowExits
<1>4. \A p \in Paths : WritesOf(p) = {}
  BY <1>1 DEF WritesOf
<1> QED
  BY <1>1, <1>2, <1>3, <1>4 DEF Init, ScanInv, ExitsInv, HotWritersAreHot

\* The row read goes to the end and leaves the positions before it as they are.
LEMMA RowIsAppended ==
    ASSUME TypeOK, NEW row \in Rows, NEW ts \in Times, Read(row, ts)
    PROVE  LET n == Len(events) + 1
           IN  /\ n \in Nat \ {0} /\ n <= Limit
               /\ events' \in Seq(Event) /\ Len(events') = n
               /\ DOMAIN events = 1..(n - 1) /\ DOMAIN events' = 1..n
               /\ events'[n] = [row |-> row, ts |-> ts]
               /\ \A i \in 1..(n - 1) : events'[i] = events[i]
<1>1. events \in Seq(Event) /\ [row |-> row, ts |-> ts] \in Event
  BY DEF TypeOK, Event
<1>2. events' = Append(events, [row |-> row, ts |-> ts])
  BY DEF Read
<1>3. Len(events) + 1 <= Limit
  BY DEF Read, WithinLimit
<1> QED
  BY <1>1, <1>2, <1>3

\* The key of a row is one of the keys, and its path one of the paths.
LEMMA RowIsKnown ==
    ASSUME NEW row \in Rows
    PROVE  /\ RestartKey(row) \in Keys /\ ModifiedPath(row) \in Paths
           /\ row.pid \in DOMAIN PidText /\ row.kind \in Kinds
BY DiffAssumption DEF Keys, Paths

-----------------------------------------------------------------------------
(* A row that is read keeps the parts of ScanInv one after the other.      *)

LEMMA ReadKeepsTypes ==
    ASSUME TypeOK, NEW row \in Rows, NEW ts \in Times, Read(row, ts)
    PROVE  TypeOK'
<1> DEFINE n == Len(events) + 1
<1>1. /\ n \in Nat \ {0} /\ n <= Limit
      /\ events' \in Seq(Event) /\ Len(events') = n
      /\ DOMAIN events = 1..(n - 1) /\ DOMAIN events' = 1..n
  BY RowIsAppended
<1>2. DOMAIN events \subseteq DOMAIN events' /\ n \in DOMAIN events'
  BY <1>1
<1>3. Create(n, row, ts) \/ Exit(n, row) \/ Modify(n, row) \/ Other(n, row)
  BY DEF Read
<1>4. UNCHANGED <<hot, done>>
  BY DEF Read
<1>5. /\ RestartKey(row) \in Keys /\ ModifiedPath(row) \in Paths
      /\ row.pid \in DOMAIN PidText
  BY RowIsKnown
<1>6. ASSUME NEW lists, List(n, lists) PROVE listed' \in [Lists -> SUBSET (DOMAIN events')]
  BY <1>2, <1>6 DEF List, TypeOK
<1> HIDE DEF n
<1>7. listed' \in [Lists -> SUBSET (DOMAIN events')]
  BY <1>3, <1>6 DEF Create, Exit, Modify, Other
<1>8. seenNewPID' \subseteq DOMAIN PidText
  BY <1>3, <1>5 DEF Create, Exit, Modify, Other, TypeOK
<1>9. lastExit' \in [Keys -> {0} \cup DOMAIN events']
  BY <1>2, <1>3, <1>5 DEF Create, Exit, Modify, Other, TypeOK
<1>10. writes' \in [Paths -> SUBSET (DOMAIN events')]
  BY <1>2, <1>3, <1>5 DEF Create, Exit, Modify, Other, TypeOK
<1> QED
  BY <1>1, <1>4, <1>7, <1>8, <1>9, <1>10 DEF TypeOK

\* What the lists of the two deeper properties gain.
LEMMA ListsGrow ==
    ASSUME TypeOK, NEW row \in Rows, NEW ts \in Times, Read(row, ts)
    PROVE  LET n == Len(events) + 1
           IN  /\ listed'["new"] = IF row.kind = "create" /\ IsNew(row)
                                   THEN listed["new"] \cup {n} ELSE listed["new"]
               /\ listed'["restarts"] = IF row.kind = "create" /\ IsRestart(row, ts)
                                        THEN listed["restarts"] \cup {n}
                                        ELSE listed["restarts"]
<1> DEFINE n == Len(events) + 1
<1>1. Create(n, row, ts) \/ Exit(n, row) \/ Modify(n, row) \/ Other(n, row)
  BY DEF Read
<1> HIDE DEF n
<1>2. CASE Create(n, row, ts)
  BY <1>2 DEF Create, List, Lists, n
<1>3. CASE Exit(n, row)
  BY <1>3 DEF Exit, List, Lists
<1>4. CASE Modify(n, row)
  BY <1>4 DEF Modify, List, Lists
<1>5. CASE Other(n, row)
  BY <1>5 DEF Other, List, Lists, ListsOf
<1> QED
  BY <1>1, <1>2, <1>3, <1>4, <1>5 DEF n

LEMMA ReadKeepsNew ==
    ASSUME ScanInv, NEW row \in Rows, NEW ts \in Times, Read(row, ts)
    PROVE  /\ NewProcessesAreFirst'
           /\ seenNewPID' = {events'[i].row.pid : i \in {j \in DOMAIN events' : Kind(j)' = "create"}}
<1> DEFINE n == Len(events) + 1
<1>1. /\ n \in Nat \ {0}
      /\ DOMAIN events = 1..(n - 1) /\ DOMAIN events' = 1..n
      /\ events'[n] = [row |-> row, ts |-> ts]
      /\ \A i \in 1..(n - 1) : events'[i] = events[i]
  BY RowIsAppended DEF ScanInv
<1>2. listed'["new"] = IF row.kind = "create" /\ IsNew(row)
                       THEN listed["new"] \cup {n} ELSE listed["new"]
  BY ListsGrow DEF ScanInv
<1>3. Create(n, row, ts) \/ Exit(n, row) \/ Modify(n, row) \/ Other(n, row)
  BY DEF Read
<1>4. seenNewPID' = IF row.kind = "create" THEN seenNewPID \cup {row.pid} ELSE seenNewPID
  BY <1>3 DEF Create, Exit, Modify, Other
<1>5. listed["new"] \subseteq DOMAIN events
  BY DEF ScanInv, TypeOK, Lists
<1> HIDE DEF n
<1>6. \A pid : pid \in seenNewPID <=> \E j \in 1..(n - 1) : Kind(j) = "create" /\ events[j].row.pid = pid
  BY <1>1 DEF ScanInv
<1>7. events'[n].row = row /\ \A i \in 1..(n - 1) : Kind(i)' = Kind(i)
  BY <1>1 DEF Kind
<1>8. NewProcessesAreFirst'
  <2> SUFFICES ASSUME NEW i \in 1..n
               PROVE  i \in listed'["new"] <=>
                        /\ Kind(i)' = "create"
                        /\ \A j \in 1..(i - 1) :
                              Kind(j)' = "create" => events'[j].row.pid # events'[i].row.pid
    BY <1>1 DEF NewProcessesAreFirst
  <2>1. CASE i = n
    <3>1. Kind(i)' = row.kind /\ n \notin listed["new"]
      BY <1>1, <1>5, <1>7, <2>1 DEF Kind
    <3>2. i \in listed'["new"] <=> row.kind = "create" /\ row.pid \notin seenNewPID
      BY <1>2, <2>1, <3>1 DEF IsNew
    <3>3. \A j \in 1..(i - 1) : Kind(j)' = Kind(j) /\ events'[j] = events[j]
      BY <1>1, <1>7, <2>1
    <3> QED
      BY <1>6, <1>7, <2>1, <3>1, <3>2, <3>3
  <2>2. CASE i # n
    <3>1. i \in 1..(n - 1) /\ \A j \in 1..(i - 1) : j \in 1..(n - 1)
      BY <1>1, <2>2
    <3>2. i \in listed'["new"] <=> i \in listed["new"]
      BY <1>2, <2>2
    <3> QED
      BY <1>1, <1>7, <3>1, <3>2 DEF ScanInv, NewProcessesAreFirst
  <2> QED
    BY <2>1, <2>2
<1>9. ASSUME NEW pid
      PROVE  pid \in seenNewPID' <=>
               \E j \in 1..n : events'[j].row.kind = "create" /\ events'[j].row.pid = pid
  <2>1. \A j \in 1..n : j = n \/ j \in 1..(n - 1)
    BY <1>1
  <2>2. n \in 1..n /\ \A j \in 1..(n - 1) : j \in 1..n /\ events'[j].row.kind = Kind(j)
    BY <1>1 DEF Kind
  <2>3. (\E j \in 1..n : events'[j].row.kind = "create" /\ events'[j].row.pid = pid)
          <=> \/ row.kind = "create" /\ row.pid = pid
              \/ \E j \in 1..(n - 1) : Kind(j) = "create" /\ events[j].row.pid = pid
    <3>1. ASSUME NEW j \in 1..n, events'[j].row.kind = "create", events'[j].row.pid = pid
          PROVE  \/ row.kind = "create" /\ row.pid = pid
                 \/ j \in 1..(n - 1) /\ Kind(j) = "create" /\ events[j].row.pid = pid
      BY <1>1, <1>7, <2>1, <2>2, <3>1
    <3>2. ASSUME row.kind = "create" /\ row.pid = pid
          PROVE  \E j \in 1..n : events'[j].row.kind = "create" /\ events'[j].row.pid = pid
      BY <1>7, <2>2, <3>2
    <3>3. ASSUME NEW j \in 1..(n - 1), Kind(j) = "create" /\ events[j].row.pid = pid
          PROVE  \E i \in 1..n : events'[i].row.kind = "create" /\ events'[i].row.pid = pid
      BY <1>1, <2>2, <3>3
    <3> QED
      BY <3>1, <3>2, <3>3
  <2>4. pid \in seenNewPID' <=> pid \in seenNewPID \/ (row.kind = "create" /\ row.pid = pid)
    BY <1>4
  <2> QED
    BY <1>6, <2>3, <2>4
<1>10. seenNewPID' = {events'[i].row.pid : i \in {j \in DOMAIN events' : Kind(j)' = "create"}}
  BY <1>1, <1>9 DEF Kind
<1> QED
  BY <1>8, <1>10

-----------------------------------------------------------------------------

\* lastExit follows the exits.
LEMMA ReadKeepsExits ==
    ASSUME ScanInv, NEW row \in Rows, NEW ts \in Times, Read(row, ts)
    PROVE  ExitsInv'
<1> DEFINE n == Len(events) + 1
<1>1. /\ n \in Nat \ {0}
      /\ DOMAIN events = 1..(n - 1) /\ DOMAIN events' = 1..n
      /\ events'[n] = [row |-> row, ts |-> ts]
      /\ \A i \in 1..(n - 1) : events'[i] = events[i]
  BY RowIsAppended DEF ScanInv
<1>2. lastExit \in [Keys -> {0} \cup 1..(n - 1)]
  BY <1>1 DEF ScanInv, TypeOK
<1>3. ExitsInv
  BY DEF ScanInv
<1>4. RestartKey(row) \in Keys
  BY RowIsKnown
<1>5. lastExit' = IF row.kind = "exit" /\ RestartKey(row) # Blank
                  THEN [lastExit EXCEPT ![RestartKey(row)] = n] ELSE lastExit
  BY DEF Read, Create, Exit, Modify, Other
<1> HIDE DEF n
<1>6. events'[n].row = row /\ \A i \in 1..(n - 1) : Kind(i)' = Kind(i) /\ Key(i)' = Key(i)
  BY <1>1 DEF Kind, Key
<1>7. ASSUME NEW k \in Keys
      PROVE  /\ lastExit'[k] # 0 =>
                    /\ k # Blank
                    /\ events'[lastExit'[k]].row.kind = "exit"
                    /\ RestartKey(events'[lastExit'[k]].row) = k
             /\ k # Blank => \A i \in 1..n :
                    Kind(i)' = "exit" /\ Key(i)' = k => i <= lastExit'[k]
  <2>1. CASE row.kind = "exit" /\ RestartKey(row) = k /\ k # Blank
    <3>1. lastExit'[k] = n
      BY <1>2, <1>5, <2>1
    <3>2. \A i \in 1..n : i <= n
      BY <1>1
    <3> QED
      BY <1>6, <2>1, <3>1, <3>2
  <2>2. CASE ~(row.kind = "exit" /\ RestartKey(row) = k /\ k # Blank)
    <3>1. lastExit'[k] = lastExit[k]
      BY <1>2, <1>4, <1>5, <2>2
    <3>2. lastExit[k] # 0 => lastExit[k] \in 1..(n - 1)
      BY <1>2
    <3>3. lastExit'[k] # 0 =>
            /\ k # Blank
            /\ events'[lastExit'[k]].row.kind = "exit"
            /\ RestartKey(events'[lastExit'[k]].row) = k
      BY <1>1, <1>3, <3>1, <3>2 DEF ExitsInv, Kind, Key
    <3>5. ASSUME k # Blank, NEW i \in 1..n, Kind(i)' = "exit", Key(i)' = k
          PROVE  i <= lastExit'[k]
      <4>1. i # n
        BY <1>6, <2>2, <3>5 DEF Kind, Key
      <4>2. i \in 1..(n - 1)
        BY <1>1, <4>1
      <4> QED
        BY <1>1, <1>3, <1>6, <3>1, <3>5, <4>2 DEF ExitsInv
    <3> QED
      BY <3>3, <3>5
  <2> QED
    BY <2>1, <2>2
<1> QED
  BY <1>1, <1>7 DEF ExitsInv, Kind, Key

\* A row that creates a process is a restart for the scan exactly when an exit
\* before it makes it one: the exit in lastExit is the last one of the key.
LEMMA RestartIsDetected ==
    ASSUME ScanInv, NEW row \in Rows, NEW ts \in Times, Read(row, ts),
           NEW n, n = Len(events) + 1
    PROVE  IsRestart(row, ts) <=> \E j \in 1..(n - 1) : RestartOf(n, j)'
<1> DEFINE Prior(j) == /\ Kind(j) = "exit" /\ Key(j) = RestartKey(row) /\ Key(j) # Blank
                       /\ events[j].ts < ts
                       /\ \A m \in (j + 1)..(n - 1) :
                             ~(Kind(m) = "exit" /\ Key(m) = RestartKey(row))
<1>1. /\ n \in Nat \ {0}
      /\ DOMAIN events = 1..(n - 1)
      /\ events'[n] = [row |-> row, ts |-> ts]
      /\ \A i \in 1..(n - 1) : events'[i] = events[i]
  BY RowIsAppended DEF ScanInv
<1>2. RestartKey(row) \in Keys
  BY RowIsKnown
<1> DEFINE exit == lastExit[RestartKey(row)]
<1>3. exit \in {0} \cup 1..(n - 1)
  BY <1>1, <1>2 DEF ScanInv, TypeOK
<1>4. exit # 0 => RestartKey(row) # Blank /\ Kind(exit) = "exit" /\ Key(exit) = RestartKey(row)
  BY <1>2 DEF ScanInv, ExitsInv
<1>5. RestartKey(row) # Blank =>
        \A i \in 1..(n - 1) : Kind(i) = "exit" /\ Key(i) = RestartKey(row) => i <= exit
  BY <1>1, <1>2 DEF ScanInv, ExitsInv
<1>6. IsRestart(row, ts) <=> exit # 0 /\ events[exit].ts < ts
  BY DEF IsRestart
<1> HIDE DEF exit
<1>7. ASSUME IsRestart(row, ts) PROVE \E j \in 1..(n - 1) : Prior(j)
  <2>1. exit \in 1..(n - 1) /\ events[exit].ts < ts
    BY <1>3, <1>6, <1>7
  <2>2. \A m \in (exit + 1)..(n - 1) : ~(Kind(m) = "exit" /\ Key(m) = RestartKey(row))
    BY <1>1, <1>4, <1>5, <2>1
  <2>3. Prior(exit)
    BY <1>1, <1>4, <2>1, <2>2
  <2> QED
    BY <2>1, <2>3
<1>8. ASSUME NEW j \in 1..(n - 1), Prior(j) PROVE IsRestart(row, ts)
  <2>1. j <= exit /\ exit # 0
    BY <1>1, <1>3, <1>5, <1>8
  <2>2. exit = j
    BY <1>1, <1>3, <1>4, <1>8, <2>1
  <2> QED
    BY <1>6, <1>8, <2>1, <2>2
<1>9. ASSUME NEW j \in 1..(n - 1) PROVE RestartOf(n, j)' <=> Prior(j)
  <2>1. \A i \in (j + 1)..(n - 1) : i \in 1..(n - 1)
    BY <1>1
  <2>2. events'[j] = events[j] /\ events'[n].row = row /\ events'[n].ts = ts
    BY <1>1
  <2>3. \A i \in 1..(n - 1) : Kind(i)' = Kind(i) /\ Key(i)' = Key(i)
    BY <1>1 DEF Kind, Key
  <2>4. Key(n)' = RestartKey(row)
    BY <2>2 DEF Key
  <2> QED
    BY <2>1, <2>2, <2>3, <2>4 DEF RestartOf
<1> QED
  BY <1>7, <1>8, <1>9

LEMMA ReadKeepsRestarts ==
    ASSUME ScanInv, NEW row \in Rows, NEW ts \in Times, Read(row, ts)
    PROVE  RestartsFollowExits'
<1>0. PICK n : n = Len(events) + 1
  OBVIOUS
<1>1. /\ n \in Nat \ {0}
      /\ DOMAIN events = 1..(n - 1) /\ DOMAIN events' = 1..n
      /\ events'[n] = [row |-> row, ts |-> ts]
      /\ \A i \in 1..(n - 1) : events'[i] = events[i]
  BY <1>0, RowIsAppended DEF ScanInv
<1>2. listed'["restarts"] = IF row.kind = "create" /\ IsRestart(row, ts)
                           THEN listed["restarts"] \cup {n} ELSE listed["restarts"]
  BY <1>0, ListsGrow DEF ScanInv
<1>3. IsRestart(row, ts) <=> \E j \in 1..(n - 1) : RestartOf(n, j)'
  BY <1>0, RestartIsDetected
<1>4. listed["restarts"] \subseteq DOMAIN events
  BY DEF ScanInv, TypeOK, Lists
<1>5. Kind(n)' = row.kind /\ \A i \in 1..(n - 1) : Kind(i)' = Kind(i) /\ Key(i)' = Key(i)
  BY <1>1 DEF Kind, Key
<1> SUFFICES ASSUME NEW i \in 1..n
             PROVE  i \in listed'["restarts"] <=>
                      Kind(i)' = "create" /\ \E j \in 1..(i - 1) : RestartOf(i, j)'
  BY <1>1 DEF RestartsFollowExits
<1>6. CASE i = n
  <2>1. n \notin listed["restarts"]
    BY <1>1, <1>4
  <2> QED
    BY <1>2, <1>3, <1>5, <1>6, <2>1
<1>7. CASE i # n
  <2>1. i \in 1..(n - 1) /\ \A j \in 1..(i - 1) : j \in 1..(n - 1)
    BY <1>1, <1>7
  <2>2. ASSUME NEW j \in 1..(i - 1) PROVE RestartOf(i, j)' <=> RestartOf(i, j)
    <3>1. \A m \in (j + 1)..(i - 1) : m \in 1..(n - 1)
      BY <1>1, <2>1
    <3>2. events'[i] = events[i] /\ events'[j] = events[j]
      BY <1>1, <2>1
    <3> QED
      BY <1>5, <2>1, <3>1, <3>2 DEF RestartOf
  <2>3. i \in listed'["restarts"] <=> i \in listed["restarts"]
    BY <1>2, <1>7
  <2> QED
    BY <1>1, <1>5, <2>1, <2>2, <2>3 DEF ScanInv, RestartsFollowExits
<1> QED
  BY <1>6, <1>7

LEMMA ReadKeepsWrites ==
    ASSUME ScanInv, NEW row \in Rows, NEW ts \in Times, Read(row, ts), NEW p \in Paths
    PROVE  writes'[p] = IF p = Blank THEN {} ELSE WritesOf(p)'
<1>0. PICK n : n = Len(events) + 1
  OBVIOUS
<1>1. /\ n \in Nat \ {0}
      /\ DOMAIN events = 1..(n - 1) /\ DOMAIN events' = 1..n
      /\ events'[n] = [row |-> row, ts |-> ts]
      /\ \A i \in 1..(n - 1) : events'[i] = events[i]
  BY <1>0, RowIsAppended DEF ScanInv
<1>2. writes' = IF row.kind = "write" /\ ModifiedPath(row) # Blank
                THEN [writes EXCEPT ![ModifiedPath(row)] = writes[ModifiedPath(row)] \cup {n}]
                ELSE writes
  BY <1>0 DEF Read, Create, Exit, Modify, Other
<1>3. writes[p] = IF p = Blank THEN {} ELSE WritesOf(p)
  BY DEF ScanInv
<1>4. writes'[p] = IF row.kind = "write" /\ ModifiedPath(row) = p /\ p # Blank
                   THEN writes[p] \cup {n} ELSE writes[p]
  BY <1>2 DEF ScanInv, TypeOK
<1>5. WritesOf(p)' = IF row.kind = "write" /\ ModifiedPath(row) = p
                     THEN WritesOf(p) \cup {n} ELSE WritesOf(p)
  BY <1>1 DEF WritesOf, Kind
<1> QED
  BY <1>3, <1>4, <1>5

LEMMA ReadKeepsInv ==
    ASSUME ScanInv, NEW row \in Rows, NEW ts \in Times, Read(row, ts)
    PROVE  ScanInv'
<1>1. TypeOK'
  BY ReadKeepsTypes DEF ScanInv
<1>2. HotWritersAreHot'
  BY DEF Read, HotWritersAreHot
<1>3. ExitsInv'
  BY ReadKeepsExits
<1>4. (\A p \in Paths : writes[p] = IF p = Blank THEN {} ELSE WritesOf(p))'
  BY ReadKeepsWrites
<1> QED
  BY <1>1, <1>2, <1>3, <1>4, ReadKeepsNew, ReadKeepsRestarts DEF ScanInv

-----------------------------------------------------------------------------

\* The end of the scan turns the writes it has collected into the hot writers.
LEMMA FinishKeepsInv ==
    ASSUME ScanInv, Finish
    PROVE  ScanInv'
<1>1. /\ TypeOK' /\ NewProcessesAreFirst' /\ RestartsFollowExits'
      /\ \A p \in Paths : WritesOf(p)' = WritesOf(p)
  <2>1. TypeOK'
    BY DEF ScanInv, Finish, TypeOK
  <2>2. NewProcessesAreFirst'
    BY DEF ScanInv, Finish, NewProcessesAreFirst, Kind
  <2>3. RestartsFollowExits'
    BY DEF ScanInv, Finish, RestartsFollowExits, RestartOf, Kind, Key
  <2>4. \A p \in Paths : WritesOf(p)' = WritesOf(p)
    BY DEF Finish, WritesOf, Kind
  <2> QED
    BY <2>1, <2>2, <2>3, <2>4
<1>2. \A p \in Paths : Cardinality(writes[p]) >= HotCount <=>
                          p # Blank /\ Cardinality(WritesOf(p)) >= HotCount
  <2>1. Cardinality({}) = 0 /\ ~(0 >= HotCount)
    BY FS_EmptySet, DiffAssumption
  <2> QED
    BY <2>1 DEF ScanInv
<1>3. HotWritersAreHot'
  BY <1>1, <1>2 DEF Finish, HotWritersAreHot
<1> QED
  BY <1>1, <1>3 DEF ScanInv, ExitsInv, Finish, Kind, Key, WritesOf

\* No behaviour leaves the invariant of the scan.
THEOREM ScanInvHolds == Spec => []ScanInv
<1>1. ASSUME ScanInv, UNCHANGED vars PROVE ScanInv'
  <2>1. TypeOK'
    BY <1>1 DEF vars, ScanInv, TypeOK
  <2>2. NewProcessesAreFirst'
    BY <1>1 DEF vars, ScanInv, NewProcessesAreFirst, Kind
  <2>3. RestartsFollowExits'
    BY <1>1 DEF vars, ScanInv, RestartsFollowExits, RestartOf, Kind, Key
  <2>4. HotWritersAreHot'
    BY <1>1 DEF vars, ScanInv, HotWritersAreHot, WritesOf, Kind
  <2>5. ExitsInv'
    BY <1>1 DEF vars, ScanInv, ExitsInv, Kind, Key
  <2>6. (\A p \in Paths : writes[p] = IF p = Blank THEN {} ELSE WritesOf(p))'
    BY <1>1 DEF vars, ScanInv, WritesOf, Kind
  <2>7. (seenNewPID = {events[i].row.pid :
                         i \in {j \in DOMAIN events : Kind(j) = "create"}})'
    BY <1>1 DEF vars, ScanInv, Kind
  <2> QED
    BY <2>1, <2>2, <2>3, <2>4, <2>5, <2>6, <2>7 DEF ScanInv
<1>2. ASSUME ScanInv, [Next]_vars PROVE ScanInv'
  BY <1>1, <1>2, ReadKeepsInv, FinishKeepsInv DEF Next, Printed
<1> QED
  BY <1>2, InitEstablishesInv, PTL DEF Spec

\* The report lists positions of the scan, and no more rows than the limit.
THEOREM Typing == Spec => []TypeOK
BY ScanInvHolds, PTL DEF ScanInv

\* Creations are deduplicated by pid, whatever their order and their number.
THEOREM CreationsAreDeduplicated == Spec => []NewProcessesAreFirst
BY ScanInvHolds, PTL DEF ScanInv

\* The scan, which remembers one exit for each key, finds every restart that
\* the exits of the range define.
THEOREM RestartsAreExact == Spec => []RestartsFollowExits
BY ScanInvHolds, PTL DEF ScanInv

\* The hot writers are the paths with enough content writes.
THEOREM HotWritersAreExact == Spec => []HotWritersAreHot
BY ScanInvHolds, PTL DEF ScanInv

=============================================================================
