--------------------------- MODULE FdTrackingProofs ---------------------------
(* The invariants of FdTracking for every number of processes, threads,       *)
(* descriptors and names, and every size of the maps.                         *)
EXTENDS FdTracking, TLAPS

USE TrackingAssumption

\* What an event may be: typed, and with no filtered name but a torn one.
Sound(e) ==
    /\ e \in Event \cup {None}
    /\ e # None => \A read \in {e.path, e.oldPath} :
                      read.copied \in Filtered => read.checked \in Paths \ {read.copied}

\* The part of TrackingInv about the entries of pending_open and the calls.
PendingInv ==
    /\ PendingIsOfACallInProgress
    /\ \A t \in Threads : call[t] # None /\ call[t].str # None
                            => call[t].str.checked \in Paths \ Filtered

-----------------------------------------------------------------------------
(* Helpers.                                                                   *)

\* No reserved value is a name to filter.
LEMMA ReservedNotFiltered == Empty \notin Filtered /\ None \notin Filtered
BY DEF Paths

\* An update changes one entry, or none when the map is full.
LEMMA UpdatedEntry ==
    ASSUME NEW map, NEW key \in DOMAIN map, NEW value, NEW max
    PROVE  /\ DOMAIN Updated(map, key, value, max) = DOMAIN map
           /\ \A k \in DOMAIN map :
                 \/ Updated(map, key, value, max)[k] = map[k]
                 \/ k = key /\ Updated(map, key, value, max)[k] = value
BY DEF Updated

\* What read_path copies after a check that let the string pass.
LEMMA CopiesPassedTheCheck ==
    ASSUME NEW checked \in (Paths \cup {None}) \ Filtered, NEW read \in Copies(checked)
    PROVE  /\ read \in Reads
           /\ read.copied \in Filtered => read.checked \in Paths \ {read.copied}
<1>1. CASE checked = None
  <2>1. read = [checked |-> None, copied |-> Empty]
    BY <1>1 DEF Copies, Unread
  <2> QED
    BY <2>1, ReservedNotFiltered DEF Reads, Paths
<1>2. CASE checked # None
  <2>1. read \in Reads /\ read.checked = checked
    BY <1>2 DEF Copies
  <2> QED
    BY <1>2, <2>1
<1> QED
  BY <1>1, <1>2

\* An event out of strings of the process.
LEMMA EmitEventIsSound ==
    ASSUME NEW path \in Paths \cup {None}, NEW oldPath \in Paths \cup {None},
           EmitEvent(path, oldPath)
    PROVE  Sound(event')
<1>1. CASE event' = None
  BY <1>1 DEF Sound
<1>2. CASE event' # None
  <2>1. path \notin Filtered /\ oldPath \notin Filtered
    BY <1>2 DEF EmitEvent
  <2>2. PICK copy \in Copies(path), oldCopy \in Copies(oldPath) :
            event' = [path |-> copy, oldPath |-> oldCopy]
    BY <1>2, <2>1 DEF EmitEvent, Emit
  <2>3. event' \in Event /\ event'.path = copy /\ event'.oldPath = oldCopy
    BY <2>1, <2>2, CopiesPassedTheCheck DEF Event
  <2> QED
    BY <2>1, <2>3, CopiesPassedTheCheck DEF Sound
<1> QED
  BY <1>1, <1>2

\* The path of an event about a descriptor is the one of fd_path: empty.
LEMMA EmitFdIOIsSound ==
    ASSUME NEW p \in Pids, NEW fd \in Fds, NEW entries,
           entries[<<p, fd>>] \in {None, Empty},
           EmitFdIO(p, fd, entries)
    PROVE  Sound(event')
<1>1. CASE entries[<<p, fd>>] = None
  <2>1. EmitEvent(None, None)
    BY <1>1, ReservedNotFiltered DEF EmitFdIO
  <2> QED
    BY <2>1, EmitEventIsSound
<1>2. CASE entries[<<p, fd>>] = Empty
  <2>1. Empty # None
    BY DEF Paths
  <2>2. Emit(Unread(Empty), Unread(Empty))
    BY <1>2, <2>1, ReservedNotFiltered DEF EmitFdIO
  <2>3. Unread(Empty) \in Copies(None)
    BY DEF Copies
  <2>4. EmitEvent(None, None)
    BY <2>2, <2>3, ReservedNotFiltered DEF EmitEvent
  <2> QED
    BY <2>4, EmitEventIsSound
<1> QED
  BY <1>1, <1>2

\* That an entry is a copy of a checked string is all the filter needs.
LEMMA PendingIsFiltered ==
    ASSUME PendingInv', Sound(event')
    PROVE  SettledNamesAreFiltered'
<1>1. ASSUME NEW p \in Pids, pendingOpen'[p] \in Filtered
      PROVE  \E t \in Threads :
                  /\ Process[t] = p
                  /\ call'[t] # None /\ call'[t].str # None
                  /\ call'[t].str.copied = pendingOpen'[p]
                  /\ call'[t].str.checked \in Paths \ {pendingOpen'[p]}
  BY <1>1, ReservedNotFiltered DEF PendingInv, PendingIsOfACallInProgress
<1> QED
  BY <1>1 DEF SettledNamesAreFiltered, Sound

\* What a step owes: types, the entries of pending_open, a sound event and no
\* path in fd_path.
LEMMA StepKeepsInv ==
    ASSUME openFds' \in [Pids -> SUBSET Fds],
           call' \in [Threads -> Call \cup {None}],
           pendingOpen' \in [Pids -> Paths \cup {None}],
           fdPath' \in [Pids \X Fds -> {None, Empty}],
           \A p \in Pids, fd \in Fds : fd > FdLimit => fdPath'[<<p, fd>>] = None,
           PendingInv', Sound(event')
    PROVE  TrackingInv'
<1>1. SettledNamesAreFiltered'
  BY PendingIsFiltered
<1>2. fdPath' \in [Pids \X Fds -> Paths \cup {None}]
  BY DEF Paths
<1>3. TypeOK'
  BY <1>2 DEF TypeOK, Sound
<1> QED
  BY <1>1, <1>3 DEF TrackingInv, PendingInv

\* A step that leaves calls and pending_open alone owes the rest only.
LEMMA OtherStepKeepsInv ==
    ASSUME TrackingInv, UNCHANGED <<call, pendingOpen>>, Sound(event'),
           openFds' \in [Pids -> SUBSET Fds],
           fdPath' \in [Pids \X Fds -> {None, Empty}],
           \A k \in Pids \X Fds : fdPath'[k] = fdPath[k] \/ fdPath'[k] = None
    PROVE  TrackingInv'
<1>1. PendingInv'
  BY DEF TrackingInv, PendingInv, PendingIsOfACallInProgress
<1>2. \A p \in Pids, fd \in Fds : fd > FdLimit => fdPath'[<<p, fd>>] = None
  BY DEF TrackingInv, TypeOK
<1> QED
  BY <1>1, <1>2, StepKeepsInv DEF TrackingInv, TypeOK

-----------------------------------------------------------------------------
(* The steps of an open.                                                      *)

\* The enter program: the entry it writes is the copy its own call has made of a
\* string that passed the check.
LEMMA OpenEnterKeepsInv ==
    ASSUME TrackingInv, NEW t \in Threads, OpenEnter(t)
    PROVE  TrackingInv'
<1>1. PICK seen \in Paths, path \in Paths :
          /\ \E str \in IF seen \in Filtered THEN {None} ELSE Copies(seen) :
                /\ call' = [call EXCEPT ![t] = [str |-> str, fd |-> None]]
                /\ SavePendingOpen(Process[t], str)
          /\ EmitEvent(path, None)
  BY DEF OpenEnter
<1>2. PICK str \in IF seen \in Filtered THEN {None} ELSE Copies(seen) :
          /\ call' = [call EXCEPT ![t] = [str |-> str, fd |-> None]]
          /\ SavePendingOpen(Process[t], str)
  BY <1>1
<1> DEFINE p == Process[t]
<1>3. p \in Pids /\ call[t] = None /\ UNCHANGED <<openFds, fdPath>> /\ TypeOK
  BY DEF OpenEnter, TrackingInv
<1>4. Sound(event')
  BY <1>1, EmitEventIsSound
<1>5. \/ str = None
      \/ str \in Reads /\ str.checked \in Paths \ Filtered /\ str # None
  <2>1. CASE seen \in Filtered
    BY <2>1
  <2>2. CASE seen \notin Filtered
    BY <2>2 DEF Copies, Paths
  <2> QED
    BY <2>1, <2>2
<1>6. /\ call' \in [Threads -> Call \cup {None}] /\ call'[t] # None /\ call'[t].str = str
      /\ \A u \in Threads \ {t} : call'[u] = call[u]
  <2>1. [str |-> str, fd |-> None] \in Call
    BY <1>5 DEF Call
  <2> QED
    BY <1>2, <1>3, <2>1 DEF TypeOK
<1>7. /\ pendingOpen' \in [Pids -> Paths \cup {None}]
      /\ \A q \in Pids : \/ pendingOpen'[q] = pendingOpen[q]
                         \/ q = p /\ str # None /\ pendingOpen'[q] = str.copied
  <2>1. CASE str = None
    BY <1>2, <1>3, <2>1 DEF SavePendingOpen, TypeOK
  <2>2. CASE str # None
    <3>1. pendingOpen' = Updated(pendingOpen, p, str.copied, PendingMax)
      BY <1>2, <2>2 DEF SavePendingOpen
    <3>2. str.copied \in Paths
      BY <1>5, <2>2 DEF Reads
    <3> QED
      BY <1>3, <2>2, <3>1, <3>2 DEF Updated, TypeOK
  <2> QED
    BY <2>1, <2>2
<1>8. PendingIsOfACallInProgress'
  <2> SUFFICES ASSUME NEW q \in Pids, pendingOpen'[q] # None
               PROVE  \E u \in Threads : /\ Process[u] = q
                                         /\ call'[u] # None /\ call'[u].str # None
                                         /\ call'[u].str.copied = pendingOpen'[q]
    BY DEF PendingIsOfACallInProgress
  <2>1. CASE q = p /\ str # None /\ pendingOpen'[q] = str.copied
    BY <1>6, <2>1
  <2>2. CASE pendingOpen'[q] = pendingOpen[q]
    <3>1. PICK u \in Threads : /\ Process[u] = q
                               /\ call[u] # None /\ call[u].str # None
                               /\ call[u].str.copied = pendingOpen[q]
      BY <2>2 DEF TrackingInv, PendingIsOfACallInProgress
    <3>2. u # t
      BY <1>3, <3>1
    <3> QED
      BY <1>6, <2>2, <3>1, <3>2
  <2> QED
    BY <1>7, <2>1, <2>2
<1>9. PendingInv'
  BY <1>5, <1>6, <1>8 DEF PendingInv, TrackingInv
<1> QED
  BY <1>3, <1>4, <1>6, <1>7, <1>9, StepKeepsInv DEF TypeOK, TrackingInv

\* The kernel gives the call a descriptor; its string stays.
LEMMA InstallKeepsInv ==
    ASSUME TrackingInv, NEW t \in Threads, Install(t)
    PROVE  TrackingInv'
<1>1. PICK fd \in Fds :
          /\ openFds' = [openFds EXCEPT ![Process[t]] = @ \cup {fd}]
          /\ call' = [call EXCEPT ![t].fd = fd]
  BY DEF Install
<1>2. call[t] \in Call /\ call[t] # None /\ event' = None /\ UNCHANGED maps
      /\ Process[t] \in Pids /\ TypeOK
  BY DEF Install, TrackingInv, TypeOK
<1>3. call'[t] \in Call /\ call'[t].str = call[t].str /\ call'[t] # None
      /\ \A u \in Threads \ {t} : call'[u] = call[u]
  BY <1>1, <1>2 DEF Call, TypeOK
<1>4. call' \in [Threads -> Call \cup {None}]
  BY <1>1, <1>3 DEF TrackingInv, TypeOK
<1>5. openFds' \in [Pids -> SUBSET Fds]
  BY <1>1, <1>2 DEF TypeOK
<1>6. PendingIsOfACallInProgress'
  <2> SUFFICES ASSUME NEW q \in Pids, pendingOpen[q] # None
               PROVE  \E u \in Threads : /\ Process[u] = q
                                         /\ call'[u] # None /\ call'[u].str # None
                                         /\ call'[u].str.copied = pendingOpen[q]
    BY <1>2 DEF PendingIsOfACallInProgress, maps
  <2>1. PICK u \in Threads : /\ Process[u] = q /\ call[u] # None /\ call[u].str # None
                             /\ call[u].str.copied = pendingOpen[q]
    BY DEF TrackingInv, PendingIsOfACallInProgress
  <2> QED
    BY <1>3, <2>1
<1>7. PendingInv'
  BY <1>2, <1>3, <1>6 DEF PendingInv, TrackingInv
<1>8. Sound(event')
  BY <1>2 DEF Sound
<1> QED
  BY <1>2, <1>4, <1>5, <1>7, <1>8, StepKeepsInv DEF TypeOK, TrackingInv, maps

\* A call that returns takes the entry of its process with it, its own or that
\* of another thread: what is left belongs to other processes.
LEMMA ReturnKeepsInv ==
    ASSUME TrackingInv, NEW t \in Threads,
           call' = [call EXCEPT ![t] = None], event' = None, UNCHANGED openFds,
           pendingOpen' = Deleted(pendingOpen, Process[t]),
           fdPath' \in [Pids \X Fds -> {None, Empty}],
           \A p \in Pids, fd \in Fds : fd > FdLimit => fdPath'[<<p, fd>>] = None
    PROVE  TrackingInv'
<1> DEFINE p == Process[t]
<1>1. p \in Pids /\ TypeOK
  BY DEF TrackingInv
<1>2. /\ pendingOpen' \in [Pids -> Paths \cup {None}] /\ pendingOpen'[p] = None
      /\ \A q \in Pids \ {p} : pendingOpen'[q] = pendingOpen[q]
  BY <1>1 DEF Deleted, TypeOK
<1>3. /\ call' \in [Threads -> Call \cup {None}] /\ call'[t] = None
      /\ \A u \in Threads \ {t} : call'[u] = call[u]
  BY <1>1 DEF TypeOK
<1>4. PendingIsOfACallInProgress'
  <2> SUFFICES ASSUME NEW q \in Pids, pendingOpen'[q] # None
               PROVE  \E u \in Threads : /\ Process[u] = q
                                         /\ call'[u] # None /\ call'[u].str # None
                                         /\ call'[u].str.copied = pendingOpen'[q]
    BY DEF PendingIsOfACallInProgress
  <2>1. q # p /\ pendingOpen'[q] = pendingOpen[q]
    BY <1>2
  <2>2. PICK u \in Threads : /\ Process[u] = q /\ call[u] # None /\ call[u].str # None
                             /\ call[u].str.copied = pendingOpen[q]
    BY <2>1 DEF TrackingInv, PendingIsOfACallInProgress
  <2> QED
    BY <1>3, <2>1, <2>2
<1>5. PendingInv'
  BY <1>3, <1>4 DEF PendingInv, TrackingInv
<1>6. Sound(event')
  BY DEF Sound
<1> QED
  BY <1>1, <1>2, <1>3, <1>5, <1>6, StepKeepsInv DEF TypeOK

\* The exit program: what it copies into fd_path is empty.
LEMMA OpenExitKeepsInv ==
    ASSUME TrackingInv, NEW t \in Threads, OpenExit(t)
    PROVE  TrackingInv'
<1> DEFINE p == Process[t]
           fd == call[t].fd
<1>1. p \in Pids /\ fd \in Fds /\ event' = None /\ UNCHANGED openFds
      /\ call' = [call EXCEPT ![t] = None]
  BY DEF OpenExit, TrackingInv, TypeOK, Call
<1>2. fdPath \in [Pids \X Fds -> {None, Empty}]
      /\ \A q \in Pids, d \in Fds : d > FdLimit => fdPath[<<q, d>>] = None
  BY DEF TrackingInv, TypeOK
<1>3. CASE pendingOpen[p] = None
  <2>1. UNCHANGED maps
    BY <1>3 DEF OpenExit
  <2>2. pendingOpen' = Deleted(pendingOpen, p)
    BY <1>1, <1>3, <2>1 DEF Deleted, maps, TrackingInv, TypeOK
  <2>3. fdPath' = fdPath
    BY <2>1 DEF maps
  <2> QED
    BY <1>1, <1>2, <2>2, <2>3, ReturnKeepsInv
<1>4. CASE pendingOpen[p] # None
  <2>1. SaveFdPath(p, fd, pendingOpen[p]) /\ pendingOpen' = Deleted(pendingOpen, p)
    BY <1>4 DEF OpenExit
  <2>2. \/ fdPath' = fdPath
        \/ fd <= FdLimit /\ fdPath' = [fdPath EXCEPT ![<<p, fd>>] = Empty]
    BY <1>1, <2>1 DEF SaveFdPath, ReadMapValueAsUserStr, Updated, Fds
  <2>3. CASE fdPath' = fdPath
    BY <1>1, <1>2, <2>1, <2>3, ReturnKeepsInv
  <2>4. CASE fd <= FdLimit /\ fdPath' = [fdPath EXCEPT ![<<p, fd>>] = Empty]
    <3>1. /\ fdPath' \in [Pids \X Fds -> {None, Empty}]
          /\ \A k \in Pids \X Fds : fdPath'[k] = IF k = <<p, fd>> THEN Empty ELSE fdPath[k]
      BY <1>1, <1>2, <2>4
    <3>2. \A q \in Pids, d \in Fds : d > FdLimit => fdPath'[<<q, d>>] = None
      <4> SUFFICES ASSUME NEW q \in Pids, NEW d \in Fds, d > FdLimit
                   PROVE  fdPath'[<<q, d>>] = None
        OBVIOUS
      <4>1. <<q, d>> # <<p, fd>>
        BY <1>1, <2>4 DEF Fds
      <4> QED
        BY <1>2, <3>1, <4>1
    <3> QED
      BY <1>1, <2>1, <3>1, <3>2, ReturnKeepsInv
  <2> QED
    BY <2>2, <2>3, <2>4
<1> QED
  BY <1>3, <1>4

\* A failed open only takes the entry.
LEMMA OpenFailsKeepsInv ==
    ASSUME TrackingInv, NEW t \in Threads, OpenFails(t)
    PROVE  TrackingInv'
<1>1. fdPath' = fdPath
  BY DEF OpenFails
<1>2. fdPath' \in [Pids \X Fds -> {None, Empty}]
  BY <1>1 DEF TrackingInv, TypeOK
<1> QED
  BY <1>1, <1>2, ReturnKeepsInv DEF OpenFails, TrackingInv, TypeOK

-----------------------------------------------------------------------------
(* The other calls.                                                           *)

\* Calls with an enter program only leave pending_open alone, and fd_path but
\* for the entry a close deletes.
LEMMA OtherCallKeepsInv ==
    ASSUME TrackingInv, NEW t \in Threads, OtherStep(t)
    PROVE  TrackingInv'
<1> DEFINE p == Process[t]
<1>1. p \in Pids /\ TypeOK /\ Empty \in Paths
      /\ fdPath \in [Pids \X Fds -> {None, Empty}]
  BY DEF TrackingInv, TypeOK, Paths
<1>2. ASSUME NEW fd \in Fds, FdIO(t, fd) PROVE TrackingInv'
  <2>1. EmitFdIO(p, fd, fdPath) /\ UNCHANGED <<openFds, call, pendingOpen, fdPath>>
    BY <1>2 DEF FdIO, kernelVars, maps
  <2>2. fdPath[<<p, fd>>] \in {None, Empty}
    BY <1>1
  <2>3. Sound(event')
    BY <1>1, <2>1, <2>2, EmitFdIOIsSound
  <2> QED
    BY <1>1, <2>1, <2>3, OtherStepKeepsInv DEF TypeOK
<1>3. ASSUME NEW fd \in Fds, Close(t, fd) PROVE TrackingInv'
  <2> DEFINE entries == Deleted(fdPath, <<p, fd>>)
  <2>1. /\ EmitFdIO(p, fd, entries) /\ fdPath' = entries
        /\ openFds' = [openFds EXCEPT ![p] = @ \ {fd}]
        /\ UNCHANGED <<call, pendingOpen>>
    BY <1>3 DEF Close
  <2>2. /\ entries \in [Pids \X Fds -> {None, Empty}]
        /\ entries[<<p, fd>>] = None
        /\ \A k \in Pids \X Fds : entries[k] = fdPath[k] \/ entries[k] = None
    BY <1>1, <2>1 DEF Deleted
  <2>3. openFds' \in [Pids -> SUBSET Fds]
    BY <1>1, <2>1 DEF TypeOK
  <2> HIDE DEF entries
  <2>4. entries[<<p, fd>>] \in {None, Empty}
    BY <2>2
  <2>5. Sound(event')
    BY <1>1, <2>1, <2>4, EmitFdIOIsSound
  <2> QED
    BY <2>1, <2>2, <2>3, <2>5, OtherStepKeepsInv
<1>4. ASSUME NEW fd \in Fds, Dup(t, fd) PROVE TrackingInv'
  <2>1. EmitFdIO(p, fd, fdPath) /\ UNCHANGED <<call, pendingOpen, fdPath>>
    BY <1>4 DEF Dup, maps
  <2>2. openFds' \in [Pids -> SUBSET Fds]
    BY <1>1, <1>4 DEF Dup, TypeOK
  <2>3. fdPath[<<p, fd>>] \in {None, Empty}
    BY <1>1
  <2>4. Sound(event')
    BY <1>1, <2>1, <2>3, EmitFdIOIsSound
  <2> QED
    BY <1>1, <2>1, <2>2, <2>4, OtherStepKeepsInv
<1>5. ASSUME NEW fd \in Fds, NEW new \in Fds, Dup2(t, fd, new) PROVE TrackingInv'
  <2>1. EmitEvent(None, None) /\ UNCHANGED <<call, pendingOpen, fdPath>>
    BY <1>5 DEF Dup2, maps
  <2>2. openFds' \in [Pids -> SUBSET Fds]
    BY <1>1, <1>5 DEF Dup2, TypeOK
  <2>3. Sound(event')
    BY <2>1, EmitEventIsSound
  <2> QED
    BY <1>1, <2>1, <2>2, <2>3, OtherStepKeepsInv
<1>6. ASSUME NEW path \in Paths \cup {None}, NEW old \in Paths \cup {None},
             PathCall(t, path, old)
      PROVE  TrackingInv'
  <2>1. EmitEvent(path, old) /\ UNCHANGED <<openFds, call, pendingOpen, fdPath>>
    BY <1>6 DEF PathCall, kernelVars, maps
  <2>2. Sound(event')
    BY <2>1, EmitEventIsSound
  <2> QED
    BY <1>1, <2>1, <2>2, OtherStepKeepsInv DEF TypeOK
<1>7. ASSUME NEW path \in Paths, NEW closed \in SUBSET Fds, Exec(t, path, closed)
      PROVE  TrackingInv'
  <2>1. EmitEvent(path, None) /\ UNCHANGED <<call, pendingOpen, fdPath>>
    BY <1>7 DEF Exec, maps
  <2>2. openFds' \in [Pids -> SUBSET Fds]
    BY <1>1, <1>7 DEF Exec, TypeOK
  <2>3. Sound(event')
    BY <2>1, EmitEventIsSound
  <2> QED
    BY <1>1, <2>1, <2>2, <2>3, OtherStepKeepsInv
<1> QED
  BY <1>2, <1>3, <1>4, <1>5, <1>6, <1>7 DEF OtherStep

\* The maps do not see a process end or a pid come back.
LEMMA ReuseKeepsInv ==
    ASSUME TrackingInv, NEW p \in Pids, NEW parent \in Pids, ExitAndReusePid(p, parent)
    PROVE  TrackingInv'
<1>1. UNCHANGED <<call, pendingOpen, fdPath>> /\ EmitEvent(None, None)
  BY DEF ExitAndReusePid, maps
<1>2. Sound(event')
  BY <1>1, EmitEventIsSound
<1>3. openFds' \in [Pids -> SUBSET Fds]
  BY DEF ExitAndReusePid, TrackingInv, TypeOK
<1>4. fdPath' \in [Pids \X Fds -> {None, Empty}]
  BY <1>1 DEF TrackingInv, TypeOK
<1> QED
  BY <1>1, <1>2, <1>3, <1>4, OtherStepKeepsInv DEF TrackingInv

-----------------------------------------------------------------------------

\* The tracking invariant holds of every execution.
THEOREM TrackingInvariance == Spec => []TrackingInv
<1>1. Init => TrackingInv
  BY ReservedNotFiltered
     DEF Init, TrackingInv, TypeOK, PendingIsOfACallInProgress, SettledNamesAreFiltered
<1>2. TrackingInv /\ [Next]_vars => TrackingInv'
  <2> SUFFICES ASSUME TrackingInv, [Next]_vars PROVE TrackingInv'
    OBVIOUS
  <2>1. ASSUME NEW t \in Threads, OpenStep(t) PROVE TrackingInv'
    BY <2>1, OpenEnterKeepsInv, InstallKeepsInv, OpenExitKeepsInv, OpenFailsKeepsInv
       DEF OpenStep
  <2>2. CASE UNCHANGED vars
    BY <2>2 DEF TrackingInv, TypeOK, PendingIsOfACallInProgress,
                SettledNamesAreFiltered, vars, kernelVars, maps
  <2> QED
    BY <2>1, <2>2, OtherCallKeepsInv, ReuseKeepsInv DEF Next
<1> QED
  BY <1>1, <1>2, PTL DEF Spec

\* Types, and no entry above the limit.
THEOREM TrackingTypeCorrect == Spec => []TypeOK
<1>1. TrackingInv => TypeOK
  BY DEF TrackingInv
<1> QED
  BY <1>1, TrackingInvariance, PTL

\* No entry of pending_open outlives the calls that may use it.
THEOREM NoLeftoverPending == Spec => []PendingIsOfACallInProgress
<1>1. TrackingInv => PendingIsOfACallInProgress
  BY DEF TrackingInv
<1> QED
  BY <1>1, TrackingInvariance, PTL

\* No event and no entry of pending_open holds a name under /proc, /sys or /dev,
\* but one that replaced another between the two reads of the string.
THEOREM FilterHolds == Spec => []SettledNamesAreFiltered
<1>1. TrackingInv => SettledNamesAreFiltered
  BY DEF TrackingInv
<1> QED
  BY <1>1, TrackingInvariance, PTL

=============================================================================
