------------------------------ MODULE FdTracking ------------------------------
(***************************************************************************)
(* The path tracking of internal/ebpf/collector.bpf.c: what the tracepoint *)
(* programs keep in pending_open and fd_path, and the path they put in an  *)
(* event, while the threads of the recorded processes open, use, duplicate *)
(* and close descriptors.                                                  *)
(*                                                                         *)
(* A tracepoint program is one step; a system call is the step of its      *)
(* enter program, what the kernel does, and the step of its exit program,  *)
(* if it has one.  The kernel's own part (external) is modelled by what    *)
(* the programs rely on: descriptors, processes, map updates that fail     *)
(* when a map is full.                                                     *)
(***************************************************************************)
EXTENDS Integers, FiniteSets

CONSTANTS Pids, Threads,
          Process,      \* the process of each thread
          MaxFd,        \* the largest descriptor
          FdLimit,      \* the largest one fd_path covers: 1024
          Names,
          Filtered,     \* the names under /proc, /sys and /dev
          PendingMax,   \* max_entries of pending_open: 4096
          FdPathMax,    \* max_entries of fd_path: 16384
          Empty,        \* the empty path
          None          \* no entry, no descriptor, no call, no event

Fds == 0..MaxFd
Paths == Names \cup {Empty}

\* A string of the process is read twice: what path_ignored_user found when it
\* checked the string, and what was copied into a map or an event after that.
\* Threads of the process may write to it at any time, and a read of a page that
\* is not resident finds Empty.  checked is history, nothing reads it again; it is
\* None where the program was given no string or a path out of a map.
Reads == [checked : Paths \cup {None}, copied : Paths]
Unread(path) == [checked |-> None, copied |-> path]

\* A call of open: the reads for its entry of pending_open, None if it made none,
\* and the descriptor once the kernel has one.
Call == [str : Reads \cup {None}, fd : Fds \cup {None}]
Event == [path : Reads, oldPath : Reads]

ASSUME TrackingAssumption ==
    /\ IsFiniteSet(Pids) /\ IsFiniteSet(Threads)
    /\ Process \in [Threads -> Pids]
    /\ MaxFd \in Nat /\ FdLimit \in Int
    /\ Filtered \subseteq Names
    /\ PendingMax \in Nat /\ FdPathMax \in Nat
    /\ Empty \notin Names /\ None \notin Paths \cup Reads \cup Call \cup Event

VARIABLES openFds,      \* the open descriptors of each process
          call,         \* the open each thread is in
          pendingOpen,  \* pending_open: process -> path
          fdPath,       \* fd_path: process and descriptor -> path
          event         \* the event the last step has submitted

kernelVars == <<openFds, call>>
maps == <<pendingOpen, fdPath>>
vars == <<kernelVars, maps, event>>

\* Descriptors may have been opened before the programs were attached.
Init ==
    /\ openFds \in [Pids -> SUBSET Fds]
    /\ call = [t \in Threads |-> None]
    /\ pendingOpen = [p \in Pids |-> None]
    /\ fdPath = [k \in Pids \X Fds |-> None]
    /\ event = None

-----------------------------------------------------------------------------
(* Helpers of the programs.                                                *)

\* bpf_map_update_elem with BPF_ANY: a new key needs room.
Updated(map, key, value, max) ==
    IF map[key] # None \/ Cardinality({k \in DOMAIN map : map[k] # None}) < max
    THEN [map EXCEPT ![key] = value]
    ELSE map

Deleted(map, key) == [map EXCEPT ![key] = None]

\* bpf_probe_read_user_str of an address that is not in user memory, as that
\* of a map value: it fails and leaves the buffer zero.
ReadMapValueAsUserStr(str) == Empty

\* The event is submitted, or lost: the ring buffer is full, or the process is
\* the daemon itself (should_skip).
Emit(path, oldPath) ==
    \/ event' = [path |-> path, oldPath |-> oldPath]
    \/ event' = None

\* What read_path can copy after the check found checked.
Copies(checked) ==
    IF checked = None THEN {Unread(Empty)} ELSE {r \in Reads : r.checked = checked}

\* Mutant: the first path alone is filtered.
EmitEventFirstPath(path, oldPath) ==
    IF path \in Filtered
    THEN event' = None
    ELSE \E copy \in Copies(path), oldCopy \in Copies(oldPath) : Emit(copy, oldCopy)

\* path and oldPath are what the checks find, None for no string.
EmitEvent(path, oldPath) ==
    IF path \in Filtered \/ oldPath \in Filtered
    THEN event' = None
    ELSE \E copy \in Copies(path), oldCopy \in Copies(oldPath) : Emit(copy, oldCopy)

EmitFdIO(p, fd, entries) ==
    LET state == entries[<<p, fd>>]
    IN  \/ state = None /\ EmitEvent(None, None)
        \/ state \in Filtered /\ event' = None
        \/ state \notin Filtered \cup {None} /\ Emit(Unread(state), Unread(Empty))

-----------------------------------------------------------------------------
(* open, openat, openat2.                                                  *)

\* str is None when the check has found a name to filter.
SavePendingOpen(p, str) ==
    IF str = None
    THEN UNCHANGED pendingOpen
    ELSE pendingOpen' = Updated(pendingOpen, p, str.copied, PendingMax)

\* Four reads of the name: a check and a copy for the map, then for the event.
OpenEnter(t) ==
    /\ call[t] = None
    /\ \E seen, path \in Paths :
          /\ \E str \in IF seen \in Filtered THEN {None} ELSE Copies(seen) :
                /\ call' = [call EXCEPT ![t] = [str |-> str, fd |-> None]]
                /\ SavePendingOpen(Process[t], str)
          /\ EmitEvent(path, None)
    /\ UNCHANGED <<openFds, fdPath>>

\* The kernel gives out the lowest free descriptor.
LowestFree(p, fd) ==
    fd \notin openFds[p] /\ \A lower \in Fds : lower < fd => lower \in openFds[p]

\* Other threads may use the new descriptor before the exit program runs.
Install(t) ==
    /\ call[t] # None /\ call[t].fd = None
    /\ \E fd \in Fds :
          /\ LowestFree(Process[t], fd)
          /\ openFds' = [openFds EXCEPT ![Process[t]] = @ \cup {fd}]
          /\ call' = [call EXCEPT ![t].fd = fd]
    /\ event' = None
    /\ UNCHANGED maps

\* Mutant: the limit is forgotten.
SaveAnyFdPath(p, fd, path) ==
    LET str == ReadMapValueAsUserStr(path)
    IN  IF str \in Filtered
        THEN UNCHANGED fdPath
        ELSE fdPath' = Updated(fdPath, <<p, fd>>, str, FdPathMax)

SaveFdPath(p, fd, path) ==
    LET str == ReadMapValueAsUserStr(path)
    IN  IF fd > FdLimit \/ str \in Filtered
        THEN UNCHANGED fdPath
        ELSE fdPath' = Updated(fdPath, <<p, fd>>, str, FdPathMax)

OpenExit(t) ==
    LET p == Process[t]
    IN  /\ call[t] # None /\ call[t].fd # None
        /\ IF pendingOpen[p] = None
           THEN UNCHANGED maps
           ELSE /\ SaveFdPath(p, call[t].fd, pendingOpen[p])
                /\ pendingOpen' = Deleted(pendingOpen, p)
        /\ call' = [call EXCEPT ![t] = None]
        /\ event' = None
        /\ UNCHANGED openFds

\* Mutant: a failed open leaves its entry.
OpenFailsKeepingEntry(t) ==
    /\ call[t] # None /\ call[t].fd = None
    /\ call' = [call EXCEPT ![t] = None]
    /\ event' = None
    /\ UNCHANGED <<openFds, pendingOpen, fdPath>>

OpenFails(t) ==
    /\ call[t] # None /\ call[t].fd = None
    /\ pendingOpen' = Deleted(pendingOpen, Process[t])
    /\ call' = [call EXCEPT ![t] = None]
    /\ event' = None
    /\ UNCHANGED <<openFds, fdPath>>

-----------------------------------------------------------------------------
(* The other calls, which have an enter program only.  A thread in open    *)
(* makes none.                                                             *)

\* read, write, lseek, fchmod, ... and each half of sendfile or splice.
FdIO(t, fd) ==
    /\ call[t] = None
    /\ EmitFdIO(Process[t], fd, fdPath)
    /\ UNCHANGED <<kernelVars, maps>>

\* The entry goes before the event is made.
Close(t, fd) ==
    LET p == Process[t]
    IN  /\ call[t] = None
        /\ fdPath' = Deleted(fdPath, <<p, fd>>)
        /\ EmitFdIO(p, fd, Deleted(fdPath, <<p, fd>>))
        /\ openFds' = [openFds EXCEPT ![p] = @ \ {fd}]
        /\ UNCHANGED <<call, pendingOpen>>

\* A dup that fails is an event too.
Dup(t, fd) ==
    LET p == Process[t]
    IN  /\ call[t] = None
        /\ EmitFdIO(p, fd, fdPath)
        /\ \/ UNCHANGED openFds
           \/ \E new \in Fds :
                 /\ fd \in openFds[p] /\ LowestFree(p, new)
                 /\ openFds' = [openFds EXCEPT ![p] = @ \cup {new}]
        /\ UNCHANGED <<call, maps>>

\* dup2 and dup3: no program tells the maps that new was closed.
Dup2(t, fd, new) ==
    LET p == Process[t]
    IN  /\ call[t] = None
        /\ EmitEvent(None, None)
        /\ \/ UNCHANGED openFds
           \/ fd \in openFds[p] /\ openFds' = [openFds EXCEPT ![p] = @ \cup {new}]
        /\ UNCHANGED <<call, maps>>

\* unlink, chmod, stat, ...: one path or none, or the two of rename and link.
PathCall(t, path, old) ==
    /\ call[t] = None
    /\ EmitEvent(path, old)
    /\ UNCHANGED <<kernelVars, maps>>

Idle(p) == \A t \in Threads : Process[t] = p => call[t] = None

\* exec closes some descriptors, exit all; neither touches the maps.
Exec(t, path, closed) ==
    LET p == Process[t]
    IN  /\ Idle(p)
        /\ EmitEvent(path, None)
        /\ openFds' = [openFds EXCEPT ![p] = @ \ closed]
        /\ UNCHANGED <<call, maps>>

\* A process exits and a fork gives its pid to a child with the descriptors of
\* its parent.
ExitAndReusePid(p, parent) ==
    /\ Idle(p) /\ p # parent
    /\ EmitEvent(None, None)
    /\ openFds' = [openFds EXCEPT ![p] = openFds[parent]]
    /\ UNCHANGED <<call, maps>>

-----------------------------------------------------------------------------

OpenStep(t) ==
    \/ OpenEnter(t)
    \/ Install(t)
    \/ OpenExit(t)
    \/ OpenFails(t)

OtherStep(t) ==
    \/ \E fd \in Fds : FdIO(t, fd) \/ Close(t, fd) \/ Dup(t, fd)
    \/ \E fd, new \in Fds : Dup2(t, fd, new)
    \/ PathCall(t, None, None)
    \/ \E path \in Paths, old \in Paths \cup {None} : PathCall(t, path, old)
    \/ \E path \in Paths, closed \in SUBSET Fds : Exec(t, path, closed)

Next ==
    \/ \E t \in Threads : OpenStep(t) \/ OtherStep(t)
    \/ \E p, parent \in Pids : ExitAndReusePid(p, parent)

Spec == Init /\ [][Next]_vars

-----------------------------------------------------------------------------

\* Types, and no entry for a descriptor above the limit.
TypeOK ==
    /\ openFds \in [Pids -> SUBSET Fds]
    /\ call \in [Threads -> Call \cup {None}]
    /\ pendingOpen \in [Pids -> Paths \cup {None}]
    /\ fdPath \in [Pids \X Fds -> Paths \cup {None}]
    /\ \A p \in Pids, fd \in Fds : fd > FdLimit => fdPath[<<p, fd>>] = None
    /\ event \in Event \cup {None}

\* An entry of pending_open belongs to an open that has not returned, whichever
\* threads of the process overlapped: the map cannot fill up with leftovers, and
\* no later open finds the name of an earlier one.
PendingIsOfACallInProgress ==
    \A p \in Pids :
        pendingOpen[p] # None =>
            \E t \in Threads : /\ Process[t] = p
                               /\ call[t] # None /\ call[t].str # None
                               /\ call[t].str.copied = pendingOpen[p]

\* A name under /proc, /sys or /dev gets past the filter only in a string that
\* changed between check and copy: each path of an event, and an entry of
\* pending_open, which then is the copy of an open that has not returned.
SettledNamesAreFiltered ==
    /\ event # None =>
          \A read \in {event.path, event.oldPath} :
              read.copied \in Filtered => read.checked \in Paths \ {read.copied}
    /\ \A p \in Pids :
          pendingOpen[p] \in Filtered =>
              \E t \in Threads :
                  /\ Process[t] = p
                  /\ call[t] # None /\ call[t].str # None
                  /\ call[t].str.copied = pendingOpen[p]
                  /\ call[t].str.checked \in Paths \ {pendingOpen[p]}

\* What makes these inductive: whatever an open in progress has copied into
\* pending_open passed the check first, and no path is ever copied into fd_path.
TrackingInv ==
    /\ TypeOK
    /\ PendingIsOfACallInProgress
    /\ SettledNamesAreFiltered
    /\ \A t \in Threads : call[t] # None /\ call[t].str # None
                            => call[t].str.checked \in Paths \ Filtered
    /\ \A k \in Pids \X Fds : fdPath[k] \in {None, Empty}

-----------------------------------------------------------------------------
(* What the documentation says.                                            *)

\* docs/recording.md: "map covers fds <= 1024": the path an open is waiting with
\* is the path its descriptor is given.
OpenedDescriptorsHavePaths ==
    [][\A p \in Pids, fd \in Fds :
          fdPath[<<p, fd>>] # fdPath'[<<p, fd>>] /\ fdPath'[<<p, fd>>] # None
              => fdPath'[<<p, fd>>] = pendingOpen[p]]_vars

=============================================================================
