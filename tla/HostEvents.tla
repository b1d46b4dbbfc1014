------------------------------ MODULE HostEvents ------------------------------
(***************************************************************************)
(* What the rows of the table say of the host: the processes that run, the *)
(* kernel programs that fire when they fork, exec, exit, use files and     *)
(* sockets (internal/ebpf/collector.bpf.c), and the conversion of their    *)
(* events into rows (internal/ebpf/decode_linux.go).  Every event reaches  *)
(* the table, in the order of the timestamps: losses are the subject of    *)
(* Recorder and orders of Watch.                                           *)
(***************************************************************************)
EXTENDS Integers, Sequences, FiniteSets

CONSTANTS Pids,
          Names,       \* the names processes run under, their comm
          Files,
          Addrs,       \* IPv4 addresses of hosts
          Wildcard,    \* 0.0.0.0
          Ports,
          OtherFamily, \* a socket address that is not IPv4
          Empty,       \* the empty text
          MaxRows      \* bound on the rows

ASSUME HostAssumption ==
    /\ Empty \notin Pids \cup Names \cup Files \cup Addrs \cup Ports
    /\ Wildcard \notin Addrs \cup {Empty}
    /\ MaxRows \in Nat

VARIABLES comm,      \* the name each process runs under; Empty where none runs
          events     \* the rows, by id

vars == <<comm, events>>

Actions == [process |-> {"clone", "fork", "exec", "exit"},
            file    |-> {"open", "write", "rename", "unlink"},
            network |-> {"bind", "listen", "connect", "send"}]

Paths == Files \cup {Empty}

Fields ==
    [category : DOMAIN Actions, action : UNION {Actions[c] : c \in DOMAIN Actions},
     pid : Pids, comm : Names, exe : Paths, path : Paths, oldPath : Paths,
     localAddr : Addrs \cup {Empty}, localPort : Ports \cup {Empty},
     remoteAddr : Addrs \cup {Empty}, remotePort : Ports \cup {Empty}]

\* A row has the fields that its kernel program can give, and no others: an exec
\* its path, as its exe too, the other calls on names theirs, and a call with a
\* socket address the address, on its own side of the connection.
Event ==
    {ev \in Fields :
        /\ ev.action \in Actions[ev.category]
        /\ ev.path # Empty => ev.action \in {"exec", "open", "rename", "unlink"}
        /\ ev.exe = IF ev.action = "exec" THEN ev.path ELSE Empty
        /\ ev.oldPath # Empty => ev.action = "rename"
        /\ ev.localPort # Empty => ev.action = "bind"
        /\ ev.localAddr # Empty => ev.localPort # Empty
        /\ ev.remotePort # Empty => ev.action \in {"connect", "send"}
        /\ ev.remoteAddr # Empty => ev.remotePort # Empty}

Init ==
    /\ comm \in [Pids -> Names \cup {Empty}]
    /\ events = <<>>

-----------------------------------------------------------------------------
(* An event and its fields.                                                *)

\* fill_common and set_category_action: the name is that of the running process.
EventOf(p, category, action) ==
    [category |-> category, action |-> action, pid |-> p, comm |-> comm[p],
     exe |-> Empty, path |-> Empty, oldPath |-> Empty,
     localAddr |-> Empty, localPort |-> Empty,
     remoteAddr |-> Empty, remotePort |-> Empty]

\* Mutant: the address is rendered whatever it is.
AddrTextAlways(a) == a

\* An address of 0 is left out of the row.
AddrText(a) == IF a = Wildcard THEN Empty ELSE a

Sockaddr == [addr : Addrs \cup {Wildcard}, port : Ports] \cup {OtherFamily}

\* Only an IPv4 address is read, into the local fields for a bind and into the
\* remote ones for the others.
SockaddrEvent(p, action, sa) ==
    LET ev == EventOf(p, "network", action)
    IN  IF sa = OtherFamily THEN ev
        ELSE IF action = "bind"
        THEN [ev EXCEPT !.localAddr = AddrText(sa.addr), !.localPort = sa.port]
        ELSE [ev EXCEPT !.remoteAddr = AddrText(sa.addr), !.remotePort = sa.port]

Running == {p \in Pids : comm[p] # Empty}

Emit(evs) ==
    /\ Len(events) + Len(evs) <= MaxRows
    /\ events' = events \o evs

-----------------------------------------------------------------------------
(* What processes do.                                                      *)

\* Of the calls that fork, clone and clone3 have a program of their own.  The
\* child has the name of its parent.
Fork(p, child) ==
    /\ p \in Running
    /\ child \notin Running
    /\ comm' = [comm EXCEPT ![child] = comm[p]]
    /\ LET forked == [EventOf(p, "process", "fork") EXCEPT !.pid = child]
       IN  \/ Emit(<<EventOf(p, "process", "clone"), forked>>)
           \/ Emit(<<forked>>)

\* The program fires on the way into execve, before the process has the name of
\* what it executes, and whether or not the call succeeds.  The path it is given,
\* Empty if it could not be read, is the path and the exe of the row.
Exec(p, path, name) ==
    /\ p \in Running
    /\ Emit(<<[EventOf(p, "process", "exec") EXCEPT !.path = path, !.exe = path]>>)
    /\ comm' \in {comm, [comm EXCEPT ![p] = name]}

Exit(p) ==
    /\ p \in Running
    /\ Emit(<<EventOf(p, "process", "exit")>>)
    /\ comm' = [comm EXCEPT ![p] = Empty]

\* Calls that name a file; a rename names two.  A name that could not be read is
\* Empty.
PathCall(p, action, path, old) ==
    /\ p \in Running
    /\ Emit(<<[EventOf(p, "file", action) EXCEPT !.path = path, !.oldPath = old]>>)
    /\ UNCHANGED comm

\* The entry of a descriptor is an empty path: see FdTracking.
Write(p) ==
    /\ p \in Running
    /\ Emit(<<EventOf(p, "file", "write")>>)
    /\ UNCHANGED comm

\* bind and connect.
SocketCall(p, action, sa) ==
    /\ p \in Running
    /\ Emit(<<SockaddrEvent(p, action, sa)>>)
    /\ UNCHANGED comm

\* The call names a descriptor only.
Listen(p) ==
    /\ p \in Running
    /\ Emit(<<EventOf(p, "network", "listen")>>)
    /\ UNCHANGED comm

\* Two events when the call names a destination.
SendTo(p, sa) ==
    /\ p \in Running
    /\ Emit(<<EventOf(p, "network", "send"), SockaddrEvent(p, "send", sa)>>)
    /\ UNCHANGED comm

Send(p) ==
    /\ p \in Running
    /\ Emit(<<EventOf(p, "network", "send")>>)
    /\ UNCHANGED comm

ProcessStep(p) ==
    \/ \E child \in Pids : Fork(p, child)
    \/ \E path \in Paths, name \in Names : Exec(p, path, name)
    \/ Exit(p)

FileStep(p) ==
    \/ \E action \in {"open", "unlink"}, path \in Paths : PathCall(p, action, path, Empty)
    \/ \E path, old \in Paths : PathCall(p, "rename", path, old)
    \/ Write(p)

NetworkStep(p) ==
    \/ \E action \in {"bind", "connect"}, sa \in Sockaddr : SocketCall(p, action, sa)
    \/ Listen(p)
    \/ \E sa \in Sockaddr : SendTo(p, sa)
    \/ Send(p)

\* Nothing more happens, or no row more is modelled.
Quiet == UNCHANGED vars

Next == (\E p \in Pids : ProcessStep(p) \/ FileStep(p) \/ NetworkStep(p)) \/ Quiet

Spec == Init /\ [][Next]_vars

=============================================================================
