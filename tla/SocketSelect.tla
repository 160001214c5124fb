---------------------------- MODULE SocketSelect ----------------------------
(***************************************************************************)
(* socket/socket_select.cpp over its back ends, socket_epoll.cpp and       *)
(* socket_kqueue.cpp, of which a build has one (socket_poll.cpp is in no   *)
(* build).  Every SocketSelect is used for one Select: the caller asks for *)
(* descriptors, Select takes a snapshot, the caller tests it.  So select   *)
(* is given as a function of what was asked of a descriptor and what is    *)
(* true of it, to what the three tests say of it afterwards; what Select   *)
(* does to the breaker is in the modules that use it.                      *)
(***************************************************************************)
EXTENDS FiniteSets

Backends == {"epoll", "kqueue"}

\* ReadFdSet, WriteFdSet, ExceptionFdSet.
Asks == {"read", "write", "error"}

\* What may be true of a descriptor: there are bytes to read, room to write,
\* the peer has finished sending, the connection has failed; or it is not
\* open.
Facts == {"data", "space", "end", "failed", "closed"}

\* ErrorEvent of kqueue does nothing.
Registered(b, asked) == IF b = "kqueue" THEN asked \ {"error"} ELSE asked

\* The flags of the event epoll_wait reports, none if it reports nothing.
\* Failures are reported whether or not they were asked for; a descriptor
\* that is not open could not be registered.
EpollFlags(asked, facts) ==
    {f \in {"EPOLLIN", "EPOLLOUT", "EPOLLHUP", "EPOLLERR"} :
        /\ asked # {} /\ "closed" \notin facts
        /\ \/ /\ f = "EPOLLIN" /\ "read" \in asked
              /\ facts \cap {"data", "end", "failed"} # {}
           \/ /\ f = "EPOLLOUT" /\ "write" \in asked
              /\ facts \cap {"space", "failed"} # {}
           \/ f \in {"EPOLLHUP", "EPOLLERR"} /\ "failed" \in facts}

\* The flags EV_ERROR and EV_EOF of the event that kevent reports for filter f,
\* and whether it reports one.
Kevent(f, facts) ==
    [error |-> "closed" \in facts,
     eof |-> \/ "failed" \in facts
             \/ f = "read" /\ "end" \in facts]

Ready(f, facts) ==
    \/ facts \cap {"failed", "closed"} # {}
    \/ f = "read" /\ facts \cap {"data", "end"} # {}
    \/ f = "write" /\ "space" \in facts

\* Error or Invalid of an event.
Wrong(f, facts) == Kevent(f, facts).error \/ Kevent(f, facts).eof

Report == [read : BOOLEAN, write : BOOLEAN, exception : BOOLEAN]

NoReport == [read |-> FALSE, write |-> FALSE, exception |-> FALSE]

\* Mutant: an error is not an exception.
EpollIgnoresError(flags) ==
    [read |-> flags \cap {"EPOLLIN", "EPOLLHUP"} # {},
     write |-> "EPOLLOUT" \in flags,
     exception |-> FALSE]

\* ReadFdIsSet, WriteFdIsSet and ExceptionFdIsSet after Poll.
EpollReport(flags) ==
    [read |-> flags \cap {"EPOLLIN", "EPOLLHUP"} # {},
     write |-> "EPOLLOUT" \in flags,
     exception |-> "EPOLLERR" \in flags]

\* Events that are wrong do not count for reading or writing.
Usable(f, reported, facts) == f \in reported /\ ~Wrong(f, facts)

\* Of the events of a descriptor the first, which may be any, decides whether
\* there is an exception.
KqueueReport(reported, first, facts) ==
    [read |-> Usable("read", reported, facts),
     write |-> Usable("write", reported, facts),
     exception |-> Wrong(first, facts)]

KqueueReports(reported, facts) ==
    IF reported = {} THEN {NoReport}
    ELSE {KqueueReport(reported, f, facts) : f \in reported}

\* What the tests may say of a descriptor.
Reports(b, asked, facts) ==
    IF b = "epoll" THEN {EpollReport(EpollFlags(Registered(b, asked), facts))}
    ELSE KqueueReports({f \in Registered(b, asked) : Ready(f, facts)}, facts)
=============================================================================
