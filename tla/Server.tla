------------------------------- MODULE Server --------------------------------
(***************************************************************************)
(* The cl::Server objects (Source/Server.cpp) that use one name, each in a *)
(* process of its own, and the clients that connect to that name with      *)
(* Channel::tryConnect() (Source/Channel.cpp, Source/Socket.cpp).          *)
(*                                                                         *)
(* A server owns a listening socket and the entry of its name in the file  *)
(* system, which outlives it when its process dies.  Nothing keeps servers *)
(* of one name from living at the same time.  A step is one system  *)
(* call of the constructor or the destructor, or half a turn of a loop     *)
(* that the server's source is scheduled in: the wake-up, and the accept() *)
(* that follows on that thread.                                            *)
(***************************************************************************)
EXTENDS Naturals, Sequences

CONSTANTS
  Servers,      \* Server objects, each constructed at most once
  Clients,      \* client channels, each connected at most once
  None,
  MaxPending,   \* connections listen() lets wait for accept()
  BindFails,    \* the servers whose bind() fails with another error than
                \* EADDRINUSE: a missing directory, a lack of permission
  Loopers       \* the loops of a server's process that its source is in

ASSUME ServersAssumption == None \notin Servers
ASSUME ParametersAssumption ==
  /\ MaxPending \in Nat \ {0}
  /\ BindFails \subseteq Servers

VARIABLES
  entry,      \* the server whose socket the name leads to
  phase,      \* phase[s]: where the constructor or destructor of s stands
  backlog,    \* backlog[s]: clients that wait for accept(), in order
  callback,   \* the living servers whose _channelAvailablilityCallback is set
  client,     \* client[c]: the state of a client's connection
  peer,       \* peer[c]: the server at the other end of that connection
  woken,      \* woken[s]: the loops about to call accept() for s
  taken       \* history: the living servers whose name another server removed

vars == <<entry, phase, backlog, callback, client, peer, woken, taken>>
clientVars == <<client, peer>>

Ended == {"none", "destroyed", "crashed"}
Constructing == {"bind", "unlink", "listen"}
\* listen() was called and the socket is open.
Listening == {"listening", "d_unlink", "d_close"}
Phases == Ended \cup Constructing \cup Listening

\* "pending": connect() succeeded and nobody has accepted the connection;
\* "served": the server's callback has its other end; "ended": the client has
\* terminated, or its other end, or the listening socket, is closed.
ClientStates == {"idle", "pending", "served", "ended"}

Init ==
  /\ entry = None
  /\ phase = [s \in Servers |-> "none"]
  /\ backlog = [s \in Servers |-> <<>>]
  /\ callback = {}
  /\ client = [c \in Clients |-> "idle"]
  /\ peer = [c \in Clients |-> None]
  /\ woken = [s \in Servers |-> {}]
  /\ taken = {}

Goto(s, from, to) ==
  /\ phase[s] = from
  /\ phase' = [phase EXCEPT ![s] = to]

\* The connections of the given clients are closed at one end.
End(clients) ==
  /\ client' = [c \in Clients |-> IF c \in clients THEN "ended" ELSE client[c]]
  /\ peer' = [c \in Clients |-> IF c \in clients THEN None ELSE peer[c]]

\* The connections of s in one of the given states are closed at its end.
HangUp(s, states) == End({c \in Clients : peer[c] = s /\ client[c] \in states})

\* The process of s ends, the kernel closes its sockets, and the name stays.
Die(s) ==
  /\ phase' = [phase EXCEPT ![s] = "crashed"]
  /\ backlog' = [backlog EXCEPT ![s] = <<>>]
  /\ HangUp(s, {"pending", "served"})
  /\ woken' = [woken EXCEPT ![s] = {}]
  /\ callback' = callback \ {s}
  /\ taken' = taken \ {s}
  /\ UNCHANGED entry

\* unlink() by s, whoever the name leads to.
RemoveName(s) ==
  /\ entry # None
  /\ entry' = None
  /\ taken' = IF entry # s /\ phase[entry] \notin Ended THEN taken \cup {entry} ELSE taken

-----------------------------------------------------------------------------
(* Server::Server() *)

\* socket()
Create(s) ==
  /\ Goto(s, "none", "bind")
  /\ UNCHANGED <<entry, backlog, callback, clientVars, woken, taken>>

\* bind() fails if the name is there.  With any other error it is called
\* again and again, to no effect.
Bind(s) ==
  /\ s \notin BindFails
  /\ \/ /\ entry = None
        /\ Goto(s, "bind", "listen")
        /\ entry' = s
     \/ /\ entry # None
        /\ Goto(s, "bind", "unlink")
        /\ UNCHANGED entry
  /\ UNCHANGED <<backlog, callback, clientVars, woken, taken>>

\* Mutant: the name is not unlinked.
Unlink_Skipped(s) ==
  /\ Goto(s, "unlink", "bind")
  /\ UNCHANGED <<entry, backlog, callback, clientVars, woken, taken>>

\* Mutant: bind() is not tried again.
Unlink_NoRetry(s) ==
  /\ RemoveName(s)
  /\ Goto(s, "unlink", "listen")
  /\ UNCHANGED <<backlog, callback, clientVars, woken>>

\* CL_CHECK(::unlink(name))
Unlink(s) ==
  /\ RemoveName(s)
  /\ Goto(s, "unlink", "bind")
  /\ UNCHANGED <<backlog, callback, clientVars, woken>>

\* listen(socketHandle, 1)
Listen(s) ==
  /\ Goto(s, "listen", "listening")
  /\ UNCHANGED <<entry, backlog, callback, clientVars, woken, taken>>

-----------------------------------------------------------------------------
(* Server::~Server() *)

\* By the program, on a thread that is not in one of the loops at that point.
Destroy(s) ==
  /\ woken[s] = {}
  /\ Goto(s, "listening", "d_unlink")
  /\ UNCHANGED <<entry, backlog, callback, clientVars, woken, taken>>

\* Mutant: the name stays.
DestroyUnlink_Skipped(s) ==
  /\ Goto(s, "d_unlink", "d_close")
  /\ UNCHANGED <<entry, backlog, callback, clientVars, woken, taken>>

\* CL_CHECK(::unlink(_name))
DestroyUnlink(s) ==
  /\ RemoveName(s)
  /\ Goto(s, "d_unlink", "d_close")
  /\ UNCHANGED <<backlog, callback, clientVars, woken>>

\* Either CL_CHECK fails, and aborts the process, when another server has
\* removed the name.
Abort(s) ==
  /\ phase[s] \in {"unlink", "d_unlink"}
  /\ entry = None
  /\ Die(s)

\* close() of the listening socket hangs up on those who wait.
DestroyClose(s) ==
  /\ Goto(s, "d_close", "destroyed")
  /\ backlog' = [backlog EXCEPT ![s] = <<>>]
  /\ HangUp(s, {"pending"})
  /\ callback' = callback \ {s}
  /\ taken' = taken \ {s}
  /\ UNCHANGED <<entry, woken>>

\* The server's process is killed.
Crash(s) ==
  /\ phase[s] \notin Ended
  /\ Die(s)

-----------------------------------------------------------------------------
(* Connections *)

\* channelAvailabilityCallback(callback)
SetCallback(s) ==
  /\ phase[s] = "listening"
  /\ callback' = callback \cup {s}
  /\ UNCHANGED <<entry, phase, backlog, clientVars, woken, taken>>

\* epoll reports the listening socket to every loop that watches it.
Wake(s, l) ==
  /\ phase[s] = "listening"
  /\ backlog[s] # <<>>
  /\ l \notin woken[s]
  /\ woken' = [woken EXCEPT ![s] = @ \cup {l}]
  /\ UNCHANGED <<entry, phase, callback, backlog, clientVars, taken>>

\* Mutant: the end of a connection nobody asked for is not closed.
Hand_NotClosed(s, c) ==
  /\ client' = [client EXCEPT ![c] = IF @ = "pending" /\ s \in callback THEN "served" ELSE @]
  /\ UNCHANGED peer

\* The callback gets the connection that accept() returned, if there is one;
\* if not, it is closed.  The client may have terminated by then.
Hand(s, c) ==
  IF s \in callback /\ client[c] = "pending"
    THEN client' = [client EXCEPT ![c] = "served"] /\ UNCHANGED peer
    ELSE End({c})

\* accept() on the blocking socket: it waits for a connection if there is none.
AcceptNext(s, l) ==
  /\ l \in woken[s]
  /\ backlog[s] # <<>>
  /\ backlog' = [backlog EXCEPT ![s] = Tail(@)]
  /\ Hand(s, Head(backlog[s]))
  /\ UNCHANGED <<entry, phase, callback, taken>>

\* Mutant: accept() is called until no connection is left.
Accept_Drains(s, l) == AcceptNext(s, l) /\ UNCHANGED woken

\* onConnectionAvailableForAccept()
Accept(s, l) ==
  /\ AcceptNext(s, l)
  /\ woken' = [woken EXCEPT ![s] = @ \ {l}]

\* Mutant: listen() sets no limit.
TryConnect_NoLimit(c) ==
  /\ client[c] = "idle"
  /\ entry # None
  /\ phase[entry] \in Listening
  /\ client' = [client EXCEPT ![c] = "pending"]
  /\ peer' = [peer EXCEPT ![c] = entry]
  /\ backlog' = [backlog EXCEPT ![entry] = Append(@, c)]
  /\ UNCHANGED <<entry, phase, callback, woken, taken>>

\* Channel::tryConnect() succeeds.  Without a name, without a listening
\* socket behind it or with a full backlog it returns false and may be
\* called again.
TryConnect(c) ==
  /\ client[c] = "idle"
  /\ entry # None
  /\ phase[entry] \in Listening
  /\ Len(backlog[entry]) < MaxPending
  /\ client' = [client EXCEPT ![c] = "pending"]
  /\ peer' = [peer EXCEPT ![c] = entry]
  /\ backlog' = [backlog EXCEPT ![entry] = Append(@, c)]
  /\ UNCHANGED <<entry, phase, callback, woken, taken>>

\* Channel::terminate() of a connected client; a connection that nobody has
\* accepted stays in the backlog.
TerminateClient(c) ==
  /\ client[c] \in {"pending", "served"}
  /\ End({c})
  /\ UNCHANGED <<entry, phase, backlog, callback, woken, taken>>

ServerStep(s) ==
  \/ Bind(s) \/ Unlink(s) \/ Listen(s)
  \/ DestroyUnlink(s) \/ DestroyClose(s) \/ Abort(s)
  \/ \E l \in Loopers : Wake(s, l) \/ Accept(s, l)

Next ==
  \/ \E s \in Servers : Create(s) \/ Destroy(s) \/ Crash(s) \/ SetCallback(s)
  \/ \E s \in Servers : ServerStep(s)
  \/ \E c \in Clients : TryConnect(c) \/ TerminateClient(c)

\* Constructors and destructors go on, and the source of a server is
\* scheduled in a loop that runs.
Spec == Init /\ [][Next]_vars /\ \A s \in Servers : WF_vars(ServerStep(s))

-----------------------------------------------------------------------------
TypeOK ==
  /\ entry \in Servers \cup {None}
  /\ phase \in [Servers -> Phases]
  /\ backlog \in [Servers -> Seq(Clients)]
  /\ \A s \in Servers : Len(backlog[s]) <= MaxPending
  /\ callback \subseteq Servers
  /\ client \in [Clients -> ClientStates]
  /\ peer \in [Clients -> Servers \cup {None}]
  /\ woken \in [Servers -> SUBSET Loopers]
  /\ taken \subseteq Servers

\* accept(), on the blocking listening socket, does not block the loop: the
\* connection that woke it up is still queued, also when its client is gone.
AcceptDoesNotBlock ==
  \A s \in Servers : woken[s] # {} => backlog[s] # <<>>

\* From bind() to the destructor's unlink() the name leads to the server,
\* whatever crashed servers have left behind, unless the constructor or the
\* destructor of another server has taken the name away.
ListeningIsReachable ==
  \A s \in Servers :
    phase[s] \in {"listen", "listening", "d_unlink"} => entry = s \/ s \in taken

\* unlink() finds the name, as both CL_CHECKs say.
UnlinkSucceeds ==
  \A s \in Servers : phase[s] \in {"unlink", "d_unlink"} => entry # None

\* Only a process that died leaves its name behind.
NameIsRemoved ==
  entry # None => phase[entry] # "destroyed"

\* Every constructor ends: the loop around bind() gets past an old name, and
\* past the rivals that take the name away or bind it first.
ConstructorEnds ==
  []<>(\A s \in Servers : phase[s] \notin Constructing)

\* No client whose connection the kernel has queued is kept in limbo: its
\* connection is handed to the callback or hung up.
NoLimbo ==
  []<>(\A c \in Clients : client[c] # "pending")
=============================================================================
