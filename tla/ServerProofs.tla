---------------------------- MODULE ServerProofs -----------------------------
(***************************************************************************)
(* Safety of Server, for any servers, clients and backlog, with crashes at *)
(* any point and servers that take each other's names away.                *)
(***************************************************************************)
EXTENDS Server, SequenceTheorems, TLAPS

\* With its source in two loops AcceptDoesNotBlock is false
\* (MCServerTwoLoopers.cfg).
OneLoop == \A l, m \in Loopers : l = m

-----------------------------------------------------------------------------
(* The inductive invariant. *)

Backlogs ==
  /\ backlog \in [Servers -> Seq(Clients)]
  /\ \A s \in Servers : Len(backlog[s]) <= MaxPending

\* A server that has removed the name, as the last thing before it closes,
\* does not get it back.
NameIsGone ==
  \A s \in Servers : phase[s] \in {"d_close", "destroyed"} => entry # s

IInv ==
  /\ TypeOK
  /\ NameIsGone
  /\ ListeningIsReachable

-----------------------------------------------------------------------------
\* No server is constructed yet.
LEMMA IInvInit ==
  ASSUME ServersAssumption, ParametersAssumption, Init
  PROVE  IInv
BY DEF ServersAssumption, ParametersAssumption, Init, IInv, TypeOK, NameIsGone,
  ListeningIsReachable, Phases, Ended, Constructing, Listening, ClientStates

\* The backlog stays a sequence of at most MaxPending clients.
LEMMA BacklogStep ==
  ASSUME ParametersAssumption, TypeOK, [Next]_vars
  PROVE  Backlogs'
<1> USE DEF ParametersAssumption, TypeOK, Backlogs
<1>1. ASSUME NEW s \in Servers, backlog' = [backlog EXCEPT ![s] = <<>>]
      PROVE  Backlogs'
  BY <1>1
<1>2. ASSUME NEW s \in Servers, NEW l \in Loopers, Accept(s, l) PROVE Backlogs'
  <2>1. /\ Tail(backlog[s]) \in Seq(Clients)
        /\ Len(Tail(backlog[s])) = Len(backlog[s]) - 1
        /\ Len(backlog[s]) \in Nat
    BY <1>2 DEF Accept, AcceptNext
  <2> QED
    BY <1>2, <2>1 DEF Accept, AcceptNext
<1>3. ASSUME NEW c \in Clients, TryConnect(c) PROVE Backlogs'
  <2>1. entry \in Servers
    BY <1>3 DEF TryConnect
  <2>2. /\ Append(backlog[entry], c) \in Seq(Clients)
        /\ Len(Append(backlog[entry], c)) = Len(backlog[entry]) + 1
        /\ Len(backlog[entry]) \in Nat
    BY <2>1
  <2> QED
    BY <1>3, <2>1, <2>2 DEF TryConnect
<1>4. ASSUME UNCHANGED backlog PROVE Backlogs'
  BY <1>4
<1> QED
  BY <1>1, <1>2, <1>3, <1>4 DEF Next, ServerStep, Create, Destroy, Crash, SetCallback,
     Bind, Unlink, Listen, DestroyUnlink, DestroyClose, Abort, Die, TerminateClient, Wake,
     vars

\* Closing connections keeps what the model knows of clients well typed.
LEMMA EndTypes ==
  ASSUME TypeOK, NEW clients, End(clients)
  PROVE  client' \in [Clients -> ClientStates] /\ peer' \in [Clients -> Servers \cup {None}]
BY DEF TypeOK, End, ClientStates

\* One step for every action of Server.
LEMMA IInvStep ==
  ASSUME ServersAssumption, ParametersAssumption, IInv, [Next]_vars
  PROVE  IInv'
<1> USE DEF ServersAssumption, ParametersAssumption, IInv, TypeOK, NameIsGone,
      ListeningIsReachable, Phases, Ended, Constructing, Listening, Goto, clientVars,
      Backlogs
<1>0. Backlogs'
  BY BacklogStep
<1>1. ASSUME NEW s \in Servers, Create(s) PROVE IInv'
  BY <1>0, <1>1 DEF Create
<1>2. ASSUME NEW s \in Servers, Bind(s) PROVE IInv'
  <2>1. CASE /\ entry = None /\ entry' = s
             /\ phase[s] = "bind" /\ phase' = [phase EXCEPT ![s] = "listen"]
    <3>1. TypeOK'
      BY <1>0, <1>2, <2>1 DEF Bind
    <3>2. NameIsGone' /\ ListeningIsReachable'
      BY <1>2, <2>1 DEF Bind
    <3> QED
      BY <3>1, <3>2
  <2>2. CASE /\ entry # None /\ entry' = entry
             /\ phase[s] = "bind" /\ phase' = [phase EXCEPT ![s] = "unlink"]
    <3>1. TypeOK'
      BY <1>0, <1>2, <2>2 DEF Bind
    <3>2. NameIsGone' /\ ListeningIsReachable'
      BY <1>2, <2>2 DEF Bind
    <3> QED
      BY <3>1, <3>2
  <2> QED
    BY <1>2, <2>1, <2>2 DEF Bind
<1>3. ASSUME NEW s \in Servers, Unlink(s) PROVE IInv'
  BY <1>0, <1>3 DEF Unlink, RemoveName
<1>4. ASSUME NEW s \in Servers, Listen(s) PROVE IInv'
  BY <1>0, <1>4 DEF Listen
<1>5. ASSUME NEW s \in Servers, Destroy(s) PROVE IInv'
  BY <1>0, <1>5 DEF Destroy
<1>6. ASSUME NEW s \in Servers, DestroyUnlink(s) PROVE IInv'
  BY <1>0, <1>6 DEF DestroyUnlink, RemoveName
<1>7. ASSUME NEW s \in Servers, DestroyClose(s) PROVE IInv'
  <2>1. client' \in [Clients -> ClientStates] /\ peer' \in [Clients -> Servers \cup {None}]
    BY <1>7, EndTypes DEF DestroyClose, HangUp
  <2> QED
    BY <1>0, <1>7, <2>1 DEF DestroyClose
<1>8. ASSUME NEW s \in Servers, Crash(s) \/ Abort(s) PROVE IInv'
  <2>1. client' \in [Clients -> ClientStates] /\ peer' \in [Clients -> Servers \cup {None}]
    BY <1>8, EndTypes DEF Crash, Abort, Die, HangUp
  <2>2. /\ phase' = [phase EXCEPT ![s] = "crashed"]
        /\ woken' = [woken EXCEPT ![s] = {}]
        /\ callback' = callback \ {s} /\ taken' = taken \ {s} /\ entry' = entry
    BY <1>8 DEF Crash, Abort, Die
  <2>3. TypeOK'
    BY <1>0, <2>1, <2>2
  <2>4. NameIsGone' /\ ListeningIsReachable'
    BY <2>2
  <2> QED
    BY <2>3, <2>4
<1>9. ASSUME NEW s \in Servers, SetCallback(s) PROVE IInv'
  BY <1>0, <1>9 DEF SetCallback
<1>10. ASSUME NEW s \in Servers, NEW l \in Loopers, Wake(s, l) \/ Accept(s, l)
       PROVE  IInv'
  <2>1. UNCHANGED <<entry, phase, callback, taken>>
    BY <1>10 DEF Wake, Accept, AcceptNext
  <2>2. woken' \in [Servers -> SUBSET Loopers]
    <3>1. \/ woken' = [woken EXCEPT ![s] = @ \cup {l}]
          \/ woken' = [woken EXCEPT ![s] = @ \ {l}]
      BY <1>10 DEF Wake, Accept
    <3>2. woken[s] \cup {l} \in SUBSET Loopers /\ woken[s] \ {l} \in SUBSET Loopers
      OBVIOUS
    <3> QED
      BY <3>1, <3>2
  <2>3. client' \in [Clients -> ClientStates] /\ peer' \in [Clients -> Servers \cup {None}]
    <3>1. CASE Wake(s, l)
      BY <3>1 DEF Wake
    <3>2. CASE Accept(s, l)
      <4>1. Hand(s, Head(backlog[s]))
        BY <3>2 DEF Accept, AcceptNext
      <4>2. CASE End({Head(backlog[s])})
        BY <4>2, EndTypes
      <4>3. CASE ~End({Head(backlog[s])})
        BY <4>1, <4>3 DEF Hand, ClientStates
      <4> QED
        BY <4>2, <4>3
    <3> QED
      BY <1>10, <3>1, <3>2
  <2> QED
    BY <1>0, <2>1, <2>2, <2>3
<1>11. ASSUME NEW c \in Clients, TryConnect(c) PROVE IInv'
  BY <1>0, <1>11 DEF TryConnect, ClientStates
<1>12. ASSUME NEW c \in Clients, TerminateClient(c) PROVE IInv'
  <2>1. client' \in [Clients -> ClientStates] /\ peer' \in [Clients -> Servers \cup {None}]
    BY <1>12, EndTypes DEF TerminateClient
  <2> QED
    BY <1>0, <1>12, <2>1 DEF TerminateClient
<1>13. CASE UNCHANGED vars
  BY <1>13 DEF vars
<1> QED
  BY <1>1, <1>2, <1>3, <1>4, <1>5, <1>6, <1>7, <1>8, <1>9, <1>10, <1>11, <1>12, <1>13
     DEF Next, ServerStep

-----------------------------------------------------------------------------
\* Every system call of Server::Server(), Server::~Server() and
\* onConnectionAvailableForAccept(), and a crash between two, keeps IInv.
THEOREM Invariance == Spec => []IInv
<1>1. Init => IInv
  BY IInvInit, ServersAssumption, ParametersAssumption
<1>2. IInv /\ [Next]_vars => IInv'
  BY IInvStep, ServersAssumption, ParametersAssumption
<1> QED
  BY <1>1, <1>2, PTL DEF Spec

\* Every variable of the server model keeps its type; no backlog grows beyond
\* what listen() allows (Server.cpp:93).
THEOREM TypeCorrect == Spec => []TypeOK
<1>1. IInv => TypeOK
  BY DEF IInv
<1> QED
  BY <1>1, Invariance, PTL

\* A loop that was woken up is about to accept() one of the connections queued.
WokenForOne ==
  \A s \in Servers :
    woken[s] # {} => phase[s] = "listening" /\ backlog[s] # <<>>

\* With one loop, nothing comes between the wake-up and the accept() that
\* takes connections out of the backlog.
LEMMA WokenForOneStep ==
  ASSUME ServersAssumption, OneLoop, IInv, WokenForOne, [Next]_vars
  PROVE  WokenForOne'
<1> USE DEF ServersAssumption, OneLoop, IInv, TypeOK, WokenForOne, Goto, clientVars
<1>1. ASSUME NEW s \in Servers, Bind(s) \/ Unlink(s) \/ Listen(s) \/ Create(s)
      PROVE  WokenForOne'
  BY <1>1 DEF Bind, Unlink, Listen, Create
<1>2. ASSUME NEW s \in Servers, Destroy(s) \/ DestroyUnlink(s) \/ DestroyClose(s)
      PROVE  WokenForOne'
  BY <1>2 DEF Destroy, DestroyUnlink, DestroyClose
<1>3. ASSUME NEW s \in Servers, Crash(s) \/ Abort(s) \/ SetCallback(s)
      PROVE  WokenForOne'
  BY <1>3 DEF Crash, Abort, Die, SetCallback
<1>4. ASSUME NEW s \in Servers, NEW l \in Loopers, Wake(s, l) PROVE WokenForOne'
  BY <1>4 DEF Wake
<1>5. ASSUME NEW s \in Servers, NEW l \in Loopers, Accept(s, l) PROVE WokenForOne'
  <2>1. woken'[s] = {}
    BY <1>5 DEF Accept, AcceptNext
  <2> QED
    BY <1>5, <2>1 DEF Accept, AcceptNext
<1>6. ASSUME NEW c \in Clients, TryConnect(c) PROVE WokenForOne'
  <2>1. Append(backlog[entry], c) # <<>>
    BY <1>6, AppendProperties DEF TryConnect
  <2> QED
    BY <1>6, <2>1 DEF TryConnect
<1>7. ASSUME NEW c \in Clients, TerminateClient(c) PROVE WokenForOne'
  BY <1>7 DEF TerminateClient
<1>8. CASE UNCHANGED vars
  BY <1>8 DEF vars
<1> QED
  BY <1>1, <1>2, <1>3, <1>4, <1>5, <1>6, <1>7, <1>8 DEF Next, ServerStep

\* A server that has bound its name keeps it, whatever its crashed predecessors
\* left (the loop of Server.cpp:67-88), until it is destroyed or another server
\* unlinks the name (Server.cpp:80, :107).
THEOREM ListenersAreReachable == Spec => []ListeningIsReachable
<1>1. IInv => ListeningIsReachable
  BY DEF IInv
<1> QED
  BY <1>1, Invariance, PTL

\* accept() (Server.cpp:116) finds a connection in the backlog, whether or not
\* its client is still there, if one loop watches each server.
THEOREM AcceptFindsAConnection ==
  ASSUME OneLoop
  PROVE  Spec => []AcceptDoesNotBlock
<1>1. Init => WokenForOne
  BY DEF Init, WokenForOne
<1>2. IInv /\ WokenForOne /\ [Next]_vars => WokenForOne'
  BY WokenForOneStep, ServersAssumption, OneLoop
<1>3. WokenForOne => AcceptDoesNotBlock
  BY DEF WokenForOne, AcceptDoesNotBlock
<1> QED
  BY <1>1, <1>2, <1>3, Invariance, PTL DEF Spec

\* A server that is destroyed leaves no name behind (Server.cpp:107).
THEOREM NamesGoAway == Spec => []NameIsRemoved
<1>1. IInv => NameIsRemoved
  BY ServersAssumption DEF ServersAssumption, IInv, TypeOK, NameIsGone, NameIsRemoved
<1> QED
  BY <1>1, Invariance, PTL
=============================================================================
