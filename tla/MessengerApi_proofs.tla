------------------------ MODULE MessengerApi_proofs ------------------------
(***************************************************************************)
(* The messenger never works on a stale descriptor and leaks none, for any *)
(* number of clients and descriptors and any order of calls.  close()      *)
(* leaves the numbers it has closed in listenFd and connFd, so that what   *)
(* the members say is only worth something between open() and close(): the *)
(* invariant ties them to the descriptor table while the messenger is in   *)
(* use, and says nothing of them otherwise.                                *)
(***************************************************************************)
EXTENDS MessengerApi, FiniteSetTheorems, SequenceTheorems, WellFoundedInduction, TLAPS

\* What the sockets' buffers hold, for the lengths that the type invariant bounds.
Buffers ==
    /\ toServer \in [Clients -> Seq(ClientMsgs)]
    /\ toClient \in [Clients -> Seq(ServerMsgs)]

\* Which descriptors are the messenger's, and when there is a client.
Sockets ==
    /\ \A fd \in Fds : fdOwner[fd] = "listen" <=> inUse /\ fd = listenFd
    /\ \A fd \in Fds : fdOwner[fd] = "conn" <=> inUse /\ isConnected /\ fd = connFd
    /\ inUse => listenFd \in Fds
    /\ peer # None <=> inUse /\ isConnected

ApiInv == ApiTypeOK /\ Buffers /\ Sockets

\* A set with no two members has at most one.
LEMMA AtMostOne ==
    ASSUME NEW S, NEW x, S \subseteq {x} PROVE Cardinality(S) <= 1
<1>1. S = {} \/ S = {x}
  OBVIOUS
<1>2. Cardinality({}) = 0 /\ Cardinality({x}) = 1
  BY FS_EmptySet, FS_Singleton
<1> QED BY <1>1, <1>2

LEMMA ApiInvImplies == ApiInv => OwnSocketsInUse /\ NothingLeaks
<1> SUFFICES ASSUME ApiInv PROVE OwnSocketsInUse /\ NothingLeaks
  OBVIOUS
<1>1. connFd >= 0 /\ connFd \in Fds \cup {-1} => connFd \in Fds
  OBVIOUS
<1>2. OwnSocketsInUse
  BY <1>1 DEF ApiInv, ApiTypeOK, Sockets, OwnSocketsInUse, isConnected
<1>3. {fd \in Fds : fdOwner[fd] = "listen"} \subseteq {listenFd}
      /\ {fd \in Fds : fdOwner[fd] = "conn"} \subseteq {connFd}
  BY DEF ApiInv, Sockets
<1>4. ~inUse => \A fd \in Fds : fdOwner[fd] \in {"free", "other"}
  BY DEF ApiInv, ApiTypeOK, Sockets
<1> QED BY <1>2, <1>3, <1>4, AtMostOne DEF NothingLeaks

LEMMA ApiInitInv == Init => ApiInv
<1> SUFFICES ASSUME Init PROVE ApiInv
  OBVIOUS
<1>1. <<>> \in Seq(Clients) /\ <<>> \in Seq(ClientMsgs) /\ <<>> \in Seq(ServerMsgs)
      /\ Len(<<>>) <= SockCap
  BY BcastAssumption
<1>2. ApiTypeOK
  BY <1>1 DEF Init, BcastInit, ApiTypeOK
<1>3. Buffers
  BY <1>1 DEF Init, BcastInit, Buffers
<1>4. Sockets
  BY DEF Init, BcastInit, Sockets
<1> QED BY <1>2, <1>3, <1>4 DEF ApiInv

\* The kernel finds a number when there is a free one.
LEMMA NewFdIsFree == ASSUME FreeFds # {} PROVE NewFd \in FreeFds
<1>1. FreeFds \subseteq Nat
  BY FdsAssumption DEF FreeFds
<1>2. PICK n \in FreeFds : \A m \in FreeFds : <<m, n>> \notin OpToRel(<, Nat)
  BY <1>1, WFMin, NatLessThanWellFounded
<1>3. ASSUME NEW m \in FreeFds PROVE n <= m
  <2>1. m \in Nat /\ n \in Nat
    BY <1>1
  <2>2. m < n => <<m, n>> \in OpToRel(<, Nat)
    BY <2>1 DEF OpToRel
  <2>3. ~(m < n)
    BY <1>2, <2>2, Zenon
  <2> QED BY <2>1, <2>3
<1> QED BY <1>3, Zenon DEF NewFd

\* A number for a new socket: it is free, and no member's socket has it.
LEMMA NewFdInv ==
    ASSUME ApiInv, FreeFds # {}
    PROVE  NewFd \in Fds /\ fdOwner[NewFd] = "free" /\ NewFd # -1 /\ NewFd >= 0
<1>1. NewFd \in FreeFds
  BY NewFdIsFree
<1> QED BY <1>1, FdsAssumption DEF FreeFds

LEMMA OpenInv == ASSUME ApiInv, Open PROVE ApiInv'
<1>1. PICK n \in Fds : n = NewFd /\ fdOwner[n] = "free" /\ n >= 0
  BY NewFdInv, Zenon DEF Open, open
<1>2. /\ ~inUse /\ inUse' = TRUE /\ listenFd' = n /\ fdOwner' = [fdOwner EXCEPT ![n] = "listen"]
      /\ file' = "mine" /\ socketPath' = TRUE /\ state' = "Listening"
      /\ UNCHANGED <<connFd, backlog, peer, client, toServer, toClient>>
  BY <1>1 DEF Open, open, clientVars
<1>3. ApiTypeOK' /\ Buffers'
  BY <1>2 DEF ApiInv, ApiTypeOK, Buffers
<1>4. Sockets'
  BY <1>2 DEF ApiInv, ApiTypeOK, Sockets, isConnected
<1> QED BY <1>3, <1>4 DEF ApiInv

LEMMA OpenFailsInv == ASSUME ApiInv, OpenFails PROVE ApiInv'
<1>1. /\ ~inUse /\ ~inUse' /\ inUse' = inUse /\ listenFd' = -1 /\ state' \in {state, "Bound"}
      /\ file' \in {file, "none", "mine"}
      /\ UNCHANGED <<connFd, socketPath, fdOwner, backlog, peer, client, toServer, toClient>>
  BY DEF OpenFails, openFailsSocket, openFailsBind, openFailsListen, sockets, clientVars
<1>2. ApiTypeOK' /\ Buffers'
  BY <1>1 DEF ApiInv, ApiTypeOK, Buffers
<1>3. Sockets'
  BY <1>1 DEF ApiInv, Sockets
<1> QED BY <1>2, <1>3 DEF ApiInv

LEMMA AcceptInv == ASSUME ApiInv, Accept PROVE ApiInv'
<1>1. inUse /\ ~isConnected /\ UNCHANGED inUse
  BY DEF Accept
<1>2. CASE acceptNone \/ acceptThrows
  <2>1. /\ connFd' = -1
        /\ UNCHANGED <<state, listenFd, socketPath, fdOwner, file, backlog, peer, client, toServer, toClient>>
    BY <1>2 DEF acceptNone, acceptThrows, sockets, clientVars
  <2>2. state # "Connected"
    <3>1. connFd \in Fds => connFd >= 0
      BY FdsAssumption
    <3> QED BY <1>1, <3>1 DEF isConnected, ApiInv, ApiTypeOK
  <2>3. ApiTypeOK' /\ Buffers'
    BY <1>1, <2>1, <2>2 DEF ApiInv, ApiTypeOK, Buffers
  <2>4. Sockets'
    BY <1>1, <2>1 DEF ApiInv, Sockets, isConnected
  <2> QED BY <2>3, <2>4 DEF ApiInv
<1>3. CASE acceptClient
  <2>1. PICK n \in Fds : n = NewFd /\ fdOwner[n] = "free" /\ n >= 0
    BY <1>3, NewFdInv, Zenon DEF acceptClient
  <2>2. /\ connFd' = n /\ fdOwner' = [fdOwner EXCEPT ![n] = "conn"] /\ state' = "Connected"
        /\ backlog # <<>> /\ peer' = Head(backlog) /\ backlog' = Tail(backlog)
        /\ UNCHANGED <<listenFd, socketPath, file, client, toServer, toClient>>
    BY <1>3, <2>1 DEF acceptClient, clientVars
  <2>3. peer' \in Clients /\ backlog' \in Seq(Clients)
    BY <2>2 DEF ApiInv, ApiTypeOK
  <2>4. ApiTypeOK' /\ Buffers'
    BY <1>1, <2>1, <2>2, <2>3 DEF ApiInv, ApiTypeOK, Buffers
  <2>5. peer' # None /\ isConnected'
    BY <2>1, <2>2, <2>3, BcastAssumption DEF isConnected
  <2>6. Sockets'
    BY <1>1, <2>1, <2>2, <2>5 DEF ApiInv, ApiTypeOK, Sockets
  <2> QED BY <2>4, <2>6 DEF ApiInv
<1> QED BY <1>2, <1>3 DEF Accept, acceptConnection

LEMMA RecvInv == ASSUME ApiInv, Recv PROVE ApiInv'
<1>1. inUse /\ UNCHANGED inUse /\ isConnected /\ peer \in Clients
  BY DEF Recv, recvData, recvClosed, recvNothing, ApiInv, ApiTypeOK, Sockets
<1>2. CASE recvData
  <2>1. /\ toServer[peer] \in Seq(ClientMsgs) /\ toServer[peer] # <<>>
        /\ toServer' = [toServer EXCEPT ![peer] = Tail(toServer[peer])]
        /\ Len(toServer[peer]) <= SockCap
        /\ UNCHANGED <<state, listenFd, connFd, socketPath, fdOwner, file, backlog, peer, client, toClient>>
    BY <1>1, <1>2 DEF recvData, members, sockets, ApiInv, ApiTypeOK, Buffers
  <2>2. Tail(toServer[peer]) \in Seq(ClientMsgs) /\ Len(Tail(toServer[peer])) <= SockCap
    BY <2>1, BcastAssumption
  <2>3. ApiTypeOK' /\ Buffers'
    BY <1>1, <2>1, <2>2 DEF ApiInv, ApiTypeOK, Buffers
  <2>4. Sockets'
    BY <1>1, <2>1 DEF ApiInv, Sockets, isConnected
  <2> QED BY <2>3, <2>4 DEF ApiInv
<1>3. CASE recvClosed
  <2>1. /\ fdOwner' = [fdOwner EXCEPT ![connFd] = "free"]
        /\ connFd' = -1 /\ state' = "Listening" /\ peer' = None
        /\ toServer' = [toServer EXCEPT ![peer] = <<>>]
        /\ UNCHANGED <<listenFd, socketPath, file, backlog, client, toClient>>
    BY <1>3 DEF recvClosed
  <2>2. connFd \in Fds /\ connFd # listenFd
    BY <1>1 DEF isConnected, ApiInv, ApiTypeOK, Sockets
  <2>3. <<>> \in Seq(ClientMsgs) /\ Len(<<>>) <= SockCap
    BY BcastAssumption
  <2>4. ApiTypeOK' /\ Buffers'
    BY <1>1, <2>1, <2>2, <2>3 DEF ApiInv, ApiTypeOK, Buffers
  <2>5. Sockets'
    BY <1>1, <2>1, <2>2 DEF ApiInv, ApiTypeOK, Sockets, isConnected
  <2> QED BY <2>4, <2>5 DEF ApiInv
<1>4. CASE recvNothing
  BY <1>1, <1>4 DEF recvNothing, bcastVars, members, sockets, clientVars,
                    ApiInv, ApiTypeOK, Buffers, Sockets, isConnected
<1> QED BY <1>2, <1>3, <1>4 DEF Recv

LEMMA SendToClientInv == ASSUME ApiInv, SendToClient PROVE ApiInv'
<1>1. PICK m \in ServerMsgs : sendMessage(m)
  BY DEF SendToClient
<1>2. inUse /\ isConnected /\ peer \in Clients
  BY <1>1 DEF SendToClient, sendMessage, ApiInv, ApiTypeOK, Sockets
<1>3. UNCHANGED <<state, listenFd, connFd, socketPath, fdOwner, file, backlog, peer, client, toServer, inUse>>
  BY <1>1 DEF SendToClient, sendMessage, members, sockets
<1>4. Sockets'
  BY <1>3 DEF ApiInv, Sockets, isConnected
<1>5. CASE UNCHANGED toClient
  BY <1>3, <1>4, <1>5 DEF ApiInv, ApiTypeOK, Buffers
<1>6. CASE Len(toClient[peer]) < SockCap /\ toClient' = [toClient EXCEPT ![peer] = Append(toClient[peer], m)]
  <2>1. toClient[peer] \in Seq(ServerMsgs)
    BY <1>2 DEF ApiInv, Buffers
  <2>2. Append(toClient[peer], m) \in Seq(ServerMsgs) /\ Len(Append(toClient[peer], m)) <= SockCap
    BY <1>6, <2>1, BcastAssumption
  <2> QED BY <1>2, <1>3, <1>4, <1>6, <2>2 DEF ApiInv, ApiTypeOK, Buffers
<1> QED BY <1>1, <1>5, <1>6 DEF sendMessage

\* close() frees the two remembered numbers, whatever has them: the messenger's
\* sockets are among them, and nothing else it says is used before the next open().
LEMMA CloseInv == ASSUME ApiInv, Close PROVE ApiInv'
<1>1. /\ fdOwner' = [fd \in Fds |-> IF Closes(fd) THEN "free" ELSE fdOwner[fd]]
      /\ peer' = IF \E fd \in Fds : Closes(fd) /\ fdOwner[fd] = "conn" THEN None ELSE peer
      /\ backlog' = <<>> \/ backlog' = backlog
      /\ file' \in {"none", file} /\ inUse' = FALSE
      /\ UNCHANGED <<state, listenFd, connFd, socketPath, client, toServer, toClient>>
  BY DEF Close, close, members, clientVars
<1>2. \A fd \in Fds : Closes(fd) <=> fd = listenFd \/ fd = connFd
  BY DEF Closes
<1>3. fdOwner' \in [Fds -> {"free", "listen", "conn", "other"}]
  BY <1>1 DEF ApiInv, ApiTypeOK
<1>4. \A fd \in Fds : fdOwner'[fd] \notin {"listen", "conn"}
  BY <1>1, <1>2 DEF ApiInv, Sockets
<1>5. peer' = None
  <2>1. CASE peer = None
    BY <1>1, <2>1
  <2>2. CASE peer # None
    <3>1. connFd \in Fds /\ fdOwner[connFd] = "conn"
      BY <2>2 DEF ApiInv, ApiTypeOK, Sockets, isConnected
    <3> QED BY <1>1, <1>2, <3>1
  <2> QED BY <2>1, <2>2
<1>6. ApiTypeOK' /\ Buffers'
  <2>1. backlog \in Seq(Clients) /\ <<>> \in Seq(Clients)
    BY DEF ApiInv, ApiTypeOK
  <2>2. backlog' \in Seq(Clients)
    BY <1>1, <2>1, Zenon
  <2> QED BY <1>1, <1>3, <1>5, <2>2 DEF ApiInv, ApiTypeOK, Buffers
<1>7. Sockets'
  BY <1>1, <1>4, <1>5 DEF Sockets
<1> QED BY <1>6, <1>7 DEF ApiInv

LEMMA ClientInv == ASSUME ApiInv, NEW c \in Clients, ClientStep(c) PROVE ApiInv'
<1>1. UNCHANGED <<state, listenFd, connFd, socketPath, fdOwner, file, peer, inUse>>
  BY DEF ClientStep, clientConnect, clientSend, clientRead, clientLeave, members, sockets
<1>2. Sockets'
  BY <1>1 DEF ApiInv, Sockets, isConnected
<1>3. /\ toServer[c] \in Seq(ClientMsgs) /\ toClient[c] \in Seq(ServerMsgs)
      /\ Len(toServer[c]) <= SockCap /\ Len(toClient[c]) <= SockCap
  BY DEF ApiInv, ApiTypeOK, Buffers
<1>4. <<>> \in Seq(ClientMsgs) /\ <<>> \in Seq(ServerMsgs) /\ Len(<<>>) <= SockCap
  BY BcastAssumption
<1>5. CASE clientConnect(c)
  <2>1. backlog' = Append(backlog, c)
    BY <1>5 DEF clientConnect
  <2>2. backlog' \in Seq(Clients)
    BY <2>1 DEF ApiInv, ApiTypeOK
  <2> QED BY <1>1, <1>2, <1>4, <1>5, <2>2 DEF clientConnect, ApiInv, ApiTypeOK, Buffers
<1>6. ASSUME NEW m \in ClientMsgs, clientSend(c, m) PROVE ApiInv'
  <2>1. Append(toServer[c], m) \in Seq(ClientMsgs) /\ Len(Append(toServer[c], m)) <= SockCap
    BY <1>3, <1>6, BcastAssumption DEF clientSend
  <2> QED BY <1>1, <1>2, <1>6, <2>1 DEF clientSend, sockets, ApiInv, ApiTypeOK, Buffers
<1>7. CASE clientRead(c)
  <2>1. Tail(toClient[c]) \in Seq(ServerMsgs) /\ Len(Tail(toClient[c])) <= SockCap
    BY <1>3, <1>7, BcastAssumption DEF clientRead
  <2> QED BY <1>1, <1>2, <1>7, <2>1 DEF clientRead, sockets, ApiInv, ApiTypeOK, Buffers
<1>8. CASE clientLeave(c)
  BY <1>1, <1>2, <1>4, <1>8 DEF clientLeave, sockets, ApiInv, ApiTypeOK, Buffers
<1> QED BY <1>5, <1>6, <1>7, <1>8 DEF ClientStep

\* What the rest of the process opens gets a free number, and it closes its own.
LEMMA ProcessInv == ASSUME ApiInv, Process PROVE ApiInv'
<1>1. PICK fd \in Fds, owner \in {"free", "other"} :
         fdOwner[fd] \in {"free", "other"} /\ fdOwner' = [fdOwner EXCEPT ![fd] = owner]
  <2>1. CASE otherOpen
    <3>1. PICK n \in Fds : n = NewFd /\ fdOwner[n] = "free"
      BY <2>1, NewFdInv, Zenon DEF otherOpen
    <3> QED BY <2>1, <3>1 DEF otherOpen
  <2>2. CASE \E fd \in Fds : otherClose(fd)
    BY <2>2 DEF otherClose
  <2> QED BY <2>1, <2>2 DEF Process
<1>2. UNCHANGED <<state, listenFd, connFd, socketPath, file, backlog, peer, client, toServer, toClient, inUse>>
  BY DEF Process, otherOpen, otherClose, members, clientVars
<1>3. ApiTypeOK' /\ Buffers'
  BY <1>1, <1>2 DEF ApiInv, ApiTypeOK, Buffers
<1>4. Sockets'
  BY <1>1, <1>2 DEF ApiInv, ApiTypeOK, Sockets, isConnected
<1> QED BY <1>3, <1>4 DEF ApiInv

LEMMA ApiStep == ApiInv /\ [Next]_apiVars => ApiInv'
<1> SUFFICES ASSUME ApiInv, [Next]_apiVars PROVE ApiInv'
  OBVIOUS
<1>1. CASE OtherBridge \/ UNCHANGED apiVars
  BY <1>1 DEF OtherBridge, apiVars, bcastVars, members, sockets, clientVars,
              ApiInv, ApiTypeOK, Buffers, Sockets, isConnected
<1> QED BY <1>1, OpenInv, OpenFailsInv, AcceptInv, RecvInv, SendToClientInv, CloseInv, ClientInv,
           ProcessInv DEF Next

\* The inductive invariant, from which the others follow.
THEOREM MessengerInvariant == Spec => []ApiInv
BY ApiInitInv, ApiStep, PTL DEF Spec

\* Every variable keeps its type, and no socket's buffer is overfilled.
THEOREM MessengerTypeOK == Spec => []ApiTypeOK
<1>1. ApiInv => ApiTypeOK
  BY DEF ApiInv
<1> QED BY <1>1, MessengerInvariant, PTL

\* Between open() and close() the socket the messenger listens on and the one it reads
\* from are its own, whatever numbers earlier rounds have left in its members.
THEOREM MessengerOwnSockets == Spec => []OwnSocketsInUse
BY ApiInvImplies, MessengerInvariant, PTL

\* There is never more than one listening and one accepted socket, and none outside
\* open() and close().
THEOREM MessengerNothingLeaks == Spec => []NothingLeaks
BY ApiInvImplies, MessengerInvariant, PTL
=============================================================================
