--------------------------- MODULE BcastMessenger ---------------------------
(***************************************************************************)
(* The broadcast port of the bridge (libsermctp/src/BcastMessenger.cpp): a *)
(* listening AF_UNIX SEQPACKET socket, at most one accepted client, and    *)
(* the file that names the socket.                                         *)
(*                                                                         *)
(* Descriptors are numbers, because close() leaves listenFd and connFd at  *)
(* the numbers it has just closed: fdOwner says what a number stands for   *)
(* in the process at the moment.  The rest of the process ("other") opens  *)
(* and closes descriptors of its own.  A client that has left may come     *)
(* back once the bridge has closed its end of the old connection.          *)
(***************************************************************************)
EXTENDS Integers, Sequences, FiniteSets

CONSTANTS
    Clients,     \* connections of client processes
    ClientMsgs,  \* what clients send: records with a field dest
    Fds,         \* descriptor numbers of the process
    Backlog,     \* listen(listenFd, 5)
    SockCap,     \* messages a socket buffer holds
    None         \* no client

ASSUME FdsAssumption == Fds \subseteq Nat /\ IsFiniteSet(Fds)
ASSUME BcastAssumption == None \notin Clients /\ Backlog \in Nat /\ SockCap \in Nat \ {0}

VARIABLES
    state, listenFd, connFd,   \* the members of the class
    socketPath,                \* whether the member socketPath has been set
    fdOwner,     \* what each descriptor number is: "free", "listen", "conn", "other"
    file,        \* whose socket the path names: "none", "mine", "other"
    backlog,     \* clients connected and not accepted
    peer,        \* the client at the other end of the accepted socket
    client,      \* each client: "new", "open", "closed", "reset"
    toServer,    \* messages in each connection, towards the bridge
    toClient     \* and towards the client

members == <<state, listenFd, connFd, socketPath>>
sockets == <<fdOwner, file, backlog, peer>>
clientVars == <<client, toServer, toClient>>
bcastVars == <<members, sockets, clientVars>>

FreeFds == {fd \in Fds : fdOwner[fd] = "free"}
\* The kernel hands out the lowest free number.
NewFd == CHOOSE fd \in FreeFds : \A other \in FreeFds : fd <= other

BcastInit ==
    /\ state = "Idle" /\ listenFd = -1 /\ connFd = -1 /\ socketPath = FALSE
    /\ fdOwner = [fd \in Fds |-> "free"] /\ file = "none"
    /\ backlog = <<>> /\ peer = None
    /\ client = [c \in Clients |-> "new"]
    /\ toServer = [c \in Clients |-> <<>>] /\ toClient = [c \in Clients |-> <<>>]

Gone(c) == client[c] \in {"closed", "reset"}

isConnected == state = "Connected" /\ connFd >= 0

-----------------------------------------------------------------------------
(* The methods.                                                            *)

\* Seeded fault: the state of the last connection is kept.
openKeepsState ==
    /\ FreeFds # {}
    /\ listenFd' = NewFd /\ fdOwner' = [fdOwner EXCEPT ![NewFd] = "listen"]
    /\ file' = "mine" /\ socketPath' = TRUE
    /\ UNCHANGED <<state, connFd, backlog, peer, clientVars>>

\* open(): socket, unlink, bind, listen.  connFd is left as it is.
open ==
    /\ FreeFds # {}
    /\ listenFd' = NewFd /\ fdOwner' = [fdOwner EXCEPT ![NewFd] = "listen"]
    /\ file' = "mine" /\ socketPath' = TRUE
    /\ state' = "Listening"
    /\ UNCHANGED <<connFd, backlog, peer, clientVars>>

\* No descriptor is left for socket().
openFailsSocket ==
    /\ FreeFds = {}
    /\ listenFd' = -1
    /\ UNCHANGED <<state, connFd, socketPath, sockets, clientVars>>

\* bind() fails after the old file has been unlinked.
openFailsBind ==
    /\ FreeFds # {}
    /\ listenFd' = -1 /\ file' = "none"
    /\ UNCHANGED <<state, connFd, socketPath, fdOwner, backlog, peer, clientVars>>

\* listen() fails with the socket file in place.
openFailsListen ==
    /\ FreeFds # {}
    /\ listenFd' = -1 /\ file' = "mine" /\ state' = "Bound"
    /\ UNCHANGED <<connFd, socketPath, fdOwner, backlog, peer, clientVars>>

\* Nobody waits: accept() reports EAGAIN and connFd becomes -1.
acceptNone ==
    /\ backlog = <<>> /\ FreeFds # {}
    /\ connFd' = -1
    /\ UNCHANGED <<state, listenFd, socketPath, sockets, clientVars>>

acceptClient ==
    /\ backlog # <<>> /\ FreeFds # {}
    /\ connFd' = NewFd /\ fdOwner' = [fdOwner EXCEPT ![NewFd] = "conn"]
    /\ peer' = Head(backlog) /\ backlog' = Tail(backlog)
    /\ state' = "Connected"
    /\ UNCHANGED <<listenFd, socketPath, file, clientVars>>

\* accept() needs a number before it looks for a client; without one it fails
\* with EMFILE and acceptConnection() throws.
acceptThrows ==
    /\ FreeFds = {}
    /\ connFd' = -1
    /\ UNCHANGED <<state, listenFd, socketPath, sockets, clientVars>>

acceptConnection == acceptNone \/ acceptClient \/ acceptThrows

\* recv() has a message with a payload.
recvData ==
    /\ isConnected /\ client[peer] # "reset"
    /\ toServer[peer] # <<>> /\ Head(toServer[peer]).dest # "empty"
    /\ toServer' = [toServer EXCEPT ![peer] = Tail(@)]
    /\ UNCHANGED <<members, sockets, client, toClient>>

\* Seeded fault: the descriptor is forgotten without being closed.
recvClosedLeaks ==
    /\ isConnected
    /\ \/ client[peer] = "reset"
       \/ toServer[peer] = <<>> /\ client[peer] = "closed"
    /\ connFd' = -1 /\ state' = "Listening" /\ peer' = None
    /\ UNCHANGED <<fdOwner, listenFd, socketPath, file, backlog, clientVars>>

\* Seeded fault: the state is not reset.
recvClosedStateKept ==
    /\ isConnected
    /\ \/ client[peer] = "reset"
       \/ toServer[peer] = <<>> /\ client[peer] = "closed"
    /\ fdOwner' = [fdOwner EXCEPT ![connFd] = "free"]
    /\ connFd' = -1 /\ peer' = None
    /\ UNCHANGED <<state, listenFd, socketPath, file, backlog, clientVars>>

\* Seeded fault: the end of the connection is taken for "no message".
recvClosedIgnored ==
    /\ isConnected /\ Gone(peer)
    /\ UNCHANGED bcastVars

\* recv() returns 0: the client is gone and all it sent has been read, or it sent
\* an empty message, which looks the same; or it fails with ECONNRESET, because
\* the client left without reading all it was sent.  The bridge's end is closed,
\* with whatever is still unread in it.
recvClosed ==
    /\ isConnected
    /\ \/ client[peer] = "reset"
       \/ toServer[peer] = <<>> /\ client[peer] = "closed"
       \/ toServer[peer] # <<>> /\ Head(toServer[peer]).dest = "empty"
    /\ fdOwner' = [fdOwner EXCEPT ![connFd] = "free"]
    /\ connFd' = -1 /\ state' = "Listening" /\ peer' = None
    /\ toServer' = [toServer EXCEPT ![peer] = <<>>]
    /\ UNCHANGED <<listenFd, socketPath, file, backlog, client, toClient>>

\* recv() reports EAGAIN.
recvNothing ==
    /\ isConnected
    /\ toServer[peer] = <<>> /\ ~Gone(peer)
    /\ UNCHANGED bcastVars

\* send() is blocking: the accepted socket does not inherit O_NONBLOCK from the
\* listening one.  It is not enabled while the client's buffer is full, and fails
\* with EPIPE, which is only logged, once the client is gone.
sendMessage(m) ==
    /\ isConnected
    /\ \/ /\ Gone(peer)
          /\ UNCHANGED toClient
       \/ /\ ~Gone(peer) /\ Len(toClient[peer]) < SockCap
          /\ toClient' = [toClient EXCEPT ![peer] = Append(@, m)]
    /\ UNCHANGED <<members, sockets, client, toServer>>

\* close(): whatever has the remembered numbers is closed, whatever has the
\* remembered name is unlinked, and no member changes.
Closes(fd) == fd \in {listenFd, connFd}

close ==
    /\ fdOwner' = [fd \in Fds |-> IF Closes(fd) THEN "free" ELSE fdOwner[fd]]
    /\ peer' = IF \E fd \in Fds : Closes(fd) /\ fdOwner[fd] = "conn" THEN None ELSE peer
    /\ backlog' = IF \E fd \in Fds : Closes(fd) /\ fdOwner[fd] = "listen" THEN <<>> ELSE backlog
    /\ file' = IF socketPath THEN "none" ELSE file
    /\ UNCHANGED <<members, clientVars>>

-----------------------------------------------------------------------------
(* Clients, and the rest of the process.                                   *)

Listening == \E fd \in Fds : fdOwner[fd] = "listen"
Attached(c) == peer = c \/ \E k \in 1..Len(backlog) : backlog[k] = c

clientConnect(c) ==
    /\ client[c] # "open" /\ ~Attached(c)
    /\ Listening /\ file = "mine" /\ Len(backlog) < Backlog
    /\ client' = [client EXCEPT ![c] = "open"]
    /\ backlog' = Append(backlog, c)
    /\ toServer' = [toServer EXCEPT ![c] = <<>>]
    /\ UNCHANGED <<members, fdOwner, file, peer, toClient>>

clientSend(c, m) ==
    /\ client[c] = "open" /\ Attached(c) /\ Len(toServer[c]) < SockCap
    /\ toServer' = [toServer EXCEPT ![c] = Append(@, m)]
    /\ UNCHANGED <<members, sockets, client, toClient>>

clientRead(c) ==
    /\ client[c] = "open" /\ toClient[c] # <<>>
    /\ toClient' = [toClient EXCEPT ![c] = Tail(@)]
    /\ UNCHANGED <<members, sockets, client, toServer>>

clientLeave(c) ==
    /\ client[c] = "open"
    /\ client' = [client EXCEPT ![c] = IF toClient[c] = <<>> THEN "closed" ELSE "reset"]
    /\ toClient' = [toClient EXCEPT ![c] = <<>>]
    /\ UNCHANGED <<members, sockets, toServer>>

otherOpen ==
    /\ FreeFds # {}
    /\ fdOwner' = [fdOwner EXCEPT ![NewFd] = "other"]
    /\ UNCHANGED <<members, file, backlog, peer, clientVars>>

otherClose(fd) ==
    /\ fdOwner[fd] = "other"
    /\ fdOwner' = [fdOwner EXCEPT ![fd] = "free"]
    /\ UNCHANGED <<members, file, backlog, peer, clientVars>>
=============================================================================
