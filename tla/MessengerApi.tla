---------------------------- MODULE MessengerApi ----------------------------
(***************************************************************************)
(* A BcastMessenger driven through its interface in every order the bridge *)
(* could use it: close() may be called at any time and any number of times *)
(* (MctpBridge::open() and its failure paths call it first, ~MctpBridge()  *)
(* and ~BcastMessenger() call it again), open() only after it, and the     *)
(* other methods only in between.  `inUse' is TRUE from a successful       *)
(* open() to the next close().  Meanwhile another bridge process may bind  *)
(* its own socket to the path, once this one has given up the interface    *)
(* that the path is named after.                                           *)
(***************************************************************************)
EXTENDS BcastMessenger

CONSTANT ServerMsgs   \* what the bridge sends to the client

VARIABLE inUse

apiVars == <<bcastVars, inUse>>

Init == BcastInit /\ inUse = FALSE

Open == ~inUse /\ open /\ inUse' = TRUE
OpenFails == ~inUse /\ (openFailsSocket \/ openFailsBind \/ openFailsListen) /\ UNCHANGED inUse
Accept == inUse /\ ~isConnected /\ acceptConnection /\ UNCHANGED inUse
Recv == inUse /\ (recvData \/ recvClosed \/ recvNothing) /\ UNCHANGED inUse
SendToClient == inUse /\ (\E m \in ServerMsgs : sendMessage(m)) /\ UNCHANGED inUse
Close == close /\ inUse' = FALSE

ClientStep(c) ==
    /\ clientConnect(c) \/ (\E m \in ClientMsgs : clientSend(c, m)) \/ clientRead(c) \/ clientLeave(c)
    /\ UNCHANGED inUse

Process == (otherOpen \/ \E fd \in Fds : otherClose(fd)) /\ UNCHANGED inUse

OtherBridge ==
    /\ ~inUse
    /\ file' = "other"
    /\ UNCHANGED <<members, fdOwner, backlog, peer, clientVars, inUse>>

Next ==
    \/ Open \/ OpenFails \/ Accept \/ Recv \/ SendToClient \/ Close
    \/ \E c \in Clients : ClientStep(c)
    \/ Process \/ OtherBridge

Spec == Init /\ [][Next]_apiVars

-----------------------------------------------------------------------------

\* Every variable has its type: the state never claims a connection without a
\* descriptor, and no socket buffer holds more than it can.
ApiTypeOK ==
    /\ state \in {"Idle", "Bound", "Listening", "Connected"}
    /\ {listenFd, connFd} \subseteq Fds \cup {-1}
    /\ state = "Connected" => connFd # -1
    /\ {socketPath, inUse} \subseteq BOOLEAN
    /\ fdOwner \in [Fds -> {"free", "listen", "conn", "other"}]
    /\ file \in {"none", "mine", "other"}
    /\ backlog \in Seq(Clients) /\ peer \in Clients \cup {None}
    /\ client \in [Clients -> {"new", "open", "closed", "reset"}]
    /\ \A c \in Clients : Len(toServer[c]) <= SockCap /\ Len(toClient[c]) <= SockCap

\* Between open() and close() the messenger never works on a stale number: the
\* socket it listens on is its own, and when it believes in a client, connFd is
\* the accepted socket and a client is behind it, after any number of earlier
\* open()/close() rounds, failed ones included.
OwnSocketsInUse ==
    inUse => /\ fdOwner[listenFd] = "listen"
             /\ isConnected => fdOwner[connFd] = "conn" /\ peer # None
             /\ ~isConnected => peer = None

\* A client is served by one connection at a time, and nothing leaks: outside
\* open()/close() no socket of the messenger is left in the process.
NothingLeaks ==
    /\ Cardinality({fd \in Fds : fdOwner[fd] = "listen"}) <= 1
    /\ Cardinality({fd \in Fds : fdOwner[fd] = "conn"}) <= 1
    /\ ~inUse => \A fd \in Fds : fdOwner[fd] \in {"free", "other"}

\* "Cleans up socket resources and removes the socket file" (BcastMessenger.cpp:173):
\* its own ones.  A step that closes the messenger closes no descriptor of the rest
\* of the process and unlinks no file of another bridge.
CloseOnlyOwn ==
    [][Close => /\ \A fd \in Fds : fdOwner[fd] = "other" => fdOwner'[fd] = "other"
                /\ file = "other" => file' = "other"]_apiVars
=============================================================================
