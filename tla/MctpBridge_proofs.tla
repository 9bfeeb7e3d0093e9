------------------------- MODULE MctpBridge_proofs -------------------------
(***************************************************************************)
(* The bridge routes every packet once and in order and works on open      *)
(* sockets only, for any number of clients, any buffers and any traffic.   *)
(*                                                                         *)
(* What concerns the sockets is taken from the messenger: the bridge is    *)
(* shown to use it as MessengerApi allows, so that the invariant proved    *)
(* there holds here.                                                       *)
(***************************************************************************)
EXTENDS MctpBridge, SequenceTheorems, TLAPS

\* The packets of each origin.
ClientPackets == [dest : ClientMsgs, from : Clients, id : Nat]
TtyPackets == [dest : TtyDests, from : {"tty"}, id : Nat]
LinuxPackets == [dest : {"any"}, from : {"linux"}, id : Nat]

\* The messenger is in use from the socket's setup in open() to the end of close().
Api == INSTANCE MessengerApi_proofs WITH
    ClientMsgs <- ClientPackets, ServerMsgs <- TtyPackets,
    inUse <- app \in {"bound", "open", "closing"}


-----------------------------------------------------------------------------
(* The dispatch thread and the two framers.                                *)

\* The thread exists from open() to the join in close().
Thread == pc # "none" <=> app \in {"open", "closing"}

\* What the framers' pipes hold, and that the thread never fetches from an empty one:
\* between epoll_wait() and the handler nobody else takes a packet out.
Pipes ==
    /\ ttyPipe \in Seq(TtyPackets) /\ linuxPipe \in Seq(LinuxPackets)
    /\ pc \in {"bcast", "linux"} /\ "linux" \in ready => linuxPipe # <<>>
    /\ pc \in {"bcast", "linux", "tty"} /\ "tty" \in ready => ttyPipe # <<>>
    /\ pc = "sending" => msg \in TtyPackets /\ msg.dest = "bcast"

LoopInv == BridgeTypeOK /\ Thread /\ Pipes

LEMMA FetchOne ==
    ASSUME NEW S, NEW s \in Seq(S), s # <<>>
    PROVE  Head(s) \in S /\ Tail(s) \in Seq(S) /\ Len(Tail(s)) = Len(s) - 1
BY HeadTailProperties

LEMMA LoopInitInv == ASSUME Init PROVE LoopInv
<1>1. BridgeTypeOK
  <2>1. 0 \in 0..MaxTty /\ 0 \in 0..MaxLinux /\ 0 \in 0..MaxClient /\ Len(<<>>) <= PipeCap
    BY BridgeAssumption
  <2> QED BY <2>1 DEF Init, BridgeTypeOK
<1>2. Thread /\ Pipes
  BY DEF Init, Thread, Pipes
<1> QED BY <1>1, <1>2 DEF LoopInv

\* open() and close() change nothing while the thread runs, and clear the pipes when
\* it does not.
LEMMA AppLoopInv ==
    ASSUME LoopInv,
           OpenBegin \/ OpenSocket \/ OpenSocketFails \/ OpenFails \/ OpenEnd \/ CloseBegin \/ CloseEnd
    PROVE  LoopInv'
<1>1. UNCHANGED <<ready, msg, ttyIn, linuxIn, clientIn>>
  BY DEF OpenBegin, OpenSocket, OpenSocketFails, OpenFails, OpenEnd, CloseBegin, CloseEnd, appStep
<1>2. CASE OpenBegin \/ OpenFails \/ CloseEnd
  <2>1. /\ ttyPipe' = <<>> /\ linuxPipe' = <<>> /\ running' = running /\ pc' = "none"
        /\ app # "open" /\ app' \in {"opening", "closed"}
    BY <1>2 DEF OpenBegin, OpenFails, CloseEnd, appStep, Shutdown, LoopInv, Thread
  <2> QED BY <1>1, <2>1, BridgeAssumption DEF LoopInv, BridgeTypeOK, Thread, Pipes
<1>3. CASE OpenSocket \/ OpenSocketFails
  <2>1. UNCHANGED <<ttyPipe, linuxPipe, running, pc>> /\ app = "opening" /\ app' \in {"bound", "failed"}
    BY <1>3 DEF OpenSocket, OpenSocketFails, appStep
  <2> QED BY <1>1, <2>1 DEF LoopInv, BridgeTypeOK, Thread, Pipes
<1>4. CASE OpenEnd
  <2>1. UNCHANGED <<ttyPipe, linuxPipe>> /\ running' = TRUE /\ pc' = "top" /\ app' = "open"
    BY <1>4 DEF OpenEnd, appStep
  <2> QED BY <1>1, <2>1 DEF LoopInv, BridgeTypeOK, Thread, Pipes
<1>5. CASE CloseBegin
  <2>1. /\ UNCHANGED <<ttyPipe, linuxPipe, pc>> /\ running' = FALSE
        /\ app = "open" /\ app' = "closing"
    BY <1>5 DEF CloseBegin, appStep
  <2> QED BY <1>1, <2>1 DEF LoopInv, BridgeTypeOK, Thread, Pipes
<1> QED BY <1>2, <1>3, <1>4, <1>5

LEMMA DispatchLoopInv == ASSUME LoopInv, Dispatch PROVE LoopInv'
<1>1. pc # "none" /\ pc' # "none" /\ UNCHANGED <<app, running>>
  BY DEF Dispatch, Top, Exit, PollSkipped, PollReady, HandleBcast, HandleLinux, HandleTty, SendBcast,
         PassOver, goto, After
<1>2. Thread'
  BY <1>1 DEF LoopInv, Thread
<1>3. UNCHANGED <<ttyIn, linuxIn, clientIn>>
  BY DEF Dispatch, Top, Exit, PollSkipped, PollReady, HandleBcast, HandleLinux, HandleTty, SendBcast,
         PassOver, portVars
<1>4. CASE Top \/ Exit \/ PollSkipped
  <2>1. UNCHANGED <<ready, msg, ttyPipe, linuxPipe>> /\ pc' \in {"poll", "exited", "top"}
    BY <1>4 DEF Top, Exit, PollSkipped, goto, portVars
  <2> QED BY <1>1, <1>2, <1>3, <2>1 DEF LoopInv, BridgeTypeOK, Pipes
<1>5. CASE PollReady
  <2>1. UNCHANGED <<msg, ttyPipe, linuxPipe>> /\ pc' = "bcast" /\ ready' = ReadyPorts
    BY <1>5 DEF PollReady, goto, portVars
  <2>2. /\ ReadyPorts \subseteq {"bcast", "linux", "tty"}
        /\ "linux" \in ReadyPorts => linuxPipe # <<>>
        /\ "tty" \in ReadyPorts => ttyPipe # <<>>
    BY DEF ReadyPorts
  <2> QED BY <1>1, <1>2, <1>3, <2>1, <2>2 DEF LoopInv, BridgeTypeOK, Pipes
<1>6. CASE HandleBcast
  <2>1. /\ UNCHANGED <<msg, ttyPipe, linuxPipe>> /\ pc = "bcast" /\ pc' = "linux"
        /\ ready' = ready \ {"bcast"}
    BY <1>6 DEF HandleBcast, goto, portVars
  <2> QED BY <1>1, <1>2, <1>3, <2>1 DEF LoopInv, BridgeTypeOK, Pipes
<1>7. CASE HandleLinux
  <2>1. /\ UNCHANGED <<msg, ttyPipe>> /\ pc = "linux" /\ pc' = "tty" /\ ready' = ready \ {"linux"}
        /\ linuxPipe' = Tail(linuxPipe) /\ "linux" \in ready
    BY <1>7 DEF HandleLinux, goto
  <2>2. linuxPipe \in Seq(LinuxPackets) /\ linuxPipe # <<>> /\ Len(linuxPipe) <= PipeCap
    BY <2>1 DEF LoopInv, Pipes, BridgeTypeOK
  <2>3. linuxPipe' \in Seq(LinuxPackets) /\ Len(linuxPipe') = Len(linuxPipe) - 1
    BY <2>1, <2>2, FetchOne
  <2>4. Len(linuxPipe') <= PipeCap
    BY <2>2, <2>3, BridgeAssumption
  <2> QED BY <1>1, <1>2, <1>3, <2>1, <2>3, <2>4 DEF LoopInv, BridgeTypeOK, Pipes
<1>8. CASE HandleTty
  <2>1. /\ UNCHANGED linuxPipe /\ pc = "tty" /\ ready' = {} /\ "tty" \in ready
        /\ ttyPipe' = Tail(ttyPipe)
        /\ \/ pc' = "top"
           \/ pc' = "sending" /\ msg' = Head(ttyPipe) /\ Head(ttyPipe).dest = "bcast"
    BY <1>8 DEF HandleTty, goto
  <2>2. ttyPipe \in Seq(TtyPackets) /\ ttyPipe # <<>> /\ Len(ttyPipe) <= PipeCap
    BY <2>1 DEF LoopInv, Pipes, BridgeTypeOK
  <2>3. /\ Head(ttyPipe) \in TtyPackets
        /\ ttyPipe' \in Seq(TtyPackets) /\ Len(ttyPipe') = Len(ttyPipe) - 1
    BY <2>1, <2>2, FetchOne
  <2>4. Len(ttyPipe') <= PipeCap
    BY <2>2, <2>3, BridgeAssumption
  <2>5. pc' = "sending" => msg' \in TtyPackets /\ msg'.dest = "bcast"
    BY <2>1, <2>3
  <2> QED BY <1>1, <1>2, <1>3, <2>1, <2>3, <2>4, <2>5 DEF LoopInv, BridgeTypeOK, Pipes
<1>9. CASE SendBcast
  <2>1. UNCHANGED <<ready, ttyPipe, linuxPipe>> /\ pc' = "top"
    BY <1>9 DEF SendBcast, goto, portVars
  <2> QED BY <1>1, <1>2, <1>3, <2>1 DEF LoopInv, BridgeTypeOK, Pipes
<1>10. CASE PassOver
  <2>1. /\ UNCHANGED <<ready, msg, ttyPipe, linuxPipe>> /\ pc \notin ready
        /\ \/ pc = "bcast" /\ pc' = "linux"
           \/ pc = "linux" /\ pc' = "tty"
           \/ pc = "tty" /\ pc' = "top"
    BY <1>10 DEF PassOver, goto, portVars, After
  <2> QED BY <1>1, <1>2, <1>3, <2>1 DEF LoopInv, BridgeTypeOK, Pipes
<1> QED BY <1>4, <1>5, <1>6, <1>7, <1>8, <1>9, <1>10 DEF Dispatch

\* Only arrivals fill the pipes, up to their capacity.
LEMMA OutsideLoopInv ==
    ASSUME LoopInv,
           \/ \E c \in Clients : ClientStep(c) \/ ClientReads(c)
           \/ LinuxArrives
           \/ \E d \in TtyDests : TtyArrives(d)
    PROVE  LoopInv'
<1>1. UNCHANGED <<app, running, pc, ready, msg>>
  BY DEF ClientStep, ClientReads, LinuxArrives, TtyArrives, bridgeVars
<1>2. Thread'
  BY <1>1 DEF LoopInv, Thread
<1>3. /\ clientIn \in 0..MaxClient /\ linuxIn \in 0..MaxLinux /\ ttyIn \in 0..MaxTty
      /\ MaxClient \in Nat /\ MaxLinux \in Nat /\ MaxTty \in Nat
  BY BridgeAssumption DEF LoopInv, BridgeTypeOK
<1>4. ASSUME NEW c \in Clients, ClientStep(c) \/ ClientReads(c) PROVE LoopInv'
  <2>1. UNCHANGED <<ttyPipe, linuxPipe, ttyIn, linuxIn>>
        /\ (clientIn' = clientIn \/ (clientIn' = clientIn + 1 /\ clientIn < MaxClient))
    <3>1. CASE ClientReads(c)
      BY <3>1 DEF ClientReads, portVars
    <3>2. CASE ClientStep(c)
      BY <3>2, Zenon DEF ClientStep
    <3> QED BY <1>4, <3>1, <3>2
  <2>2. clientIn' \in 0..MaxClient
    BY <1>3, <2>1
  <2> QED BY <1>1, <1>2, <2>1, <2>2 DEF LoopInv, BridgeTypeOK, Pipes
<1>5. CASE LinuxArrives
  <2>1. PICK m : m = [dest |-> "any", from |-> "linux", id |-> linuxIn + 1]
    OBVIOUS
  <2>2. /\ linuxIn' = linuxIn + 1 /\ linuxIn < MaxLinux /\ Len(linuxPipe) < PipeCap
        /\ linuxPipe' = Append(linuxPipe, m) /\ UNCHANGED <<ttyPipe, ttyIn, clientIn>>
    BY <1>5, <2>1 DEF LinuxArrives
  <2>3. m \in LinuxPackets /\ linuxIn' \in 0..MaxLinux
    BY <1>3, <2>1, <2>2 DEF LinuxPackets
  <2>4. linuxPipe \in Seq(LinuxPackets)
    BY DEF LoopInv, Pipes
  <2>5. linuxPipe' \in Seq(LinuxPackets) /\ Len(linuxPipe') <= PipeCap /\ linuxPipe' # <<>>
    BY <2>2, <2>3, <2>4, AppendProperties, BridgeAssumption
  <2> QED BY <1>1, <1>2, <2>2, <2>3, <2>5 DEF LoopInv, BridgeTypeOK, Pipes
<1>6. ASSUME NEW d \in TtyDests, TtyArrives(d) PROVE LoopInv'
  <2>1. PICK m : m = [dest |-> d, from |-> "tty", id |-> ttyIn + 1]
    OBVIOUS
  <2>2. /\ ttyIn' = ttyIn + 1 /\ ttyIn < MaxTty /\ Len(ttyPipe) < PipeCap
        /\ ttyPipe' = Append(ttyPipe, m) /\ UNCHANGED <<linuxPipe, linuxIn, clientIn>>
    BY <1>6, <2>1 DEF TtyArrives
  <2>3. m \in TtyPackets /\ ttyIn' \in 0..MaxTty
    BY <1>3, <2>1, <2>2 DEF TtyPackets
  <2>4. ttyPipe \in Seq(TtyPackets)
    BY DEF LoopInv, Pipes
  <2>5. ttyPipe' \in Seq(TtyPackets) /\ Len(ttyPipe') <= PipeCap /\ ttyPipe' # <<>>
    BY <2>2, <2>3, <2>4, AppendProperties, BridgeAssumption
  <2> QED BY <1>1, <1>2, <2>2, <2>3, <2>5 DEF LoopInv, BridgeTypeOK, Pipes
<1> QED BY <1>4, <1>5, <1>6

\* The invariant of the loop holds in every reachable state.
THEOREM LoopInvariant == Spec => []LoopInv
<1>1. Init => LoopInv
  BY LoopInitInv
<1>2. LoopInv /\ [Next]_vars => LoopInv'
  <2> SUFFICES ASSUME LoopInv, [Next]_vars PROVE LoopInv'
    OBVIOUS
  <2>1. CASE UNCHANGED vars
    BY <2>1 DEF vars, bridgeVars, portVars, LoopInv, BridgeTypeOK, Thread, Pipes
  <2> QED BY <2>1, AppLoopInv, DispatchLoopInv, OutsideLoopInv DEF Next
<1> QED BY <1>1, <1>2, PTL DEF Spec

-----------------------------------------------------------------------------
(* The messenger.                                                          *)

\* The assumptions of MessengerApi hold here.
LEMMA ApiFds == Api!IsFiniteSet(Fds)
BY FdsAssumption, Zenon DEF Api!IsFiniteSet, IsFiniteSet

LEMMA ApiInitHolds == ASSUME Init PROVE Api!Init
BY DEF Init, BcastInit, Api!Init, Api!BcastInit

\* The methods of the messenger are the same in both modules.
LEMMA ApiMethods ==
    /\ close => Api!close
    /\ open => Api!open
    /\ openFailsSocket \/ openFailsBind \/ openFailsListen
          => Api!openFailsSocket \/ Api!openFailsBind \/ Api!openFailsListen
    /\ isConnected <=> Api!isConnected
    /\ acceptNone \/ acceptClient => Api!acceptConnection
    /\ recvData \/ recvClosed \/ recvNothing => Api!recvData \/ Api!recvClosed \/ Api!recvNothing
    /\ \A m : sendMessage(m) => Api!sendMessage(m)
    /\ \A c : clientConnect(c) => Api!clientConnect(c)
    /\ \A c, m : clientSend(c, m) => Api!clientSend(c, m)
    /\ \A c : clientRead(c) => Api!clientRead(c)
    /\ \A c : clientLeave(c) => Api!clientLeave(c)
<1> USE DEF members, sockets, clientVars, bcastVars, Api!members, Api!sockets, Api!clientVars,
            Api!bcastVars
<1>1. FreeFds = Api!FreeFds /\ NewFd = Api!NewFd
  BY Zenon DEF FreeFds, NewFd, Api!FreeFds, Api!NewFd
<1>2. (\A fd : Closes(fd) <=> Api!Closes(fd)) /\ (isConnected <=> Api!isConnected)
      /\ (\A c : Gone(c) <=> Api!Gone(c)) /\ (\A c : Attached(c) <=> Api!Attached(c))
      /\ (Listening <=> Api!Listening)
  BY DEF Closes, isConnected, Gone, Attached, Listening,
         Api!Closes, Api!isConnected, Api!Gone, Api!Attached, Api!Listening
<1>3. close => Api!close
  BY <1>2 DEF close, Api!close
<1>4. open => Api!open
  BY <1>1 DEF open, Api!open
<1>5. /\ openFailsSocket => Api!openFailsSocket
      /\ openFailsBind => Api!openFailsBind
      /\ openFailsListen => Api!openFailsListen
  BY <1>1 DEF openFailsSocket, openFailsBind, openFailsListen,
              Api!openFailsSocket, Api!openFailsBind, Api!openFailsListen
<1>6. acceptNone \/ acceptClient => Api!acceptConnection
  BY <1>1 DEF acceptNone, acceptClient, Api!acceptConnection, Api!acceptNone, Api!acceptClient
<1>7. /\ recvData => Api!recvData
      /\ recvClosed => Api!recvClosed
      /\ recvNothing => Api!recvNothing
  BY <1>2 DEF recvData, recvClosed, recvNothing, Api!recvData, Api!recvClosed, Api!recvNothing
<1>8. \A m : sendMessage(m) => Api!sendMessage(m)
  BY <1>2 DEF sendMessage, Api!sendMessage
<1>9. \A c : clientConnect(c) => Api!clientConnect(c)
  BY <1>2 DEF clientConnect, Api!clientConnect
<1>10. \A c, m : clientSend(c, m) => Api!clientSend(c, m)
  BY <1>2 DEF clientSend, Api!clientSend
<1>11. \A c : (clientRead(c) => Api!clientRead(c)) /\ (clientLeave(c) => Api!clientLeave(c))
  BY DEF clientRead, clientLeave, Api!clientRead, Api!clientLeave
<1> QED BY <1>2, <1>3, <1>4, <1>5, <1>6, <1>7, <1>8, <1>9, <1>10, <1>11

LEMMA ApiStepHolds == ASSUME LoopInv, [Next]_vars PROVE [Api!Next]_(Api!apiVars)
<1> DEFINE inUse == app \in {"bound", "open", "closing"}
<1>1. ASSUME UNCHANGED bcastVars, UNCHANGED inUse PROVE UNCHANGED Api!apiVars
  BY <1>1 DEF bcastVars, members, sockets, clientVars, Api!apiVars, Api!bcastVars, Api!members,
              Api!sockets, Api!clientVars
<1>2. ASSUME OpenBegin \/ OpenFails \/ CloseEnd PROVE Api!Close
  <2>1. close /\ inUse' = FALSE
    BY <1>2 DEF OpenBegin, OpenFails, CloseEnd, appStep, Shutdown
  <2> QED BY <2>1, ApiMethods DEF Api!Close
<1>3. ASSUME OpenSocket PROVE Api!Open
  <2>1. open /\ ~inUse /\ inUse' = TRUE
    BY <1>3 DEF OpenSocket, appStep
  <2> QED BY <2>1, ApiMethods DEF Api!Open
<1>4. ASSUME OpenSocketFails PROVE Api!OpenFails
  <2>1. (openFailsSocket \/ openFailsBind \/ openFailsListen) /\ ~inUse /\ inUse' = inUse
    BY <1>4 DEF OpenSocketFails, appStep
  <2> QED BY <2>1, ApiMethods DEF Api!OpenFails
<1>5. ASSUME OpenEnd \/ CloseBegin PROVE UNCHANGED Api!apiVars
  <2>1. UNCHANGED bcastVars /\ inUse' = inUse
    BY <1>5 DEF OpenEnd, CloseBegin, appStep
  <2> QED BY <1>1, <2>1
<1>6. ASSUME Dispatch PROVE inUse /\ inUse' = inUse
  <2>1. pc # "none" /\ app' = app
    BY <1>6 DEF Dispatch, Top, Exit, PollSkipped, PollReady, HandleBcast, HandleLinux, HandleTty,
                SendBcast, PassOver, goto
  <2> QED BY <2>1 DEF LoopInv, Thread
<1>7. ASSUME Dispatch PROVE [Api!Next]_(Api!apiVars)
  <2>1. CASE Top
    <3>1. CASE isConnected
      BY <1>1, <1>6, <1>7, <2>1, <3>1 DEF Top
    <3>2. CASE ~isConnected
      <4>1. acceptNone \/ acceptClient
        BY <2>1, <3>2 DEF Top
      <4>2. Api!Accept
        BY <1>6, <1>7, <3>2, <4>1, ApiMethods DEF Api!Accept
      <4> QED BY <4>2 DEF Api!Next
    <3> QED BY <3>1, <3>2
  <2>2. CASE HandleBcast
    <3>1. recvData \/ recvClosed \/ recvNothing
      BY <2>2 DEF HandleBcast
    <3>2. Api!Recv
      BY <1>6, <1>7, <3>1, ApiMethods DEF Api!Recv
    <3> QED BY <3>2 DEF Api!Next
  <2>3. CASE SendBcast
    <3>1. sendMessage(msg) /\ msg \in TtyPackets
      BY <2>3 DEF SendBcast, LoopInv, Pipes
    <3>2. Api!SendToClient
      BY <1>6, <1>7, <3>1, ApiMethods DEF Api!SendToClient
    <3> QED BY <3>2 DEF Api!Next
  <2>4. CASE Exit \/ PollSkipped \/ PollReady \/ HandleLinux \/ HandleTty \/ PassOver
    <3>1. UNCHANGED bcastVars
      BY <2>4 DEF Exit, PollSkipped, PollReady, HandleLinux, HandleTty, PassOver
    <3> QED BY <1>1, <1>6, <1>7, <3>1
  <2> QED BY <1>7, <2>1, <2>2, <2>3, <2>4 DEF Dispatch
<1>8. ASSUME NEW c \in Clients, ClientStep(c) \/ ClientReads(c) PROVE Api!ClientStep(c)
  <2>1. inUse' = inUse
    BY <1>8 DEF ClientStep, ClientReads, bridgeVars
  <2>2. CASE ClientReads(c)
    BY <2>1, <2>2, ApiMethods DEF ClientReads, Api!ClientStep
  <2>3. CASE clientConnect(c) \/ clientLeave(c)
    BY <2>1, <2>3, ApiMethods DEF Api!ClientStep
  <2>4. ASSUME NEW d \in ClientMsgs, clientSend(c, [dest |-> d, from |-> c, id |-> clientIn + 1])
        PROVE  Api!ClientStep(c)
    <3>1. [dest |-> d, from |-> c, id |-> clientIn + 1] \in ClientPackets
      BY DEF LoopInv, BridgeTypeOK, ClientPackets
    <3>2. Api!clientSend(c, [dest |-> d, from |-> c, id |-> clientIn + 1])
      BY <2>4, ApiMethods
    <3> QED BY <2>1, <3>1, <3>2 DEF Api!ClientStep
  <2> QED BY <1>8, <2>2, <2>3, <2>4 DEF ClientStep
<1>9. ASSUME LinuxArrives \/ \E d \in TtyDests : TtyArrives(d) PROVE UNCHANGED Api!apiVars
  <2>1. UNCHANGED bcastVars /\ inUse' = inUse
    BY <1>9 DEF LinuxArrives, TtyArrives, bridgeVars
  <2> QED BY <1>1, <2>1
<1>10. ASSUME UNCHANGED vars PROVE UNCHANGED Api!apiVars
  <2>1. UNCHANGED bcastVars /\ inUse' = inUse
    BY <1>10 DEF vars, bridgeVars
  <2> QED BY <1>1, <2>1
<1> QED BY <1>2, <1>3, <1>4, <1>5, <1>7, <1>8, <1>9, <1>10 DEF Next, Api!Next

\* The bridge uses its messenger as MessengerApi allows: open() after close(), accept(),
\* recvMessage() and sendMessage() only in between, on the thread that close() joins.
THEOREM BridgeUsesMessenger == Spec => Api!Spec
BY ApiInitHolds, ApiStepHolds, LoopInvariant, PTL DEF Spec, Api!Spec

\* So what is proved of the messenger holds in the bridge.
LEMMA MessengerInBridge == Spec => []Api!ApiInv
BY ApiFds, FdsAssumption, BcastAssumption, BridgeUsesMessenger, Api!MessengerInvariant, PTL

-----------------------------------------------------------------------------
(* Routing.                                                                *)

\* Of the n packets that have arrived from an origin, `in' holds the last ones that are
\* still to be handled, in order, and those of them in `out' came before.
Ordered(out, origin, in, n) ==
    /\ \A k \in 1..Len(in) : in[k].from = origin /\ in[k].id <= n
    /\ \A j, k \in 1..Len(in) : j < k => in[j].id < in[k].id
    /\ \A j \in 1..Len(out) :
          out[j].from = origin => out[j].id <= n /\ \A k \in 1..Len(in) : out[j].id < in[k].id
    /\ \A j, k \in 1..Len(out) :
          j < k /\ out[j].from = origin /\ out[k].from = origin => out[j].id < out[k].id

\* A packet arrives.
LEMMA OrderedArrives ==
    ASSUME NEW S, \A x \in S : x.id \in Nat,
           NEW out \in Seq(S), NEW origin, NEW in \in Seq(S), NEW n \in Nat,
           Ordered(out, origin, in, n), NEW m \in S, m.from = origin, m.id = n + 1
    PROVE  Ordered(out, origin, Append(in, m), n + 1)
<1>1. PICK t : t = Append(in, m)
  OBVIOUS
<1>2. /\ t \in Seq(S) /\ Len(t) = Len(in) + 1 /\ t[Len(in) + 1] = m
      /\ \A k \in 1..Len(in) : t[k] = in[k]
  BY <1>1, AppendProperties
<1>3. \A k \in 1..Len(t) : k \in 1..Len(in) \/ k = Len(in) + 1
  BY <1>2
<1>4. (\A k \in 1..Len(in) : in[k].id \in Nat) /\ (\A k \in 1..Len(out) : out[k].id \in Nat)
  OBVIOUS
<1>5. \A k \in 1..Len(t) : t[k].from = origin /\ t[k].id <= n + 1
  BY <1>2, <1>3, <1>4 DEF Ordered
<1>6. ASSUME NEW j \in 1..Len(t), NEW k \in 1..Len(t), j < k PROVE t[j].id < t[k].id
  <2>1. j \in 1..Len(in)
    BY <1>2, <1>6
  <2>2. t[j] = in[j] /\ in[j].id <= n
    BY <1>2, <2>1 DEF Ordered
  <2>3. CASE k \in 1..Len(in)
    BY <1>2, <1>6, <2>1, <2>3 DEF Ordered
  <2>4. CASE k = Len(in) + 1
    BY <1>2, <1>4, <2>1, <2>2, <2>4
  <2> QED BY <1>3, <2>3, <2>4
<1>7. ASSUME NEW j \in 1..Len(out), out[j].from = origin
      PROVE  out[j].id <= n + 1 /\ \A k \in 1..Len(t) : out[j].id < t[k].id
  <2>1. out[j].id \in Nat /\ out[j].id <= n /\ \A k \in 1..Len(in) : out[j].id < in[k].id
    BY <1>4, <1>7 DEF Ordered
  <2>2. ASSUME NEW k \in 1..Len(t) PROVE out[j].id < t[k].id
    <3>1. CASE k \in 1..Len(in)
      BY <1>2, <2>1, <3>1
    <3>2. CASE k = Len(in) + 1
      BY <1>2, <2>1, <3>2
    <3> QED BY <1>3, <3>1, <3>2
  <2> QED BY <2>1, <2>2
<1> QED BY <1>1, <1>5, <1>6, <1>7 DEF Ordered

\* The oldest packet is handled: it goes out, or it is dropped.
LEMMA OrderedLeaves ==
    ASSUME NEW S, NEW out \in Seq(S), NEW origin, NEW in \in Seq(S), in # <<>>, NEW n \in Nat,
           Ordered(out, origin, in, n)
    PROVE  /\ Ordered(Append(out, Head(in)), origin, Tail(in), n)
           /\ Ordered(out, origin, Tail(in), n)
<1>1. PICK t : t = Tail(in)
  OBVIOUS
<1>2. PICK m : m = Head(in)
  OBVIOUS
<1>3. /\ t \in Seq(S) /\ Len(t) = Len(in) - 1 /\ \A k \in 1..Len(t) : t[k] = in[k + 1]
      /\ m = in[1] /\ m \in S
  BY <1>1, <1>2, HeadTailProperties
<1>4. PICK u : u = Append(out, m)
  OBVIOUS
<1>5. /\ u \in Seq(S) /\ Len(u) = Len(out) + 1 /\ u[Len(out) + 1] = m
      /\ \A k \in 1..Len(out) : u[k] = out[k]
  BY <1>3, <1>4, AppendProperties
<1>6. 1 \in 1..Len(in) /\ \A k \in 1..Len(t) : k + 1 \in 1..Len(in) /\ 1 < k + 1
  BY <1>3
<1>7. /\ \A k \in 1..Len(t) : t[k].from = origin /\ t[k].id <= n
      /\ \A j, k \in 1..Len(t) : j < k => t[j].id < t[k].id
  <2>1. \A j, k \in 1..Len(t) : j < k => j + 1 < k + 1
    OBVIOUS
  <2> QED BY <1>3, <1>6, <2>1 DEF Ordered
<1>8. ASSUME NEW j \in 1..Len(out), out[j].from = origin
      PROVE  /\ out[j].id <= n /\ out[j].id < m.id
             /\ \A k \in 1..Len(t) : out[j].id < t[k].id
  BY <1>3, <1>6, <1>8 DEF Ordered
<1>9. m.id <= n /\ \A k \in 1..Len(t) : m.id < t[k].id
  BY <1>3, <1>6 DEF Ordered
<1>10. \A j \in 1..Len(u) : j \in 1..Len(out) \/ j = Len(out) + 1
  BY <1>5
<1>11. ASSUME NEW j \in 1..Len(u), NEW k \in 1..Len(u), j < k, u[j].from = origin, u[k].from = origin
       PROVE  u[j].id < u[k].id
  <2>1. j \in 1..Len(out)
    BY <1>5, <1>11
  <2>2. CASE k \in 1..Len(out)
    BY <1>5, <1>11, <2>1, <2>2 DEF Ordered
  <2>3. CASE k = Len(out) + 1
    BY <1>5, <1>8, <1>11, <2>1, <2>3
  <2> QED BY <1>10, <2>2, <2>3
<1>12. ASSUME NEW j \in 1..Len(u), u[j].from = origin
       PROVE  u[j].id <= n /\ \A k \in 1..Len(t) : u[j].id < t[k].id
  <2>1. CASE j \in 1..Len(out)
    BY <1>5, <1>8, <1>12, <2>1
  <2>2. CASE j = Len(out) + 1
    BY <1>5, <1>9, <2>2
  <2> QED BY <1>10, <2>1, <2>2
<1>13. Ordered(u, origin, t, n)
  BY <1>7, <1>11, <1>12 DEF Ordered
<1>14. Ordered(out, origin, t, n)
  BY <1>7, <1>8 DEF Ordered
<1> QED BY <1>1, <1>2, <1>4, <1>13, <1>14

\* A packet of another origin goes out.
LEMMA OrderedOther ==
    ASSUME NEW S, NEW out \in Seq(S), NEW origin, NEW in, NEW n,
           Ordered(out, origin, in, n), NEW m \in S, m.from # origin
    PROVE  Ordered(Append(out, m), origin, in, n)
<1>1. PICK u : u = Append(out, m)
  OBVIOUS
<1>2. /\ Len(u) = Len(out) + 1 /\ u[Len(out) + 1] = m
      /\ \A k \in 1..Len(out) : u[k] = out[k]
  BY <1>1, AppendProperties
<1>3. \A j \in 1..Len(u) : u[j].from = origin => j \in 1..Len(out) /\ u[j] = out[j]
  BY <1>2
<1>4. Ordered(u, origin, in, n)
  BY <1>3 DEF Ordered
<1> QED BY <1>1, <1>4

\* The pipe is emptied; and packets of other origins arrive.
LEMMA OrderedRest ==
    ASSUME NEW S, \A x \in S : x.id \in Nat,
           NEW out \in Seq(S), NEW origin, NEW in \in Seq(S), NEW n \in Nat, Ordered(out, origin, in, n)
    PROVE  Ordered(out, origin, <<>>, n) /\ Ordered(out, origin, in, n + 1)
<1>1. (\A k \in 1..Len(in) : in[k].id \in Nat) /\ (\A k \in 1..Len(out) : out[k].id \in Nat)
  OBVIOUS
<1>2. Ordered(out, origin, in, n + 1)
  BY <1>1 DEF Ordered
<1>3. Ordered(out, origin, <<>>, n)
  BY DEF Ordered
<1> QED BY <1>2, <1>3

\* What the bridge sends out over the serial line.
OutPackets == ClientPackets \cup LinuxPackets

\* What came in over the serial line and may still go to a client.
Pending == IF pc = "sending" THEN <<msg>> \o ttyPipe ELSE ttyPipe

Destinations ==
    /\ \A k \in 1..Len(toLinux) : toLinux[k].dest \in {"uni", "reply"}
    /\ \A k \in 1..Len(toBcast) : toBcast[k].dest = "bcast"
    /\ \A k \in 1..Len(toTty) : toTty[k].from \in Clients => toTty[k].dest \in {"bcast", "one"}

RouteInv ==
    /\ toTty \in Seq(OutPackets) /\ toLinux \in Seq(TtyPackets) /\ toBcast \in Seq(TtyPackets)
    /\ Destinations
    /\ Ordered(toTty, "linux", linuxPipe, linuxIn)
    /\ \A c \in Clients : Ordered(toTty, c, toServer[c], clientIn)
    /\ Ordered(toLinux, "tty", ttyPipe, ttyIn)
    /\ Ordered(toBcast, "tty", Pending, ttyIn)

\* From epoll_wait() on, there is a client where the thread looks for one.
ClientThere == pc = "sending" \/ (pc = "bcast" /\ "bcast" \in ready) => isConnected

BridgeInv == RouteInv /\ ClientThere

\* What the messenger's invariant says about its buffers and sockets.
LEMMA ApiFacts ==
    ASSUME Api!ApiInv
    PROVE  /\ toServer \in [Clients -> Seq(ClientPackets)]
           /\ app \in {"bound", "open", "closing"} => fdOwner[listenFd] = "listen"
           /\ app \in {"bound", "open", "closing"} /\ isConnected =>
                 fdOwner[connFd] = "conn" /\ peer \in Clients
<1>1. Api!ApiInv => Api!OwnSocketsInUse
  BY ApiFds, FdsAssumption, BcastAssumption, Api!ApiInvImplies, Zenon
<1>2. isConnected <=> Api!isConnected
  BY DEF isConnected, Api!isConnected
<1> QED BY <1>1, <1>2 DEF Api!OwnSocketsInUse, Api!ApiInv, Api!ApiTypeOK, Api!Buffers

\* The numbers of packets are naturals.
LEMMA PacketIds ==
    /\ \A x \in ClientPackets : x.id \in Nat /\ x.from \in Clients /\ x.from # "linux"
    /\ \A x \in TtyPackets : x.id \in Nat /\ x.from = "tty"
    /\ \A x \in LinuxPackets : x.id \in Nat /\ x.from = "linux" /\ x.from \notin Clients
    /\ \A x \in OutPackets : x.id \in Nat
BY PortsAssumption DEF ClientPackets, TtyPackets, LinuxPackets, OutPackets

LEMMA BridgeInvImplies ==
    ASSUME LoopInv, Api!ApiInv, BridgeInv PROVE Routing /\ DispatchOnOpenPorts
<1>1. InOrder(toLinux) /\ InOrder(toBcast)
  <2>1. \A k \in 1..Len(toLinux) : toLinux[k].from = "tty"
    BY PacketIds DEF BridgeInv, RouteInv
  <2>2. \A k \in 1..Len(toBcast) : toBcast[k].from = "tty"
    BY PacketIds DEF BridgeInv, RouteInv
  <2> QED BY <2>1, <2>2 DEF BridgeInv, RouteInv, Ordered, InOrder
<1>2. InOrder(toTty)
  <2> SUFFICES ASSUME NEW j \in 1..Len(toTty), NEW k \in 1..Len(toTty), j < k,
                      toTty[j].from = toTty[k].from
               PROVE  toTty[j].id < toTty[k].id
    BY DEF InOrder
  <2>1. toTty[k] \in ClientPackets \/ toTty[k] \in LinuxPackets
    BY DEF BridgeInv, RouteInv, OutPackets
  <2>2. toTty[k].from \in Clients \/ toTty[k].from = "linux"
    BY <2>1, PacketIds
  <2> QED BY <2>2 DEF BridgeInv, RouteInv, Ordered
<1>3. Routing
  BY <1>1, <1>2 DEF BridgeInv, RouteInv, Destinations, Routing
<1>4. DispatchOnOpenPorts
  BY ApiFacts DEF LoopInv, Thread, BridgeInv, ClientThere, DispatchOnOpenPorts
<1> QED BY <1>3, <1>4

LEMMA BridgeInitInv == ASSUME Init PROVE BridgeInv
<1>1. /\ toTty = <<>> /\ toLinux = <<>> /\ toBcast = <<>> /\ ttyPipe = <<>> /\ linuxPipe = <<>>
      /\ Pending = <<>> /\ \A c \in Clients : toServer[c] = <<>>
  BY DEF Init, BcastInit, Pending
<1>2. \A n, origin : Ordered(<<>>, origin, <<>>, n)
  BY DEF Ordered
<1>3. RouteInv
  BY <1>1, <1>2 DEF RouteInv, Destinations
<1>4. ClientThere
  BY DEF Init, ClientThere
<1> QED BY <1>3, <1>4 DEF BridgeInv

\* A client is taken away only by recvMessage(), which the thread itself calls.
LEMMA ClientThereInv ==
    ASSUME LoopInv, ClientThere, [Next]_vars PROVE ClientThere'
<1>1. CASE OpenBegin \/ OpenSocket \/ OpenSocketFails \/ OpenFails \/ OpenEnd \/ CloseEnd
  <2>1. pc' \in {"none", "top"}
    BY <1>1 DEF OpenBegin, OpenSocket, OpenSocketFails, OpenFails, OpenEnd, CloseEnd, appStep,
                LoopInv, Thread
  <2> QED BY <2>1 DEF ClientThere
<1>2. CASE CloseBegin
  BY <1>2 DEF CloseBegin, appStep, bcastVars, members, ClientThere, isConnected
<1>3. CASE Dispatch
  <2>1. CASE Top \/ Exit \/ PollSkipped \/ HandleBcast \/ HandleLinux \/ SendBcast \/ PassOver
    BY <2>1 DEF Top, Exit, PollSkipped, HandleBcast, HandleLinux, SendBcast, PassOver, After, goto,
                ClientThere
  <2>2. CASE PollReady
    BY <2>2 DEF PollReady, goto, ReadyPorts, bcastVars, members, ClientThere, isConnected
  <2>3. CASE HandleTty
    BY <2>3 DEF HandleTty, goto, bcastVars, members, ClientThere, isConnected
  <2> QED BY <1>3, <2>1, <2>2, <2>3 DEF Dispatch
<1>4. CASE \/ \E c \in Clients : ClientStep(c) \/ ClientReads(c)
           \/ LinuxArrives
           \/ \E d \in TtyDests : TtyArrives(d)
  <2>1. UNCHANGED <<pc, ready, state, connFd>>
    BY <1>4 DEF ClientStep, ClientReads, LinuxArrives, TtyArrives, clientSend, clientConnect,
                clientLeave, clientRead, bridgeVars, bcastVars, members
  <2> QED BY <2>1 DEF ClientThere, isConnected
<1>5. CASE UNCHANGED vars
  BY <1>5 DEF vars, bridgeVars, bcastVars, members, ClientThere, isConnected
<1> QED BY <1>1, <1>2, <1>3, <1>4, <1>5 DEF Next

\* A packet in front of the others.
LEMMA InFront ==
    ASSUME NEW S, NEW m \in S, NEW t \in Seq(S)
    PROVE  /\ <<m>> \o t \in Seq(S) /\ <<m>> \o t # <<>>
           /\ Head(<<m>> \o t) = m /\ Tail(<<m>> \o t) = t
           /\ \A x \in S : <<m>> \o Append(t, x) = Append(<<m>> \o t, x)
<1>1. <<m>> \in Seq(S) /\ Len(<<m>>) = 1 /\ <<m>>[1] = m
  OBVIOUS
<1>2. PICK u : u = <<m>> \o t
  OBVIOUS
<1>3. /\ u \in Seq(S) /\ Len(u) = 1 + Len(t)
      /\ \A k \in 1..(1 + Len(t)) : u[k] = IF k <= 1 THEN <<m>>[k] ELSE t[k - 1]
  BY <1>1, <1>2, ConcatProperties
<1>4. u # <<>> /\ Head(u) = m
  BY <1>1, <1>3
<1>5. Tail(u) = t
  <2>1. PICK v : v = Tail(u)
    OBVIOUS
  <2>2. v \in Seq(S) /\ Len(v) = Len(t) /\ \A k \in 1..Len(v) : v[k] = u[k + 1]
    BY <1>3, <1>4, <2>1, HeadTailProperties
  <2>3. ASSUME NEW k \in 1..Len(v) PROVE v[k] = t[k]
    <3>1. k + 1 \in 1..(1 + Len(t)) /\ ~(k + 1 <= 1) /\ k + 1 - 1 = k
      BY <2>2
    <3> QED BY <1>3, <2>2, <3>1
  <2> QED BY <2>1, <2>2, <2>3, SeqEqual
<1>6. ASSUME NEW x \in S PROVE <<m>> \o Append(t, x) = Append(<<m>> \o t, x)
  <2>1. <<x>> \in Seq(S) /\ Append(t, x) = t \o <<x>> /\ Append(u, x) = u \o <<x>>
    BY <1>3, AppendIsConcat
  <2>2. <<m>> \o (t \o <<x>>) = (<<m>> \o t) \o <<x>>
    BY <1>1, <2>1, ConcatAssociative
  <2> QED BY <1>2, <2>1, <2>2
<1> QED BY <1>2, <1>3, <1>4, <1>5, <1>6

\* The types of all that is ordered.
LEMMA RouteTypes ==
    ASSUME LoopInv, Api!ApiInv, RouteInv
    PROVE  /\ toTty \in Seq(OutPackets) /\ toLinux \in Seq(TtyPackets) /\ toBcast \in Seq(TtyPackets)
           /\ linuxPipe \in Seq(LinuxPackets) /\ linuxPipe \in Seq(OutPackets)
           /\ ttyPipe \in Seq(TtyPackets) /\ Pending \in Seq(TtyPackets)
           /\ toServer \in [Clients -> Seq(ClientPackets)]
           /\ \A c \in Clients : toServer[c] \in Seq(OutPackets)
           /\ linuxIn \in Nat /\ ttyIn \in Nat /\ clientIn \in Nat
<1>1. /\ toTty \in Seq(OutPackets) /\ toLinux \in Seq(TtyPackets) /\ toBcast \in Seq(TtyPackets)
      /\ linuxPipe \in Seq(LinuxPackets) /\ ttyPipe \in Seq(TtyPackets)
      /\ pc = "sending" => msg \in TtyPackets
  BY DEF LoopInv, Pipes, RouteInv
<1>2. linuxIn \in Nat /\ ttyIn \in Nat /\ clientIn \in Nat
  BY BridgeAssumption DEF LoopInv, BridgeTypeOK
<1>3. toServer \in [Clients -> Seq(ClientPackets)]
  BY ApiFacts
<1>4. /\ \A s \in Seq(LinuxPackets) : s \in Seq(OutPackets)
      /\ \A s \in Seq(ClientPackets) : s \in Seq(OutPackets)
  <2>1. \A S, T, s : S \subseteq T /\ s \in Seq(S) => s \in Seq(T)
    OBVIOUS
  <2>2. LinuxPackets \subseteq OutPackets /\ ClientPackets \subseteq OutPackets
    BY Zenon DEF OutPackets
  <2> QED BY <2>1, <2>2, Zenon
<1>5. Pending \in Seq(TtyPackets)
  BY <1>1, InFront DEF Pending
<1> QED BY <1>1, <1>2, <1>3, <1>4, <1>5

LEMMA AppRouteInv ==
    ASSUME LoopInv, Api!ApiInv, RouteInv,
           OpenBegin \/ OpenSocket \/ OpenSocketFails \/ OpenFails \/ OpenEnd \/ CloseBegin \/ CloseEnd
    PROVE  RouteInv'
<1>1. UNCHANGED <<toTty, toLinux, toBcast, ttyIn, linuxIn, clientIn, toServer, msg>>
  BY DEF OpenBegin, OpenSocket, OpenSocketFails, OpenFails, OpenEnd, CloseBegin, CloseEnd, appStep,
         Shutdown, outVars, close, open, openFailsSocket, openFailsBind, openFailsListen, bcastVars,
         clientVars
<1>2. CASE OpenBegin \/ OpenFails \/ CloseEnd
  <2>1. ttyPipe' = <<>> /\ linuxPipe' = <<>> /\ pc' = "none"
    BY <1>2 DEF OpenBegin, OpenFails, CloseEnd, appStep, Shutdown, LoopInv, Thread
  <2>2. Pending' = <<>>
    BY <2>1 DEF Pending
  <2>3. /\ Ordered(toTty, "linux", <<>>, linuxIn) /\ Ordered(toLinux, "tty", <<>>, ttyIn)
        /\ Ordered(toBcast, "tty", <<>>, ttyIn)
    BY RouteTypes, PacketIds, OrderedRest DEF RouteInv
  <2> QED BY <1>1, <2>1, <2>2, <2>3 DEF RouteInv, Destinations
<1>3. CASE OpenSocket \/ OpenSocketFails \/ OpenEnd \/ CloseBegin
  <2>1. UNCHANGED <<ttyPipe, linuxPipe>> /\ (pc' = pc \/ (pc = "none" /\ pc' = "top"))
    <3>1. CASE OpenSocket \/ OpenSocketFails \/ CloseBegin
      BY <3>1 DEF OpenSocket, OpenSocketFails, CloseBegin
    <3>2. CASE OpenEnd
      BY <3>2 DEF OpenEnd, appStep, LoopInv, Thread
    <3> QED BY <1>3, <3>1, <3>2
  <2>2. Pending' = Pending
    BY <1>1, <2>1 DEF Pending
  <2> QED BY <1>1, <2>1, <2>2 DEF RouteInv, Destinations
<1> QED BY <1>2, <1>3

\* A client's message is handed on or not; the end of its connection takes the rest.
LEMMA HandleBcastRouteInv ==
    ASSUME LoopInv, Api!ApiInv, RouteInv, HandleBcast PROVE RouteInv'
<1>1. /\ UNCHANGED <<toLinux, toBcast, ttyPipe, linuxPipe, ttyIn, linuxIn, clientIn, msg>>
      /\ pc = "bcast" /\ pc' = "linux"
  BY DEF HandleBcast, goto, portVars
<1>2. Pending' = Pending
  BY <1>1 DEF Pending
<1>3. isConnected /\ peer \in Clients
  <2>1. isConnected
    BY DEF HandleBcast, recvData, recvClosed, recvNothing
  <2>2. app \in {"bound", "open", "closing"}
    BY <1>1 DEF LoopInv, Thread
  <2> QED BY <2>1, <2>2, ApiFacts
<1>4. PICK s \in Seq(ClientPackets) : s = toServer[peer]
  BY <1>3, RouteTypes
<1>5. s \in Seq(OutPackets) /\ Ordered(toTty, peer, s, clientIn) /\ peer # "linux"
  BY <1>3, <1>4, RouteTypes, PortsAssumption DEF RouteInv
<1>6. CASE recvData /\ Forwarded(Head(s))
  <2>1. PICK m : m = Head(s)
    OBVIOUS
  <2>2. s # <<>> /\ toServer' = [toServer EXCEPT ![peer] = Tail(s)]
    BY <1>4, <1>6 DEF recvData
  <2>3. m \in ClientPackets
    BY <2>1, <2>2, FetchOne
  <2>4. /\ Ordered(Append(toTty, m), peer, Tail(s), clientIn)
        /\ Ordered(toTty, peer, Tail(s), clientIn)
    BY <1>5, <2>1, <2>2, RouteTypes, OrderedLeaves
  <2>5. m.from = peer
    <3>1. 1 \in 1..Len(s) /\ m = s[1]
      BY <2>1, <2>2
    <3> QED BY <1>5, <3>1 DEF Ordered
  <2>6. CASE toTty' = toTty
    <3>1. \A c \in Clients : Ordered(toTty', c, toServer'[c], clientIn)
      <4>1. TAKE c \in Clients
      <4>2. CASE c = peer
        BY <1>3, <2>2, <2>4, <2>6, <4>2, RouteTypes
      <4>3. CASE c # peer
        BY <1>3, <2>2, <2>6, <4>3, RouteTypes DEF RouteInv
      <4> QED BY <4>2, <4>3
    <3> QED BY <1>1, <1>2, <2>6, <3>1 DEF RouteInv, Destinations
  <2>7. CASE toTty' = Append(toTty, m) /\ m.dest \in {"bcast", "one"}
    <3>1. m \in OutPackets
      BY <2>3 DEF OutPackets
    <3>2. \A c \in Clients : Ordered(toTty', c, toServer'[c], clientIn)
      <4>1. TAKE c \in Clients
      <4>2. CASE c = peer
        BY <1>3, <2>2, <2>4, <2>7, <4>2, RouteTypes
      <4>3. CASE c # peer
        <5>1. Ordered(toTty, c, toServer[c], clientIn) /\ toServer'[c] = toServer[c]
          BY <1>3, <2>2, <4>3, RouteTypes DEF RouteInv
        <5> QED BY <2>5, <2>7, <3>1, <4>3, <5>1, RouteTypes, OrderedOther
      <4> QED BY <4>2, <4>3
    <3>3. Ordered(toTty', "linux", linuxPipe, linuxIn)
      <4>1. Ordered(toTty, "linux", linuxPipe, linuxIn)
        BY DEF RouteInv
      <4> QED BY <1>5, <2>5, <2>7, <3>1, <4>1, RouteTypes, OrderedOther
    <3>4. /\ toTty' \in Seq(OutPackets)
          /\ \A k \in 1..Len(toTty') :
                toTty'[k].from \in Clients => toTty'[k].dest \in {"bcast", "one"}
      <4>1. /\ toTty' \in Seq(OutPackets) /\ Len(toTty') = Len(toTty) + 1
            /\ toTty'[Len(toTty) + 1] = m /\ \A k \in 1..Len(toTty) : toTty'[k] = toTty[k]
        BY <2>7, <3>1, RouteTypes, AppendProperties
      <4>2. \A k \in 1..Len(toTty') : k \in 1..Len(toTty) \/ k = Len(toTty) + 1
        BY <4>1, RouteTypes
      <4> QED BY <2>7, <4>1, <4>2 DEF RouteInv, Destinations
    <3> QED BY <1>1, <1>2, <3>2, <3>3, <3>4 DEF RouteInv, Destinations
  <2> QED BY <1>6, <2>1, <2>6, <2>7 DEF Forwarded
<1>7. CASE recvClosed /\ UNCHANGED toTty
  <2>1. toServer' = [toServer EXCEPT ![peer] = <<>>]
    BY <1>7 DEF recvClosed
  <2>2. Ordered(toTty, peer, <<>>, clientIn)
    BY <1>5, RouteTypes, PacketIds, OrderedRest
  <2>3. \A c \in Clients : Ordered(toTty, c, toServer'[c], clientIn)
    BY <1>3, <2>1, <2>2, RouteTypes DEF RouteInv
  <2> QED BY <1>1, <1>2, <1>7, <2>3 DEF RouteInv, Destinations
<1>8. CASE recvNothing /\ UNCHANGED toTty
  BY <1>1, <1>2, <1>8 DEF recvNothing, bcastVars, clientVars, RouteInv, Destinations
<1> QED BY <1>4, <1>6, <1>7, <1>8 DEF HandleBcast

LEMMA HandleLinuxRouteInv ==
    ASSUME LoopInv, Api!ApiInv, RouteInv, HandleLinux PROVE RouteInv'
<1>1. /\ UNCHANGED <<toLinux, toBcast, ttyPipe, ttyIn, linuxIn, clientIn, msg, toServer>>
      /\ pc = "linux" /\ pc' = "tty" /\ linuxPipe # <<>>
      /\ toTty' = Append(toTty, Head(linuxPipe)) /\ linuxPipe' = Tail(linuxPipe)
  BY DEF HandleLinux, goto, bcastVars, clientVars, LoopInv, Pipes
<1>2. Pending' = Pending
  BY <1>1 DEF Pending
<1>3. PICK m \in LinuxPackets : m = Head(linuxPipe)
  BY <1>1, RouteTypes, FetchOne
<1>4. m \in OutPackets /\ m.from = "linux" /\ m.from \notin Clients
  BY PacketIds DEF OutPackets
<1>5. Ordered(toTty', "linux", linuxPipe', linuxIn)
  BY <1>1, RouteTypes, OrderedLeaves DEF RouteInv
<1>6. \A c \in Clients : Ordered(toTty', c, toServer[c], clientIn)
  <2>1. TAKE c \in Clients
  <2>2. Ordered(toTty, c, toServer[c], clientIn) /\ m.from # c
    BY <1>4 DEF RouteInv
  <2> QED BY <1>1, <1>3, <1>4, <2>2, RouteTypes, OrderedOther
<1>7. /\ toTty' \in Seq(OutPackets)
      /\ \A k \in 1..Len(toTty') :
            toTty'[k].from \in Clients => toTty'[k].dest \in {"bcast", "one"}
  <2>1. /\ toTty' \in Seq(OutPackets) /\ Len(toTty') = Len(toTty) + 1
        /\ toTty'[Len(toTty) + 1] = m /\ \A k \in 1..Len(toTty) : toTty'[k] = toTty[k]
    BY <1>1, <1>3, <1>4, RouteTypes, AppendProperties
  <2>2. \A k \in 1..Len(toTty') : k \in 1..Len(toTty) \/ k = Len(toTty) + 1
    BY <2>1, RouteTypes
  <2> QED BY <1>4, <2>1, <2>2 DEF RouteInv, Destinations
<1> QED BY <1>1, <1>2, <1>5, <1>6, <1>7 DEF RouteInv, Destinations

\* A packet from the serial line goes to the kernel, waits for the client or is dropped.
LEMMA HandleTtyRouteInv ==
    ASSUME LoopInv, Api!ApiInv, RouteInv, HandleTty PROVE RouteInv'
<1>1. /\ UNCHANGED <<toTty, toBcast, linuxPipe, ttyIn, linuxIn, clientIn, toServer>>
      /\ pc = "tty" /\ ttyPipe # <<>> /\ ttyPipe' = Tail(ttyPipe)
  BY DEF HandleTty, bcastVars, clientVars, LoopInv, Pipes
<1>2. PICK m \in TtyPackets : m = Head(ttyPipe)
  BY <1>1, RouteTypes, FetchOne
<1>3. Pending = ttyPipe
  BY <1>1 DEF Pending
<1>4. /\ Ordered(Append(toLinux, m), "tty", Tail(ttyPipe), ttyIn)
      /\ Ordered(toLinux, "tty", Tail(ttyPipe), ttyIn)
      /\ Ordered(toBcast, "tty", Tail(ttyPipe), ttyIn)
  BY <1>1, <1>2, <1>3, RouteTypes, OrderedLeaves DEF RouteInv
<1>5. CASE pc' = "sending" /\ msg' = m /\ UNCHANGED toLinux
  <2>1. Pending' = <<m>> \o Tail(ttyPipe)
    BY <1>1, <1>5 DEF Pending
  <2>2. Pending' = ttyPipe
    BY <1>1, <1>2, <2>1, RouteTypes
  <2>3. Ordered(toBcast, "tty", ttyPipe, ttyIn)
    BY <1>3 DEF RouteInv
  <2> QED BY <1>1, <1>4, <1>5, <2>2, <2>3 DEF RouteInv, Destinations
<1>6. CASE pc' = "top" /\ UNCHANGED toLinux
  <2>1. Pending' = Tail(ttyPipe)
    BY <1>1, <1>6 DEF Pending
  <2> QED BY <1>1, <1>4, <1>6, <2>1 DEF RouteInv, Destinations
<1>7. CASE pc' = "top" /\ m.dest # "bcast" /\ toLinux' = Append(toLinux, m)
  <2>1. Pending' = Tail(ttyPipe)
    BY <1>1, <1>7 DEF Pending
  <2>2. m.dest \in {"uni", "reply"}
    BY <1>2, <1>7 DEF TtyPackets, TtyDests
  <2>3. /\ toLinux' \in Seq(TtyPackets) /\ Len(toLinux') = Len(toLinux) + 1
        /\ toLinux'[Len(toLinux) + 1] = m /\ \A k \in 1..Len(toLinux) : toLinux'[k] = toLinux[k]
    BY <1>7, RouteTypes, AppendProperties
  <2>4. \A k \in 1..Len(toLinux') : k \in 1..Len(toLinux) \/ k = Len(toLinux) + 1
    BY <2>3, RouteTypes
  <2>5. \A k \in 1..Len(toLinux') : toLinux'[k].dest \in {"uni", "reply"}
    BY <2>2, <2>3, <2>4 DEF RouteInv, Destinations
  <2> QED BY <1>1, <1>4, <1>7, <2>1, <2>3, <2>5 DEF RouteInv, Destinations
<1> QED BY <1>2, <1>5, <1>6, <1>7 DEF HandleTty, goto

LEMMA SendBcastRouteInv ==
    ASSUME LoopInv, Api!ApiInv, RouteInv, SendBcast PROVE RouteInv'
<1>1. /\ UNCHANGED <<toTty, toLinux, ttyPipe, linuxPipe, ttyIn, linuxIn, clientIn, toServer>>
      /\ pc = "sending" /\ pc' = "top" /\ msg \in TtyPackets /\ msg.dest = "bcast"
      /\ (toBcast' = toBcast \/ toBcast' = Append(toBcast, msg))
  BY DEF SendBcast, goto, portVars, sendMessage, LoopInv, Pipes
<1>2. Pending = <<msg>> \o ttyPipe /\ Pending' = ttyPipe
  BY <1>1 DEF Pending
<1>3. Pending # <<>> /\ Head(Pending) = msg /\ Tail(Pending) = ttyPipe
  BY <1>1, <1>2, RouteTypes, InFront
<1>4. /\ Ordered(Append(toBcast, msg), "tty", ttyPipe, ttyIn)
      /\ Ordered(toBcast, "tty", ttyPipe, ttyIn)
  <2>1. /\ Ordered(Append(toBcast, Head(Pending)), "tty", Tail(Pending), ttyIn)
        /\ Ordered(toBcast, "tty", Tail(Pending), ttyIn)
    BY <1>3, RouteTypes, OrderedLeaves DEF RouteInv
  <2> QED BY <1>3, <2>1
<1>5. CASE toBcast' = toBcast
  BY <1>1, <1>2, <1>4, <1>5 DEF RouteInv, Destinations
<1>6. CASE toBcast' = Append(toBcast, msg)
  <2>1. /\ toBcast' \in Seq(TtyPackets) /\ Len(toBcast') = Len(toBcast) + 1
        /\ toBcast'[Len(toBcast) + 1] = msg /\ \A k \in 1..Len(toBcast) : toBcast'[k] = toBcast[k]
    BY <1>1, <1>6, RouteTypes, AppendProperties
  <2>2. \A k \in 1..Len(toBcast') : k \in 1..Len(toBcast) \/ k = Len(toBcast) + 1
    BY <2>1, RouteTypes
  <2>3. \A k \in 1..Len(toBcast') : toBcast'[k].dest = "bcast"
    BY <1>1, <2>1, <2>2 DEF RouteInv, Destinations
  <2> QED BY <1>1, <1>2, <1>4, <1>6, <2>1, <2>3 DEF RouteInv, Destinations
<1> QED BY <1>1, <1>5, <1>6

LEMMA DispatchRouteInv ==
    ASSUME LoopInv, Api!ApiInv, RouteInv, Dispatch PROVE RouteInv'
<1>1. CASE Top \/ Exit \/ PollSkipped \/ PollReady \/ PassOver
  <2>1. /\ UNCHANGED <<toTty, toLinux, toBcast, ttyPipe, linuxPipe, ttyIn, linuxIn, clientIn, toServer>>
        /\ pc # "sending" /\ pc' # "sending"
    BY <1>1 DEF Top, Exit, PollSkipped, PollReady, PassOver, goto, After, outVars, portVars,
                bcastVars, clientVars, acceptNone, acceptClient
  <2>2. Pending' = Pending
    BY <2>1 DEF Pending
  <2> QED BY <2>1, <2>2 DEF RouteInv, Destinations
<1> QED BY <1>1, HandleBcastRouteInv, HandleLinuxRouteInv, HandleTtyRouteInv, SendBcastRouteInv
        DEF Dispatch

LEMMA ClientRouteInv ==
    ASSUME LoopInv, Api!ApiInv, RouteInv, NEW c \in Clients, ClientStep(c) \/ ClientReads(c)
    PROVE  RouteInv'
<1>1. UNCHANGED <<toTty, toLinux, toBcast, ttyPipe, linuxPipe, ttyIn, linuxIn, pc, msg>>
  BY DEF ClientStep, ClientReads, bridgeVars, portVars, outVars
<1>2. Pending' = Pending
  BY <1>1 DEF Pending
<1>3. SUFFICES \A x \in Clients : Ordered(toTty, x, toServer'[x], clientIn')
  BY <1>1, <1>2 DEF RouteInv, Destinations
<1>4. TAKE x \in Clients
<1>5. /\ Ordered(toTty, x, toServer[x], clientIn) /\ Ordered(toTty, x, <<>>, clientIn)
      /\ Ordered(toTty, x, toServer[x], clientIn + 1)
  <2>1. Ordered(toTty, x, toServer[x], clientIn)
    BY DEF RouteInv
  <2> QED BY <2>1, RouteTypes, PacketIds, OrderedRest
<1>6. CASE ClientReads(c)
  BY <1>5, <1>6 DEF ClientReads, clientRead, portVars
<1>7. CASE clientLeave(c) /\ UNCHANGED clientIn
  BY <1>5, <1>7 DEF clientLeave
<1>8. CASE clientConnect(c) /\ UNCHANGED clientIn
  <2>1. toServer' = [toServer EXCEPT ![c] = <<>>]
    BY <1>8 DEF clientConnect
  <2>2. toServer'[x] = IF x = c THEN <<>> ELSE toServer[x]
    BY <2>1, RouteTypes
  <2> QED BY <1>5, <1>8, <2>2
<1>9. ASSUME NEW d \in ClientMsgs, clientSend(c, [dest |-> d, from |-> c, id |-> clientIn + 1]),
             clientIn' = clientIn + 1
      PROVE  Ordered(toTty, x, toServer'[x], clientIn')
  <2>1. PICK m : m = [dest |-> d, from |-> c, id |-> clientIn + 1]
    OBVIOUS
  <2>2. m \in OutPackets /\ m.from = c /\ m.id = clientIn + 1
    BY <2>1, RouteTypes DEF OutPackets, ClientPackets
  <2>3. toServer' = [toServer EXCEPT ![c] = Append(toServer[c], m)]
    BY <1>9, <2>1 DEF clientSend
  <2>4. CASE x # c
    <3>1. toServer'[x] = toServer[x]
      BY <2>3, <2>4, RouteTypes
    <3> QED BY <1>5, <1>9, <3>1
  <2>5. CASE x = c
    <3>1. toServer'[x] = Append(toServer[x], m)
      BY <2>3, <2>5, RouteTypes
    <3>2. Ordered(toTty, x, Append(toServer[x], m), clientIn + 1)
      BY <1>5, <2>2, <2>5, RouteTypes, PacketIds, OrderedArrives
    <3> QED BY <1>9, <3>1, <3>2
  <2> QED BY <2>4, <2>5
<1> QED BY <1>6, <1>7, <1>8, <1>9 DEF ClientStep

LEMMA ArrivalRouteInv ==
    ASSUME LoopInv, Api!ApiInv, RouteInv,
           LinuxArrives \/ \E d \in TtyDests : TtyArrives(d)
    PROVE  RouteInv'
<1>1. UNCHANGED <<toTty, toLinux, toBcast, clientIn, pc, msg, toServer>>
  BY DEF LinuxArrives, TtyArrives, bridgeVars, outVars, bcastVars, clientVars
<1>2. CASE LinuxArrives
  <2>1. PICK m : m = [dest |-> "any", from |-> "linux", id |-> linuxIn + 1]
    OBVIOUS
  <2>2. /\ linuxIn' = linuxIn + 1 /\ linuxPipe' = Append(linuxPipe, m)
        /\ UNCHANGED <<ttyPipe, ttyIn>>
    BY <1>2, <2>1 DEF LinuxArrives
  <2>3. m \in OutPackets /\ m.from = "linux" /\ m.id = linuxIn + 1
    BY <2>1, RouteTypes DEF OutPackets, LinuxPackets
  <2>4. Ordered(toTty, "linux", linuxPipe, linuxIn)
    BY DEF RouteInv
  <2>5. Ordered(toTty, "linux", linuxPipe', linuxIn')
    BY <2>2, <2>3, <2>4, RouteTypes, PacketIds, OrderedArrives
  <2>6. Pending' = Pending
    BY <1>1, <2>2 DEF Pending
  <2> QED BY <1>1, <2>2, <2>5, <2>6 DEF RouteInv, Destinations
<1>3. ASSUME NEW d \in TtyDests, TtyArrives(d) PROVE RouteInv'
  <2>1. PICK m : m = [dest |-> d, from |-> "tty", id |-> ttyIn + 1]
    OBVIOUS
  <2>2. /\ ttyIn' = ttyIn + 1 /\ ttyPipe' = Append(ttyPipe, m)
        /\ UNCHANGED <<linuxPipe, linuxIn>>
    BY <1>3, <2>1 DEF TtyArrives
  <2>3. m \in TtyPackets /\ m.from = "tty" /\ m.id = ttyIn + 1
    BY <2>1, RouteTypes DEF TtyPackets
  <2>4. Ordered(toLinux, "tty", ttyPipe, ttyIn) /\ Ordered(toBcast, "tty", Pending, ttyIn)
    BY DEF RouteInv
  <2>5. Ordered(toLinux, "tty", ttyPipe', ttyIn')
    BY <2>2, <2>3, <2>4, RouteTypes, PacketIds, OrderedArrives
  <2>6. Pending' = Append(Pending, m)
    <3>1. CASE pc = "sending"
      <4>1. <<msg>> \o Append(ttyPipe, m) = Append(<<msg>> \o ttyPipe, m)
        <5>1. msg \in TtyPackets /\ ttyPipe \in Seq(TtyPackets)
          BY <3>1 DEF LoopInv, Pipes
        <5> QED BY <2>3, <5>1, InFront
      <4> QED BY <1>1, <2>2, <3>1, <4>1 DEF Pending
    <3>2. CASE pc # "sending"
      BY <1>1, <2>2, <3>2 DEF Pending
    <3> QED BY <3>1, <3>2
  <2>7. Ordered(toBcast, "tty", Pending', ttyIn')
    BY <2>2, <2>3, <2>4, <2>6, RouteTypes, PacketIds, OrderedArrives
  <2> QED BY <1>1, <2>2, <2>5, <2>7 DEF RouteInv, Destinations
<1> QED BY <1>2, <1>3

LEMMA BridgeStep == ASSUME LoopInv, Api!ApiInv, BridgeInv, [Next]_vars PROVE BridgeInv'
<1>1. ClientThere'
  BY ClientThereInv DEF BridgeInv
<1>2. RouteInv'
  <2>1. RouteInv
    BY DEF BridgeInv
  <2>2. CASE UNCHANGED vars
    <3>1. UNCHANGED <<toTty, toLinux, toBcast, ttyPipe, linuxPipe, ttyIn, linuxIn, clientIn, pc, msg, toServer>>
      BY <2>2 DEF vars, bcastVars, clientVars, bridgeVars, portVars, outVars
    <3>2. Pending' = Pending
      BY <3>1 DEF Pending
    <3> QED BY <2>1, <3>1, <3>2 DEF RouteInv, Destinations
  <2> QED BY <2>1, <2>2, AppRouteInv, DispatchRouteInv, ClientRouteInv, ArrivalRouteInv DEF Next
<1> QED BY <1>1, <1>2 DEF BridgeInv

-----------------------------------------------------------------------------
(* The theorems.                                                           *)

\* The inductive invariant, from which the others follow.
THEOREM BridgeInvariant == Spec => [](LoopInv /\ Api!ApiInv /\ BridgeInv)
<1>1. Init => BridgeInv
  BY BridgeInitInv
<1>2. LoopInv /\ Api!ApiInv /\ BridgeInv /\ [Next]_vars => BridgeInv'
  BY BridgeStep
<1> QED BY <1>1, <1>2, LoopInvariant, MessengerInBridge, PTL DEF Spec

\* Every variable of the bridge keeps its type, and no pipe holds more than it can.
THEOREM BridgeTypeCorrect == Spec => []BridgeTypeOK
<1>1. LoopInv => BridgeTypeOK
  BY DEF LoopInv
<1> QED BY <1>1, LoopInvariant, PTL

\* Each packet takes one route, once and in order, for any number of clients that come
\* and go, however often the bridge is opened and closed.
THEOREM BridgeRouting == Spec => []Routing
<1>1. LoopInv /\ Api!ApiInv /\ BridgeInv => Routing
  BY BridgeInvImplies
<1> QED BY <1>1, BridgeInvariant, PTL

\* The dispatch thread works only on sockets that are open.
THEOREM BridgeOnOpenPorts == Spec => []DispatchOnOpenPorts
<1>1. LoopInv /\ Api!ApiInv /\ BridgeInv => DispatchOnOpenPorts
  BY BridgeInvImplies
<1> QED BY <1>1, BridgeInvariant, PTL
=============================================================================
