----------------------- MODULE XConnectorEpoll_proofs -----------------------
(***************************************************************************)
(* Proofs about XConnectorEpoll, for any number of connectors, peers and    *)
(* descriptors.  The inductive invariant adds to the properties the runs     *)
(* check what the epoll thread knows while it serves a client (AtClient)     *)
(* and the converse of DescriptorsOwned (FilesMapped, OneDescriptor).        *)
(***************************************************************************)
EXTENDS XConnectorEpoll, TLAPS

(* While a thread reads from or handles a client, fd names an entry of its  *)
(* map.                                                                     *)
AtClient ==
  \A k \in Connectors :
    pc[k] \in {"read", "handle"} =>
      /\ fd[k] \in Fds
      /\ connectedClients[k][fd[k]] # NoPeer

(* A used descriptor number is in the map of the connector it belongs to.   *)
FilesMapped ==
  \A f \in Fds :
    file[f] # NoPeer =>
      /\ conn[file[f]] = "open"
      /\ connectedClients[target[file[f]]][f] = file[f]

(* No connection has two descriptors.                                       *)
OneDescriptor ==
  \A f, g \in Fds : file[f] # NoPeer /\ file[f] = file[g] => f = g

MapInv == AtClient /\ DescriptorsOwned /\ FilesMapped /\ OneDescriptor

Inv == TypeOK /\ MapInv

-----------------------------------------------------------------------------
LEMMA InitInv == Init => Inv
  BY ConnectorAssumption
  DEF Init, Inv, MapInv, TypeOK, PcStates, ConnStates, Entries, AtClient,
      DescriptorsOwned, FilesMapped, OneDescriptor

(* What an action on a client of the thread's map acts on.                  *)
LEMMA ClientIsPeer ==
  ASSUME Inv, NEW k \in Connectors, NEW f \in Fds, connectedClients[k][f] # NoPeer
  PROVE  /\ connectedClients[k][f] \in Peers
         /\ file[f] = connectedClients[k][f]
         /\ target[connectedClients[k][f]] = k
         /\ conn[connectedClients[k][f]] = "open"
  BY DEF Inv, MapInv, TypeOK, DescriptorsOwned

(* killConnection keeps the map and the descriptor table consistent.        *)
LEMMA KillKeepsMap ==
  ASSUME Inv, NEW k \in Connectors, NEW f \in Fds, connectedClients[k][f] # NoPeer,
         KillConnection(k, f),
         pc' \in [Connectors -> PcStates], fd' \in [Connectors -> Fds \cup {NoFd}],
         pc'[k] \notin {"read", "handle"},
         \A i \in Connectors : i # k => pc'[i] = pc[i] /\ fd'[i] = fd[i]
  PROVE  /\ connectedClients' \in [Connectors -> [Fds -> Peers \cup {NoPeer}]]
         /\ file' \in [Fds -> Peers \cup {NoPeer}]
         /\ conn' \in [Peers -> ConnStates]
         /\ released' \in [Peers -> Nat]
         /\ opened' \in [Peers -> Nat]
         /\ MapInv'
<1> DEFINE p == connectedClients[k][f]
<1>1. p \in Peers /\ file[f] = p /\ target[p] = k /\ conn[p] = "open"
  BY ClientIsPeer
<1>2. TypeOK /\ AtClient /\ DescriptorsOwned /\ FilesMapped /\ OneDescriptor
  BY DEF Inv, MapInv
<1>3. /\ connectedClients' = [connectedClients EXCEPT ![k][f] = NoPeer]
      /\ file' = [file EXCEPT ![f] = NoPeer]
      /\ conn' = [conn EXCEPT ![p] = "killed"]
      /\ released' = [released EXCEPT ![p] = released[p] + 1]
      /\ opened' = opened
  BY DEF KillConnection
<1>4. /\ connectedClients' \in [Connectors -> [Fds -> Peers \cup {NoPeer}]]
      /\ file' \in [Fds -> Peers \cup {NoPeer}]
      /\ conn' \in [Peers -> ConnStates]
      /\ released' \in [Peers -> Nat]
      /\ opened' \in [Peers -> Nat]
  BY <1>1, <1>2, <1>3 DEF TypeOK, ConnStates
<1>5. \A i \in Connectors, g \in Fds :
        connectedClients'[i][g] = IF i = k /\ g = f THEN NoPeer ELSE connectedClients[i][g]
  BY <1>2, <1>3 DEF TypeOK
<1>6. \A g \in Fds : file'[g] = IF g = f THEN NoPeer ELSE file[g]
  BY <1>2, <1>3 DEF TypeOK
<1>7. \A q \in Peers : q # p => conn'[q] = conn[q]
  BY <1>2, <1>3 DEF TypeOK
<1>8. \A g \in Fds : g # f => file[g] # p
  BY <1>1, <1>2, ConnectorAssumption DEF OneDescriptor
<1>9. AtClient'
  BY <1>2, <1>5 DEF AtClient
<1>10. DescriptorsOwned'
  BY <1>1, <1>2, <1>5, <1>6, <1>7, <1>8 DEF DescriptorsOwned, TypeOK
<1>11. FilesMapped'
  <2> SUFFICES ASSUME NEW g \in Fds, file'[g] # NoPeer
               PROVE  /\ conn'[file'[g]] = "open"
                      /\ connectedClients'[target[file'[g]]][g] = file'[g]
    BY DEF FilesMapped
  <2>1. g # f /\ file'[g] = file[g] /\ file[g] \in Peers /\ file[g] # p
    BY <1>2, <1>6, <1>8 DEF TypeOK
  <2>2. target[file[g]] \in Connectors
    BY <2>1, ConnectorAssumption
  <2> QED
    BY <2>1, <2>2, <1>2, <1>5, <1>7 DEF FilesMapped
<1>12. OneDescriptor'
  BY <1>2, <1>6 DEF OneDescriptor
<1> QED
  BY <1>4, <1>9, <1>10, <1>11, <1>12 DEF MapInv

-----------------------------------------------------------------------------
(* The variables MapInv speaks of.                                          *)
mapVars == <<pc, fd, connectedClients, file, conn>>

LEMMA MapUnchanged == MapInv /\ UNCHANGED mapVars => MapInv'
  BY DEF MapInv, mapVars, AtClient, DescriptorsOwned, FilesMapped, OneDescriptor

(* A thread moving to a place where it serves no client.                    *)
LEMMA MapMove ==
  ASSUME MapInv, TypeOK, NEW k \in Connectors,
         UNCHANGED <<connectedClients, file, conn>>,
         pc'[k] \notin {"read", "handle"},
         \A i \in Connectors : i # k => pc'[i] = pc[i] /\ fd'[i] = fd[i]
  PROVE  MapInv'
  BY DEF MapInv, AtClient, DescriptorsOwned, FilesMapped, OneDescriptor
LEMMA PeerStepInv == ASSUME Inv, NEW p \in Peers, PeerStep(p) PROVE Inv'
<1> USE ConnectorAssumption DEF serverVars, threadVars, clientVars, trafficVars
<1>0. TypeOK /\ MapInv
  BY DEF Inv
<1>1. CASE Connect(p)
  <2>1. TypeOK'
    BY <1>0, <1>1 DEF TypeOK, Connect, ConnStates
  <2>2. AtClient' /\ OneDescriptor'
    BY <1>0, <1>1 DEF MapInv, AtClient, OneDescriptor, Connect
  <2>3. \A q \in Peers : conn[q] = "open" => conn'[q] = "open"
    BY <1>0, <1>1 DEF TypeOK, Connect
  <2>4. DescriptorsOwned' /\ FilesMapped'
    BY <1>0, <1>1, <2>3 DEF TypeOK, MapInv, DescriptorsOwned, FilesMapped, Connect
  <2> QED
    BY <2>1, <2>2, <2>4 DEF Inv, MapInv
<1>2. CASE Send(p)
  <2>1. TypeOK'
    BY <1>0, <1>2 DEF TypeOK, Send
  <2>2. MapInv'
    BY <1>0, <1>2, MapUnchanged DEF Send, mapVars
  <2> QED
    BY <2>1, <2>2 DEF Inv
<1>3. CASE HangUp(p)
  <2>1. TypeOK'
    BY <1>0, <1>3 DEF TypeOK, HangUp
  <2>2. MapInv'
    BY <1>0, <1>3, MapUnchanged DEF HangUp, mapVars
  <2> QED
    BY <2>1, <2>2 DEF Inv
<1> QED
  BY <1>1, <1>2, <1>3 DEF PeerStep

LEMMA EnvironmentStepInv ==
  ASSUME Inv, NEW k \in Connectors, EnvironmentStep(k) PROVE Inv'
<1> USE DEF serverVars, threadVars, clientVars, trafficVars
<1>0. TypeOK /\ MapInv
  BY DEF Inv
<1>1. CASE Start(k)
  <2>1. TypeOK'
    BY <1>0, <1>1 DEF TypeOK, Start, PcStates
  <2>2. MapInv'
    BY <1>0, <1>1, MapMove DEF Start, TypeOK
  <2> QED
    BY <2>1, <2>2 DEF Inv
<1>2. CASE Stop(k)
  <2>1. TypeOK'
    BY <1>0, <1>2 DEF TypeOK, Stop
  <2>2. MapInv'
    BY <1>0, <1>2, MapUnchanged DEF Stop, mapVars
  <2> QED
    BY <2>1, <2>2 DEF Inv
<1>3. CASE Joined(k)
  <2>1. TypeOK'
    BY <1>0, <1>3 DEF TypeOK, Joined
  <2>2. MapInv'
    BY <1>0, <1>3, MapUnchanged DEF Joined, mapVars
  <2> QED
    BY <2>1, <2>2 DEF Inv
<1> QED
  BY <1>1, <1>2, <1>3 DEF EnvironmentStep

-----------------------------------------------------------------------------
(* The steps of the epoll thread that serve no client.                      *)
LEMMA LoopStepInv ==
  ASSUME Inv, NEW k \in Connectors,
         \/ Loop(k) \/ EpollWait(k) \/ EpollInterrupted(k)
         \/ DispatchAccept(k) \/ DispatchUnknown(k) \/ DispatchDone(k) \/ AcceptFails(k)
  PROVE  Inv'
<1> USE ConnectorAssumption
    DEF serverVars, clientVars, trafficVars, PcStates, NextEvent
<1>0. TypeOK /\ MapInv
  BY DEF Inv
<1>1. UNCHANGED <<connectedClients, file, conn>>
  BY DEF Loop, EpollWait, EpollInterrupted, DispatchAccept, DispatchUnknown,
         DispatchDone, AcceptFails
<1>2. /\ pc'[k] \notin {"read", "handle"}
      /\ \A i \in Connectors : i # k => pc'[i] = pc[i] /\ fd'[i] = fd[i]
  BY <1>0 DEF TypeOK, Loop, EpollWait, EpollInterrupted, DispatchAccept,
              DispatchUnknown, DispatchDone, AcceptFails
<1>3. MapInv'
  BY <1>0, <1>1, <1>2, MapMove
<1>4. TypeOK'
  <2>1. CASE Loop(k)
    BY <1>0, <2>1 DEF TypeOK, Loop
  <2>2. CASE EpollWait(k)
    <3>1. Ready(k) \subseteq Entries
      BY DEF Ready, Registered, Entries
    <3>2. events' \in [1 .. MaxEvents -> Entries] /\ numFds' \in [Connectors -> 0 .. MaxEvents]
      BY <1>0, <2>2, <3>1 DEF TypeOK, EpollWait
    <3> QED
      BY <1>0, <2>2, <3>2 DEF TypeOK, EpollWait
  <2>3. CASE EpollInterrupted(k)
    BY <1>0, <2>3 DEF TypeOK, EpollInterrupted
  <2>4. CASE DispatchAccept(k)
    BY <1>0, <2>4 DEF TypeOK, DispatchAccept
  <2>5. CASE DispatchUnknown(k)
    BY <1>0, <2>5 DEF TypeOK, DispatchUnknown
  <2>6. CASE DispatchDone(k)
    BY <1>0, <2>6 DEF TypeOK, DispatchDone
  <2>7. CASE AcceptFails(k)
    BY <1>0, <2>7 DEF TypeOK, AcceptFails
  <2> QED
    BY <2>1, <2>2, <2>3, <2>4, <2>5, <2>6, <2>7
<1> QED
  BY <1>3, <1>4 DEF Inv
-----------------------------------------------------------------------------
(* The steps that read from or handle a client and keep it.                 *)
LEMMA ServeStepInv ==
  ASSUME Inv, NEW k \in Connectors,
         DispatchClient(k) \/ ReadMoreData(k) \/ HandleRequest(k) \/ HandleDone(k)
  PROVE  Inv'
<1> USE DEF serverVars, threadVars, clientVars, trafficVars, PcStates, NextEvent
<1>0. TypeOK /\ MapInv
  BY DEF Inv
<1>1. CASE DispatchClient(k)
  <2>1. TypeOK'
    BY <1>0, <1>1 DEF TypeOK, DispatchClient
  <2>2. AtClient'
    BY <1>0, <1>1 DEF MapInv, AtClient, DispatchClient, TypeOK
  <2>3. DescriptorsOwned' /\ FilesMapped' /\ OneDescriptor'
    BY <1>0, <1>1
    DEF MapInv, DescriptorsOwned, FilesMapped, OneDescriptor, DispatchClient
  <2> QED
    BY <2>1, <2>2, <2>3 DEF Inv, MapInv
<1>2. CASE ReadMoreData(k)
  <2>1. fd[k] \in Fds /\ connectedClients[k][fd[k]] # NoPeer
    BY <1>0, <1>2 DEF MapInv, AtClient, ReadMoreData
  <2>2. connectedClients[k][fd[k]] \in Peers /\ file[fd[k]] = connectedClients[k][fd[k]]
    BY <2>1, ClientIsPeer
  <2>a. unread' \in [Peers -> Nat] /\ buffered' \in [Peers -> Nat]
    BY <1>0, <1>2, <2>2 DEF TypeOK, ReadMoreData
  <2>3. TypeOK'
    BY <1>0, <1>2, <2>a DEF TypeOK, ReadMoreData
  <2>4. AtClient'
    BY <1>0, <1>2 DEF MapInv, AtClient, ReadMoreData, TypeOK
  <2>5. DescriptorsOwned' /\ FilesMapped' /\ OneDescriptor'
    BY <1>0, <1>2
    DEF MapInv, DescriptorsOwned, FilesMapped, OneDescriptor, ReadMoreData
  <2> QED
    BY <2>3, <2>4, <2>5 DEF Inv, MapInv
<1>3. CASE HandleRequest(k)
  <2>1. fd[k] \in Fds /\ connectedClients[k][fd[k]] # NoPeer
    BY <1>0, <1>3 DEF MapInv, AtClient, HandleRequest
  <2>2. connectedClients[k][fd[k]] \in Peers
    BY <2>1, ClientIsPeer
  <2>a. buffered' \in [Peers -> Nat] /\ handled' \in [Peers -> Nat]
    BY <1>0, <1>3, <2>2 DEF TypeOK, HandleRequest
  <2>3. TypeOK'
    BY <1>0, <1>3, <2>a DEF TypeOK, HandleRequest
  <2>4. MapInv'
    BY <1>0, <1>3, MapUnchanged DEF HandleRequest, mapVars
  <2> QED
    BY <2>3, <2>4 DEF Inv
<1>4. CASE HandleDone(k)
  <2>1. TypeOK'
    BY <1>0, <1>4 DEF TypeOK, HandleDone
  <2>2. MapInv'
    BY <1>0, <1>4, MapMove DEF HandleDone, TypeOK
  <2> QED
    BY <2>1, <2>2 DEF Inv
<1> QED
  BY <1>1, <1>2, <1>3, <1>4

(* The steps that kill a client.                                            *)
LEMMA KillStepInv ==
  ASSUME Inv, NEW k \in Connectors, ReadEnds(k) \/ HandleFails(k) \/ ShutdownKill(k)
  PROVE  Inv'
<1> USE DEF serverVars, threadVars, trafficVars, PcStates, NextEvent
<1>0. TypeOK /\ MapInv
  BY DEF Inv
<1>1. CASE ReadEnds(k)
  <2>1. fd[k] \in Fds /\ connectedClients[k][fd[k]] # NoPeer /\ KillConnection(k, fd[k])
    BY <1>0, <1>1 DEF MapInv, AtClient, ReadEnds
  <2>2. /\ pc' \in [Connectors -> PcStates] /\ fd' \in [Connectors -> Fds \cup {NoFd}]
        /\ pc'[k] \notin {"read", "handle"}
        /\ \A i \in Connectors : i # k => pc'[i] = pc[i] /\ fd'[i] = fd[i]
    BY <1>0, <1>1 DEF TypeOK, ReadEnds
  <2>3. MapInv'
    BY <2>1, <2>2, KillKeepsMap
  <2>k. /\ connectedClients' \in [Connectors -> [Fds -> Peers \cup {NoPeer}]]
        /\ file' \in [Fds -> Peers \cup {NoPeer}]
        /\ conn' \in [Peers -> ConnStates]
        /\ released' \in [Peers -> Nat]
        /\ opened' \in [Peers -> Nat]
    BY <2>1, <2>2, KillKeepsMap
  <2>4. TypeOK'
    BY <1>0, <1>1, <2>2, <2>k DEF TypeOK, ReadEnds
  <2> QED
    BY <2>3, <2>4 DEF Inv
<1>2. CASE HandleFails(k)
  <2>1. fd[k] \in Fds /\ connectedClients[k][fd[k]] # NoPeer /\ KillConnection(k, fd[k])
    BY <1>0, <1>2 DEF MapInv, AtClient, HandleFails
  <2>2. /\ pc' \in [Connectors -> PcStates] /\ fd' \in [Connectors -> Fds \cup {NoFd}]
        /\ pc'[k] \notin {"read", "handle"}
        /\ \A i \in Connectors : i # k => pc'[i] = pc[i] /\ fd'[i] = fd[i]
    BY <1>0, <1>2 DEF TypeOK, HandleFails
  <2>3. MapInv'
    BY <2>1, <2>2, KillKeepsMap
  <2>4. connectedClients[k][fd[k]] \in Peers
    BY <2>1, ClientIsPeer
  <2>5. buffered' \in [Peers -> Nat] /\ handled' \in [Peers -> Nat]
    BY <1>0, <1>2, <2>4 DEF TypeOK, HandleFails
  <2>k. /\ connectedClients' \in [Connectors -> [Fds -> Peers \cup {NoPeer}]]
        /\ file' \in [Fds -> Peers \cup {NoPeer}]
        /\ conn' \in [Peers -> ConnStates]
        /\ released' \in [Peers -> Nat]
        /\ opened' \in [Peers -> Nat]
    BY <2>1, <2>2, KillKeepsMap
  <2>6. TypeOK'
    <3>1. UNCHANGED <<serverVars, events, peerOpen, unread, sent, numFds>>
      BY <1>2 DEF HandleFails
    <3>2. index' \in [Connectors -> Nat]
      BY <1>0, <1>2 DEF HandleFails, TypeOK
    <3> QED
      BY <1>0, <2>2, <2>5, <2>k, <3>1, <3>2 DEF TypeOK
  <2> QED
    BY <2>3, <2>6 DEF Inv
<1>3. CASE ShutdownKill(k)
  <2>1. PICK f \in Fds : connectedClients[k][f] # NoPeer /\ KillConnection(k, f)
    BY <1>3 DEF ShutdownKill, Mapped
  <2>2. /\ pc' \in [Connectors -> PcStates] /\ fd' \in [Connectors -> Fds \cup {NoFd}]
        /\ pc'[k] \notin {"read", "handle"}
        /\ \A i \in Connectors : i # k => pc'[i] = pc[i] /\ fd'[i] = fd[i]
    BY <1>0, <1>3 DEF TypeOK, ShutdownKill
  <2>3. MapInv'
    BY <2>1, <2>2, KillKeepsMap
  <2>k. /\ connectedClients' \in [Connectors -> [Fds -> Peers \cup {NoPeer}]]
        /\ file' \in [Fds -> Peers \cup {NoPeer}]
        /\ conn' \in [Peers -> ConnStates]
        /\ released' \in [Peers -> Nat]
        /\ opened' \in [Peers -> Nat]
    BY <2>1, <2>2, KillKeepsMap
  <2>4. TypeOK'
    BY <1>0, <1>3, <2>2, <2>k DEF TypeOK, ShutdownKill
  <2> QED
    BY <2>3, <2>4 DEF Inv
<1> QED
  BY <1>1, <1>2, <1>3

LEMMA AcceptStepInv ==
  ASSUME Inv, NEW k \in Connectors, HandleNewConnection(k) PROVE Inv'
<1> USE ConnectorAssumption DEF serverVars, trafficVars, PcStates, NextEvent
<1>0. TypeOK /\ MapInv
  BY DEF Inv
<1>1. PICK p \in Peers, f \in Fds :
        /\ target[p] = k /\ conn[p] = "backlog" /\ file[f] = NoPeer
        /\ file' = [file EXCEPT ![f] = p]
        /\ conn' = [conn EXCEPT ![p] = "open"]
        /\ opened' = [opened EXCEPT ![p] = @ + 1]
        /\ connectedClients' = [connectedClients EXCEPT ![k][f] = p]
  BY DEF HandleNewConnection
<1>a. /\ connectedClients' \in [Connectors -> [Fds -> Peers \cup {NoPeer}]]
      /\ file' \in [Fds -> Peers \cup {NoPeer}]
      /\ conn' \in [Peers -> ConnStates]
      /\ opened' \in [Peers -> Nat]
  BY <1>0, <1>1 DEF TypeOK, ConnStates
<1>b. /\ UNCHANGED <<serverVars, events, released, trafficVars, numFds>>
      /\ pc' \in [Connectors -> PcStates]
      /\ index' \in [Connectors -> Nat]
      /\ fd' \in [Connectors -> Fds \cup {NoFd}]
  BY <1>0 DEF TypeOK, HandleNewConnection
<1>2. TypeOK'
  BY <1>0, <1>a, <1>b DEF TypeOK
<1>3. \A i \in Connectors, g \in Fds :
        connectedClients'[i][g] = IF i = k /\ g = f THEN p ELSE connectedClients[i][g]
  BY <1>0, <1>1 DEF TypeOK
<1>4. \A g \in Fds : file'[g] = IF g = f THEN p ELSE file[g]
  BY <1>0, <1>1 DEF TypeOK
<1>5. \A q \in Peers : conn'[q] = IF q = p THEN "open" ELSE conn[q]
  BY <1>0, <1>1 DEF TypeOK
<1>6. \A i \in Connectors : connectedClients[i][f] = NoPeer
  BY <1>0, <1>1 DEF MapInv, DescriptorsOwned
<1>7. \A g \in Fds : file[g] # p
  BY <1>0, <1>1 DEF MapInv, FilesMapped
<1>8. AtClient'
  BY <1>0, <1>3 DEF MapInv, AtClient, HandleNewConnection, TypeOK
<1>9. DescriptorsOwned'
  <2> SUFFICES ASSUME NEW i \in Connectors, NEW g \in Fds, connectedClients'[i][g] # NoPeer
               PROVE  /\ file'[g] = connectedClients'[i][g]
                      /\ target[file'[g]] = i
                      /\ conn'[file'[g]] = "open"
    BY DEF DescriptorsOwned
  <2>1. CASE i = k /\ g = f
    BY <2>1, <1>1, <1>3, <1>4, <1>5
  <2>2. CASE i # k \/ g # f
    <3>1. connectedClients[i][g] # NoPeer /\ g # f
      BY <2>2, <1>3, <1>6
    <3>2. file[g] = connectedClients[i][g] /\ file[g] \in Peers
      BY <3>1, ClientIsPeer
    <3>3. target[file[g]] = i /\ conn[file[g]] = "open"
      BY <3>1, <3>2, ClientIsPeer
    <3> QED
      BY <3>1, <3>2, <3>3, <1>3, <1>4, <1>5
  <2> QED
    BY <2>1, <2>2
<1>10. FilesMapped'
  <2> SUFFICES ASSUME NEW g \in Fds, file'[g] # NoPeer
               PROVE  /\ conn'[file'[g]] = "open"
                      /\ connectedClients'[target[file'[g]]][g] = file'[g]
    BY DEF FilesMapped
  <2>1. CASE g = f
    BY <2>1, <1>1, <1>3, <1>4, <1>5
  <2>2. CASE g # f
    <3>1. file[g] # NoPeer /\ file'[g] = file[g] /\ file[g] \in Peers
      BY <2>2, <1>0, <1>4 DEF TypeOK
    <3>2. target[file[g]] \in Connectors
      BY <3>1
    <3> QED
      <4>1. conn[file[g]] = "open" /\ connectedClients[target[file[g]]][g] = file[g]
        BY <3>1, <1>0 DEF MapInv, FilesMapped
      <4>2. conn'[file'[g]] = "open"
        BY <3>1, <4>1, <1>5
      <4>3. connectedClients'[target[file[g]]][g] = connectedClients[target[file[g]]][g]
        BY <2>2, <3>2, <1>3
      <4> QED
        BY <3>1, <4>1, <4>2, <4>3
  <2> QED
    BY <2>1, <2>2
<1>11. OneDescriptor'
  BY <1>0, <1>4, <1>7 DEF MapInv, OneDescriptor
<1> QED
  BY <1>2, <1>8, <1>9, <1>10, <1>11 DEF Inv, MapInv

LEMMA CloseStepInv ==
  ASSUME Inv, NEW k \in Connectors, ShutdownClose(k) PROVE Inv'
<1> USE ConnectorAssumption DEF serverVars, trafficVars, PcStates
<1>0. TypeOK /\ MapInv
  BY DEF Inv
<1>1. TypeOK'
  BY <1>0 DEF TypeOK, ShutdownClose, ConnStates
<1>2. \A q \in Peers : conn[q] = "open" => conn'[q] = "open"
  BY DEF ShutdownClose
<1>3. AtClient' /\ OneDescriptor'
  BY <1>0 DEF MapInv, AtClient, OneDescriptor, ShutdownClose, TypeOK
<1>4. DescriptorsOwned' /\ FilesMapped'
  BY <1>0, <1>2 DEF TypeOK, MapInv, DescriptorsOwned, FilesMapped, ShutdownClose
<1> QED
  BY <1>1, <1>3, <1>4 DEF Inv, MapInv

LEMMA StepInv == Inv /\ [Next]_vars => Inv'
<1> SUFFICES ASSUME Inv, [Next]_vars PROVE Inv'
  OBVIOUS
<1>1. CASE UNCHANGED vars
  BY <1>1, MapUnchanged
  DEF Inv, vars, mapVars, TypeOK, serverVars, threadVars, clientVars, trafficVars
<1>2. ASSUME NEW p \in Peers, PeerStep(p) PROVE Inv'
  BY <1>2, PeerStepInv
<1>3. ASSUME NEW k \in Connectors, EnvironmentStep(k) PROVE Inv'
  BY <1>3, EnvironmentStepInv
<1>4. ASSUME NEW k \in Connectors, ThreadStep(k) PROVE Inv'
  BY <1>4, LoopStepInv, ServeStepInv, KillStepInv, AcceptStepInv, CloseStepInv
  DEF ThreadStep
<1> QED
  BY <1>1, <1>2, <1>3, <1>4 DEF Next

LEMMA Invariance == Spec => []Inv
<1>1. Init => Inv
  BY InitInv
<1>2. Inv /\ [Next]_vars => Inv'
  BY StepInv
<1> QED
  BY <1>1, <1>2, PTL DEF Spec

(* Every variable keeps its type.                                           *)
THEOREM TypeCorrect == Spec => []TypeOK
<1>1. Inv => TypeOK
  BY DEF Inv
<1> QED
  BY <1>1, Invariance, PTL

(* No thread ever reads, handles or closes another client's socket, however *)
(* descriptor numbers are recycled and whatever the shared array holds.     *)
THEOREM OwnershipCorrect == Spec => []DescriptorsOwned
<1>1. Inv => DescriptorsOwned
  BY DEF Inv, MapInv
<1> QED
  BY <1>1, Invariance, PTL

-----------------------------------------------------------------------------
(* ConnectionsPaired in its four parts.                                     *)
OpenMapped ==
  \A p \in Peers :
    conn[p] = "open" => \E f \in Fds : file[f] = p /\ connectedClients[target[p]][f] = p

DeadEmpty == \A p \in Peers : pc[target[p]] = "dead" => conn[p] \notin {"open", "backlog"}

CallsCounted ==
  \A p \in Peers :
    /\ opened[p] = IF conn[p] \in {"open", "killed"} THEN 1 ELSE 0
    /\ released[p] = IF conn[p] = "killed" THEN 1 ELSE 0

LEMMA PairedParts == ConnectionsPaired <=> OpenMapped /\ DeadEmpty /\ CallsCounted
  BY DEF ConnectionsPaired, OpenMapped, DeadEmpty, CallsCounted

(* A step that opens and kills no connection and ends no thread.            *)
LEMMA PairedUnchanged ==
  ASSUME ConnectionsPaired, UNCHANGED <<conn, opened, released, file, connectedClients>>,
         \A i \in Connectors : pc'[i] = "dead" => pc[i] = "dead"
  PROVE  ConnectionsPaired'
  BY ConnectorAssumption DEF ConnectionsPaired

(* killConnection.                                                          *)
LEMMA KillKeepsPaired ==
  ASSUME Inv, ConnectionsPaired,
         NEW k \in Connectors, NEW f \in Fds, connectedClients[k][f] # NoPeer,
         KillConnection(k, f),
         \A i \in Connectors : pc'[i] = "dead" => pc[i] = "dead"
  PROVE  ConnectionsPaired'
<1> DEFINE p == connectedClients[k][f]
<1>1. p \in Peers /\ file[f] = p /\ target[p] = k /\ conn[p] = "open"
  BY ClientIsPeer
<1>2. TypeOK /\ OpenMapped /\ DeadEmpty /\ CallsCounted
  BY PairedParts DEF Inv
<1>3. /\ connectedClients' = [connectedClients EXCEPT ![k][f] = NoPeer]
      /\ file' = [file EXCEPT ![f] = NoPeer]
      /\ conn' = [conn EXCEPT ![p] = "killed"]
      /\ released' = [released EXCEPT ![p] = released[p] + 1]
      /\ opened' = opened
  BY DEF KillConnection
<1> HIDE DEF p
<1>4. \A q \in Peers : conn'[q] = IF q = p THEN "killed" ELSE conn[q]
  BY <1>1, <1>2, <1>3 DEF TypeOK
<1>5. OpenMapped'
  <2> SUFFICES ASSUME NEW q \in Peers, conn'[q] = "open"
               PROVE  \E g \in Fds : file'[g] = q /\ connectedClients'[target[q]][g] = q
    BY DEF OpenMapped
  <2>1. q # p /\ conn[q] = "open"
    BY <1>4
  <2>2. PICK g \in Fds : file[g] = q /\ connectedClients[target[q]][g] = q
    BY <1>2, <2>1 DEF OpenMapped
  <2>3. g # f
    BY <1>1, <2>1, <2>2
  <2>4. file'[g] = q
    BY <1>2, <1>3, <2>2, <2>3 DEF TypeOK
  <2>5. connectedClients'[target[q]][g] = connectedClients[target[q]][g]
    BY <1>2, <1>3, <2>3, ConnectorAssumption DEF TypeOK
  <2> QED
    BY <2>2, <2>4, <2>5
<1>6. DeadEmpty'
  BY <1>2, <1>4, ConnectorAssumption DEF DeadEmpty
<1>7. CallsCounted'
  BY <1>1, <1>2, <1>3, <1>4 DEF CallsCounted, TypeOK
<1> QED
  BY <1>5, <1>6, <1>7
    DEF ConnectionsPaired, OpenMapped, DeadEmpty, CallsCounted

LEMMA PairedStep ==
  ASSUME Inv, ConnectionsPaired, [Next]_vars PROVE ConnectionsPaired'
<1> USE ConnectorAssumption
    DEF serverVars, threadVars, clientVars, trafficVars, NextEvent
<1>0. TypeOK /\ MapInv /\ OpenMapped /\ DeadEmpty /\ CallsCounted
  BY PairedParts DEF Inv
<1>1. CASE UNCHANGED vars
  BY <1>1, PairedUnchanged DEF vars
<1>2. ASSUME NEW p \in Peers, Connect(p) PROVE ConnectionsPaired'
  <2>1. OpenMapped'
    BY <1>0, <1>2 DEF Connect, OpenMapped, TypeOK
  <2>2. DeadEmpty'
    BY <1>0, <1>2 DEF Connect, DeadEmpty, TypeOK
  <2>3. CallsCounted'
    BY <1>0, <1>2 DEF Connect, CallsCounted, TypeOK
  <2> QED
    BY <2>1, <2>2, <2>3
    DEF ConnectionsPaired, OpenMapped, DeadEmpty, CallsCounted
<1>3. ASSUME NEW p \in Peers, Send(p) \/ HangUp(p) PROVE ConnectionsPaired'
  BY <1>3, PairedUnchanged DEF Send, HangUp
<1>4. ASSUME NEW k \in Connectors, EnvironmentStep(k) PROVE ConnectionsPaired'
  BY <1>0, <1>4, PairedUnchanged DEF EnvironmentStep, Start, Stop, Joined, TypeOK
<1>5. ASSUME NEW k \in Connectors,
             \/ Loop(k) \/ EpollWait(k) \/ EpollInterrupted(k)
             \/ DispatchAccept(k) \/ DispatchClient(k) \/ DispatchUnknown(k) \/ DispatchDone(k)
             \/ AcceptFails(k) \/ ReadMoreData(k) \/ HandleRequest(k) \/ HandleDone(k)
      PROVE  ConnectionsPaired'
  <2>1. UNCHANGED <<conn, opened, released, file, connectedClients>>
    BY <1>5 DEF Loop, EpollWait, EpollInterrupted, DispatchAccept, DispatchClient,
                DispatchUnknown, DispatchDone, AcceptFails, ReadMoreData, HandleRequest,
                HandleDone
  <2>2. \A i \in Connectors : pc'[i] = "dead" => pc[i] = "dead"
    BY <1>0, <1>5
    DEF TypeOK, Loop, EpollWait, EpollInterrupted, DispatchAccept, DispatchClient,
        DispatchUnknown, DispatchDone, AcceptFails, ReadMoreData, HandleRequest, HandleDone
  <2> QED
    BY <2>1, <2>2, PairedUnchanged
<1>6. ASSUME NEW k \in Connectors, HandleNewConnection(k) PROVE ConnectionsPaired'
  <2>1. PICK p \in Peers, f \in Fds :
          /\ target[p] = k /\ conn[p] = "backlog" /\ file[f] = NoPeer
          /\ file' = [file EXCEPT ![f] = p]
          /\ conn' = [conn EXCEPT ![p] = "open"]
          /\ opened' = [opened EXCEPT ![p] = @ + 1]
          /\ connectedClients' = [connectedClients EXCEPT ![k][f] = p]
    BY <1>6 DEF HandleNewConnection
  <2>2. pc[k] = "accept" /\ pc' = [pc EXCEPT ![k] = "dispatch"] /\ released' = released
    BY <1>6 DEF HandleNewConnection
  <2>3. \A q \in Peers : conn'[q] = IF q = p THEN "open" ELSE conn[q]
    BY <1>0, <2>1 DEF TypeOK
  <2>4. OpenMapped'
    <3> SUFFICES ASSUME NEW q \in Peers, conn'[q] = "open"
                 PROVE  \E g \in Fds : file'[g] = q /\ connectedClients'[target[q]][g] = q
      BY DEF OpenMapped
    <3>1. CASE q = p
      <4>1. file'[f] = p /\ connectedClients'[k][f] = p
        BY <1>0, <2>1 DEF TypeOK
      <4> QED
        BY <3>1, <4>1, <2>1
    <3>2. CASE q # p
      <4>1. PICK g \in Fds : file[g] = q /\ connectedClients[target[q]][g] = q
        BY <1>0, <2>3, <3>2 DEF OpenMapped
      <4>2. g # f
        BY <4>1, <2>1
      <4>3. file'[g] = q
        BY <1>0, <2>1, <4>1, <4>2 DEF TypeOK
      <4>4. connectedClients'[target[q]][g] = connectedClients[target[q]][g]
        BY <1>0, <2>1, <4>2 DEF TypeOK
      <4> QED
        BY <4>1, <4>3, <4>4
    <3> QED
      BY <3>1, <3>2
  <2>5. DeadEmpty'
    BY <1>0, <2>1, <2>2, <2>3 DEF DeadEmpty, TypeOK
  <2>6. CallsCounted'
    BY <1>0, <2>1, <2>2, <2>3 DEF CallsCounted, TypeOK
  <2> QED
    BY <2>4, <2>5, <2>6
    DEF ConnectionsPaired, OpenMapped, DeadEmpty, CallsCounted
<1>7. ASSUME NEW k \in Connectors, ReadEnds(k) \/ HandleFails(k) PROVE ConnectionsPaired'
  <2>1. fd[k] \in Fds /\ connectedClients[k][fd[k]] # NoPeer /\ KillConnection(k, fd[k])
    BY <1>0, <1>7 DEF MapInv, AtClient, ReadEnds, HandleFails
  <2>2. \A i \in Connectors : pc'[i] = "dead" => pc[i] = "dead"
    BY <1>0, <1>7 DEF TypeOK, ReadEnds, HandleFails
  <2> QED
    BY <2>1, <2>2, KillKeepsPaired
<1>8. ASSUME NEW k \in Connectors, ShutdownKill(k) PROVE ConnectionsPaired'
  <2>1. PICK f \in Fds : connectedClients[k][f] # NoPeer /\ KillConnection(k, f)
    BY <1>8 DEF ShutdownKill, Mapped
  <2>2. \A i \in Connectors : pc'[i] = "dead" => pc[i] = "dead"
    BY <1>8 DEF ShutdownKill
  <2> QED
    BY <2>1, <2>2, KillKeepsPaired
<1>9. ASSUME NEW k \in Connectors, ShutdownClose(k) PROVE ConnectionsPaired'
  <2>1. \A p \in Peers : target[p] = k => conn[p] # "open"
    BY <1>0, <1>9 DEF OpenMapped, ShutdownClose, Mapped
  <2>2. \A p \in Peers :
          conn'[p] = IF target[p] = k /\ conn[p] = "backlog" THEN "refused" ELSE conn[p]
    BY <1>9 DEF ShutdownClose
  <2>3. OpenMapped'
    BY <1>0, <1>9, <2>2 DEF OpenMapped, ShutdownClose
  <2>4. DeadEmpty'
    BY <1>0, <1>9, <2>1, <2>2 DEF DeadEmpty, ShutdownClose, TypeOK
  <2>5. CallsCounted'
    BY <1>0, <1>9, <2>2 DEF CallsCounted, ShutdownClose
  <2> QED
    BY <2>3, <2>4, <2>5
    DEF ConnectionsPaired, OpenMapped, DeadEmpty, CallsCounted
<1> QED
  BY <1>1, <1>2, <1>3, <1>4, <1>5, <1>6, <1>7, <1>8, <1>9 DEF Next, PeerStep, ThreadStep

(* Every accepted connection is in its connector's map and is released      *)
(* exactly once, and a stopped connector leaves none behind.                *)
THEOREM PairingCorrect == Spec => []ConnectionsPaired
<1>1. Init => ConnectionsPaired
  BY ConnectorAssumption DEF Init, ConnectionsPaired
<1>2. Inv /\ ConnectionsPaired /\ [Next]_vars => ConnectionsPaired'
  BY PairedStep
<1> QED
  BY <1>1, <1>2, Invariance, PTL DEF Spec

-----------------------------------------------------------------------------
(* What was sent is somewhere, whatever became of the connection.           *)
Accounts == \A p \in Peers : sent[p] = unread[p] + buffered[p] + handled[p]

LEMMA AccountsStep == ASSUME Inv, Accounts, [Next]_vars PROVE Accounts'
<1> USE DEF serverVars, threadVars, clientVars, trafficVars
<1>0. TypeOK /\ MapInv
  BY DEF Inv
<1>1. CASE UNCHANGED trafficVars
  BY <1>1 DEF Accounts
<1>2. ASSUME NEW p \in Peers, PeerStep(p) PROVE Accounts'
  BY <1>0, <1>2 DEF Accounts, PeerStep, Connect, Send, HangUp, TypeOK
<1>3. ASSUME NEW k \in Connectors, ReadMoreData(k) PROVE Accounts'
  <2>1. fd[k] \in Fds /\ connectedClients[k][fd[k]] # NoPeer
    BY <1>0, <1>3 DEF MapInv, AtClient, ReadMoreData
  <2>2. connectedClients[k][fd[k]] \in Peers /\ file[fd[k]] = connectedClients[k][fd[k]]
    BY <2>1, ClientIsPeer
  <2> QED
    BY <1>0, <1>3, <2>2 DEF Accounts, ReadMoreData, TypeOK
<1>4. ASSUME NEW k \in Connectors, HandleRequest(k) \/ HandleFails(k) PROVE Accounts'
  <2>1. fd[k] \in Fds /\ connectedClients[k][fd[k]] # NoPeer
    BY <1>0, <1>4 DEF MapInv, AtClient, HandleRequest, HandleFails
  <2> DEFINE p == connectedClients[k][fd[k]]
  <2>2. p \in Peers
    BY <2>1, ClientIsPeer
  <2>3. /\ buffered[p] > 0
        /\ buffered' = [buffered EXCEPT ![p] = buffered[p] - 1]
        /\ handled' = [handled EXCEPT ![p] = handled[p] + 1]
        /\ unread' = unread /\ sent' = sent
    BY <1>4 DEF HandleRequest, HandleFails
  <2> HIDE DEF p
  <2>4. \A q \in Peers : buffered'[q] + handled'[q] = buffered[q] + handled[q]
    BY <1>0, <2>2, <2>3 DEF TypeOK
  <2>5. /\ buffered' \in [Peers -> Nat] /\ handled' \in [Peers -> Nat]
        /\ unread \in [Peers -> Nat] /\ buffered \in [Peers -> Nat] /\ handled \in [Peers -> Nat]
    BY <1>0, <2>2, <2>3 DEF TypeOK
  <2> QED
    BY <2>3, <2>4, <2>5 DEF Accounts
<1>5. ASSUME NEW k \in Connectors, EnvironmentStep(k) \/ ThreadStep(k),
             ~ReadMoreData(k), ~HandleRequest(k), ~HandleFails(k)
      PROVE  UNCHANGED trafficVars
  BY <1>5
  DEF EnvironmentStep, Start, Stop, Joined, ThreadStep, Loop, EpollWait, EpollInterrupted,
      DispatchAccept, DispatchClient, DispatchUnknown, DispatchDone, HandleNewConnection,
      AcceptFails, ReadEnds, HandleDone, ShutdownKill, ShutdownClose
<1> QED
  BY <1>1, <1>2, <1>3, <1>4, <1>5 DEF Next, vars

(* No request is lost, handled twice or credited to another client, however *)
(* the threads share the array and descriptor numbers are recycled.          *)
THEOREM ConservationCorrect == Spec => []RequestsConserved
<1>1. Init => Accounts
  BY DEF Init, Accounts
<1>2. Inv /\ Accounts /\ [Next]_vars => Accounts'
  BY AccountsStep
<1>3. Accounts => RequestsConserved
  BY DEF Accounts, RequestsConserved
<1> QED
  BY <1>1, <1>2, <1>3, Invariance, PTL DEF Spec

-----------------------------------------------------------------------------
(* One connector alone: what its thread finds in the array is what          *)
(* epoll_wait put there.  No entry comes twice, the indices start at one,    *)
(* and the entries still to be looked at name open connections that have     *)
(* something to read.                                                       *)
InBatch(k) == pc[k] \in {"dispatch", "accept", "read", "handle"}

FirstLeft(k) == IF pc[k] = "dispatch" THEN index[k] ELSE index[k] + 1

LeftReadable(k) ==
  \A j \in 1 .. numFds[k], f \in Fds :
    j >= FirstLeft(k) /\ events[j] = ClientEvent(f) =>
      file[f] # NoPeer /\ Readable(file[f])

EntriesDistinct(k) ==
  /\ index[k] > 0
  /\ \A i, j \in 1 .. numFds[k] : events[i] = events[j] => i = j

Serving(k) ==
  pc[k] \in {"read", "handle"} =>
    index[k] \in 1 .. numFds[k] /\ events[index[k]] = ClientEvent(fd[k])

ReadingReadable(k) == pc[k] = "read" => Readable(file[fd[k]])

BatchInv ==
  \A k \in Connectors :
    /\ InBatch(k) => LeftReadable(k) /\ EntriesDistinct(k)
    /\ Serving(k)
    /\ ReadingReadable(k)

(* A step of the thread that leaves the batch, or is before one.            *)
LEMMA BatchOut ==
  ASSUME \A i, j \in Connectors : i = j, NEW k \in Connectors,
         pc'[k] \notin {"dispatch", "accept", "read", "handle"}
  PROVE  BatchInv'
<1>1. \A i \in Connectors : pc'[i] \notin {"dispatch", "accept", "read", "handle"}
  OBVIOUS
<1> QED
  BY <1>1 DEF BatchInv, InBatch, Serving, ReadingReadable

(* The peers make the sockets of open connections readable, never the       *)
(* opposite.                                                                *)
LEMMA BatchPeer ==
  ASSUME BatchInv, Inv, NEW p \in Peers, PeerStep(p)
  PROVE  BatchInv'
<1> USE DEF serverVars, threadVars, clientVars, trafficVars
<1>0. TypeOK /\ AtClient /\ DescriptorsOwned /\ FilesMapped
  BY DEF Inv, MapInv
<1>1. UNCHANGED <<numFds, index, fd, events, file, pc>>
  BY DEF PeerStep, Connect, Send, HangUp
<1>2. ASSUME NEW f \in Fds, file[f] # NoPeer, Readable(file[f])
      PROVE  Readable(file[f])'
  <2>1. file[f] \in Peers /\ conn[file[f]] = "open"
    BY <1>0, <1>2 DEF TypeOK, FilesMapped
  <2>2. CASE Connect(p)
    BY <1>0, <1>1, <1>2, <2>1, <2>2 DEF Connect, TypeOK, Readable
  <2>3. CASE Send(p)
    BY <1>0, <1>1, <1>2, <2>1, <2>3 DEF Send, TypeOK, Readable
  <2>4. CASE HangUp(p)
    BY <1>0, <1>1, <1>2, <2>1, <2>4 DEF HangUp, TypeOK, Readable
  <2> QED
    BY <2>2, <2>3, <2>4 DEF PeerStep
<1>3. ASSUME NEW k \in Connectors, pc[k] = "read"
      PROVE  fd[k] \in Fds /\ file[fd[k]] # NoPeer
  BY <1>0, <1>3, ConnectorAssumption DEF AtClient, DescriptorsOwned
<1> HIDE DEF serverVars, threadVars, clientVars, trafficVars
<1>4. ASSUME NEW k \in Connectors, InBatch(k) PROVE LeftReadable(k)' /\ EntriesDistinct(k)'
  <2>1. LeftReadable(k) /\ EntriesDistinct(k)
    BY <1>4 DEF BatchInv
  <2>2. LeftReadable(k)'
    BY <1>1, <1>2, <2>1 DEF LeftReadable, FirstLeft
  <2>3. EntriesDistinct(k)'
    BY <1>1, <2>1 DEF EntriesDistinct
  <2> QED
    BY <2>2, <2>3
<1>5. ASSUME NEW k \in Connectors PROVE Serving(k)' /\ ReadingReadable(k)'
  <2>1. Serving(k) /\ ReadingReadable(k)
    BY DEF BatchInv
  <2>2. Serving(k)'
    BY <1>1, <2>1 DEF Serving
  <2>3. ReadingReadable(k)'
    BY <1>1, <1>2, <1>3, <2>1 DEF ReadingReadable
  <2> QED
    BY <2>2, <2>3
<1>6. \A k \in Connectors : InBatch(k)' <=> InBatch(k)
  BY <1>1 DEF InBatch
<1> QED
  BY <1>4, <1>5, <1>6 DEF BatchInv

(* To prove the invariant after a step of the only thread.                  *)
LEMMA BatchOnly ==
  ASSUME \A i, j \in Connectors : i = j, NEW k \in Connectors,
         LeftReadable(k)', EntriesDistinct(k)', Serving(k)', ReadingReadable(k)'
  PROVE  BatchInv'
  BY DEF BatchInv, LeftReadable, EntriesDistinct, Serving, ReadingReadable, FirstLeft

(* The thread looks at the next entry, or serves the one it looked at.      *)
LEMMA BatchThread ==
  ASSUME \A i, j \in Connectors : i = j, BatchInv, Inv, NEW k \in Connectors, ThreadStep(k)
  PROVE  BatchInv'
<1> USE DEF serverVars, threadVars, clientVars, trafficVars, NextEvent
<1>0. TypeOK /\ AtClient /\ DescriptorsOwned /\ FilesMapped /\ OneDescriptor
  BY DEF Inv, MapInv
<1>t. /\ pc \in [Connectors -> PcStates] /\ index \in [Connectors -> Nat]
      /\ numFds \in [Connectors -> 0 .. MaxEvents] /\ fd \in [Connectors -> Fds \cup {NoFd}]
  BY <1>0 DEF TypeOK
<1>1. CASE \/ Loop(k) \/ EpollInterrupted(k) \/ DispatchDone(k)
           \/ ShutdownKill(k) \/ ShutdownClose(k)
  <2>1. pc'[k] \notin {"dispatch", "accept", "read", "handle"}
    BY <1>1, <1>t
    DEF Loop, EpollInterrupted, DispatchDone, ShutdownKill, ShutdownClose
  <2> QED
    BY <2>1, BatchOut
<1>2. CASE EpollWait(k)
  <2>a. PICK n \in 1 .. MaxEvents :
          \E batch \in [1 .. n -> Ready(k)] :
            /\ \A i, j \in 1 .. n : batch[i] = batch[j] => i = j
            /\ events' = [j \in 1 .. MaxEvents |-> IF j <= n THEN batch[j] ELSE events[j]]
            /\ numFds' = [numFds EXCEPT ![k] = n]
    BY <1>2 DEF EpollWait
  <2>1. PICK batch \in [1 .. n -> Ready(k)] :
          /\ \A i, j \in 1 .. n : batch[i] = batch[j] => i = j
          /\ events' = [j \in 1 .. MaxEvents |-> IF j <= n THEN batch[j] ELSE events[j]]
          /\ numFds' = [numFds EXCEPT ![k] = n]
    BY <2>a
  <2>2. /\ pc'[k] = "dispatch" /\ index'[k] = 1 /\ numFds'[k] = n
        /\ UNCHANGED <<file, unread, peerOpen>>
    BY <1>2, <1>t, <2>1 DEF EpollWait
  <2>3. \A j \in 1 .. n : events'[j] = batch[j] /\ batch[j] \in Ready(k)
    BY <2>1, ConnectorAssumption
  <2>4. LeftReadable(k)'
    <3> SUFFICES ASSUME NEW j \in 1 .. n, NEW f \in Fds, events'[j] = ClientEvent(f)
                 PROVE  file'[f] # NoPeer /\ Readable(file[f])'
      BY <2>2 DEF LeftReadable
    <3>1. ClientEvent(f) \in Ready(k)
      BY <2>3
    <3>2. f \in Registered(k) /\ Readable(file[f])
      BY <3>1 DEF Ready, ClientEvent, ServerEvent, ShutdownEvent
    <3> QED
      BY <2>2, <3>2 DEF Registered, Readable
  <2>5. EntriesDistinct(k)'
    BY <1>t, <2>1, <2>2, <2>3 DEF EntriesDistinct
  <2>6. Serving(k)' /\ ReadingReadable(k)'
    BY <2>2 DEF Serving, ReadingReadable
  <2> QED
    BY <2>4, <2>5, <2>6, BatchOnly
<1>3. CASE DispatchAccept(k) \/ DispatchClient(k)
  <2>1. /\ InBatch(k) /\ FirstLeft(k) = index[k] /\ index[k] <= numFds[k]
        /\ UNCHANGED <<events, numFds, index, file, unread, peerOpen>>
        /\ pc'[k] \in {"accept", "read"}
    BY <1>3, <1>t DEF DispatchAccept, DispatchClient, InBatch, FirstLeft
  <2>2. LeftReadable(k) /\ EntriesDistinct(k)
    BY <2>1 DEF BatchInv
  <2>3. LeftReadable(k)'
    BY <1>t, <2>1, <2>2 DEF LeftReadable, FirstLeft, Readable
  <2>4. EntriesDistinct(k)'
    BY <1>t, <2>1, <2>2 DEF EntriesDistinct
  <2>5. ASSUME pc'[k] = "read"
        PROVE  /\ fd'[k] \in Fds /\ events[index[k]] = ClientEvent(fd'[k])
               /\ index[k] \in 1 .. numFds[k]
    <3>1. DispatchClient(k)
      BY <1>3, <1>t, <2>5 DEF DispatchAccept
    <3>2. index[k] \in 1 .. numFds[k]
      BY <1>t, <2>1, <2>2 DEF EntriesDistinct
    <3>3. fd'[k] \in Fds /\ events[index[k]] = ClientEvent(fd'[k])
      BY <1>t, <3>1 DEF DispatchClient
    <3> QED
      BY <3>2, <3>3
  <2>6. Serving(k)'
    BY <2>1, <2>5 DEF Serving
  <2>7. ReadingReadable(k)'
    BY <2>1, <2>2, <2>5 DEF ReadingReadable, LeftReadable, Readable
  <2> QED
    BY <2>3, <2>4, <2>6, <2>7, BatchOnly
<1>4. CASE DispatchUnknown(k) \/ AcceptFails(k) \/ HandleDone(k)
  <2>1. /\ InBatch(k) /\ FirstLeft(k) \in index[k] .. index[k] + 1
        /\ UNCHANGED <<events, numFds, file, unread, peerOpen>>
        /\ pc'[k] = "dispatch" /\ index'[k] = index[k] + 1
    BY <1>4, <1>t DEF DispatchUnknown, AcceptFails, HandleDone, InBatch, FirstLeft
  <2>2. LeftReadable(k) /\ EntriesDistinct(k)
    BY <2>1 DEF BatchInv
  <2>3. LeftReadable(k)'
    BY <1>t, <2>1, <2>2 DEF LeftReadable, FirstLeft, Readable
  <2>4. EntriesDistinct(k)'
    BY <1>t, <2>1, <2>2 DEF EntriesDistinct
  <2>5. Serving(k)' /\ ReadingReadable(k)'
    BY <2>1 DEF Serving, ReadingReadable
  <2> QED
    BY <2>3, <2>4, <2>5, BatchOnly
<1>5. CASE HandleRequest(k)
  <2>1. /\ InBatch(k) /\ FirstLeft(k) = index[k] + 1 /\ pc[k] = "handle"
        /\ UNCHANGED <<pc, index, fd, events, numFds, file, unread, peerOpen>>
    BY <1>5 DEF HandleRequest, InBatch, FirstLeft
  <2>2. LeftReadable(k) /\ EntriesDistinct(k) /\ Serving(k)
    BY <2>1 DEF BatchInv
  <2>3. LeftReadable(k)'
    BY <2>1, <2>2 DEF LeftReadable, FirstLeft, Readable
  <2>4. EntriesDistinct(k)' /\ Serving(k)' /\ ReadingReadable(k)'
    BY <1>t, <2>1, <2>2 DEF EntriesDistinct, Serving, ReadingReadable
  <2> QED
    BY <2>3, <2>4, BatchOnly
<1>6. CASE HandleNewConnection(k)
  <2>1. PICK p \in Peers, f \in Fds :
          file[f] = NoPeer /\ file' = [file EXCEPT ![f] = p]
    BY <1>6 DEF HandleNewConnection
  <2>2. /\ InBatch(k) /\ FirstLeft(k) = index[k] + 1
        /\ UNCHANGED <<events, numFds, unread, peerOpen>>
        /\ pc'[k] = "dispatch" /\ index'[k] = index[k] + 1
    BY <1>6, <1>t DEF HandleNewConnection, InBatch, FirstLeft
  <2>3. LeftReadable(k) /\ EntriesDistinct(k)
    BY <2>2 DEF BatchInv
  <2>4. \A g \in Fds : file[g] # NoPeer => file'[g] = file[g]
    BY <1>0, <2>1 DEF TypeOK
  <2>5. LeftReadable(k)'
    BY <1>t, <2>2, <2>3, <2>4 DEF LeftReadable, FirstLeft, Readable
  <2>6. EntriesDistinct(k)' /\ Serving(k)' /\ ReadingReadable(k)'
    BY <1>t, <2>2, <2>3 DEF EntriesDistinct, Serving, ReadingReadable
  <2> QED
    BY <2>5, <2>6, BatchOnly
<1>7. CASE ReadMoreData(k) \/ ReadEnds(k) \/ HandleFails(k)
  <2>1. /\ pc[k] \in {"read", "handle"} /\ InBatch(k) /\ FirstLeft(k) = index[k] + 1
        /\ UNCHANGED <<events, numFds, peerOpen>>
        /\ \/ pc'[k] = "dispatch" /\ index'[k] = index[k] + 1
           \/ pc'[k] = "handle" /\ index'[k] = index[k] /\ fd'[k] = fd[k]
    BY <1>7, <1>t DEF ReadMoreData, ReadEnds, HandleFails, InBatch, FirstLeft
  <2>2. LeftReadable(k) /\ EntriesDistinct(k) /\ Serving(k)
    BY <2>1 DEF BatchInv
  <2>3. /\ fd[k] \in Fds /\ connectedClients[k][fd[k]] # NoPeer
        /\ file[fd[k]] = connectedClients[k][fd[k]]
        /\ file[fd[k]] \in Peers
    BY <1>0, <2>1, ClientIsPeer DEF AtClient
  <2>4. ASSUME NEW g \in Fds, g # fd[k], file[g] # NoPeer, Readable(file[g])
        PROVE  file'[g] # NoPeer /\ Readable(file[g])'
    <3>1. file[g] \in Peers /\ file[g] # file[fd[k]]
      BY <1>0, <2>3, <2>4 DEF TypeOK, OneDescriptor
    <3>2. file'[g] = file[g]
      BY <1>0, <1>7, <2>3, <2>4
      DEF TypeOK, ReadMoreData, ReadEnds, HandleFails, KillConnection
    <3>3. unread'[file[g]] = unread[file[g]]
      BY <1>0, <1>7, <2>3, <3>1 DEF TypeOK, ReadMoreData, ReadEnds, HandleFails
    <3> QED
      BY <2>1, <2>4, <3>2, <3>3 DEF Readable
  <2>5. ASSUME NEW j \in 1 .. numFds[k], NEW f \in Fds,
               j >= index[k] + 1, events[j] = ClientEvent(f)
        PROVE  f # fd[k] /\ file[f] # NoPeer /\ Readable(file[f])
    <3>1. index[k] \in 1 .. numFds[k] /\ events[index[k]] = ClientEvent(fd[k])
      BY <2>1, <2>2 DEF Serving
    <3>2. j # index[k]
      BY <1>t, <2>5
    <3>3. f # fd[k]
      BY <2>2, <2>5, <3>1, <3>2 DEF EntriesDistinct
    <3> QED
      BY <2>1, <2>2, <2>5, <3>3 DEF LeftReadable
  <2>6. LeftReadable(k)'
    <3>1. numFds'[k] = numFds[k] /\ FirstLeft(k)' = index[k] + 1
      BY <2>1 DEF FirstLeft
    <3>2. ASSUME NEW j \in 1 .. numFds[k], NEW f \in Fds,
                 j >= index[k] + 1, events[j] = ClientEvent(f)
          PROVE  file'[f] # NoPeer /\ Readable(file[f])'
      BY <2>4, <2>5, <3>2
    <3> QED
      BY <2>1, <3>1, <3>2 DEF LeftReadable
  <2>7. EntriesDistinct(k)' /\ Serving(k)' /\ ReadingReadable(k)'
    BY <1>t, <2>1, <2>2 DEF EntriesDistinct, Serving, ReadingReadable
  <2> QED
    BY <2>6, <2>7, BatchOnly
<1> QED
  BY <1>1, <1>2, <1>3, <1>4, <1>5, <1>6, <1>7 DEF ThreadStep

LEMMA BatchStep ==
  ASSUME \A i, j \in Connectors : i = j, BatchInv, Inv, [Next]_vars
  PROVE  BatchInv'
<1> USE DEF serverVars, threadVars, clientVars, trafficVars
<1>1. CASE UNCHANGED <<pc, numFds, index, fd, events, file, unread, peerOpen>>
  BY <1>1
  DEF BatchInv, InBatch, LeftReadable, EntriesDistinct, Serving, ReadingReadable,
      FirstLeft, Readable
<1>2. ASSUME NEW p \in Peers, PeerStep(p) PROVE BatchInv'
  BY <1>2, BatchPeer
<1>3. ASSUME NEW k \in Connectors, Start(k) PROVE BatchInv'
  <2>1. pc'[k] = "loop"
    BY <1>3 DEF Start, Inv, TypeOK
  <2> QED
    BY <2>1, BatchOut
<1>4. ASSUME NEW k \in Connectors, Stop(k) \/ Joined(k) PROVE BatchInv'
  BY <1>1, <1>4 DEF Stop, Joined
<1>5. ASSUME NEW k \in Connectors, ThreadStep(k) PROVE BatchInv'
  BY <1>5, BatchThread
<1> QED
  BY <1>1, <1>2, <1>3, <1>4, <1>5 DEF Next, EnvironmentStep, vars

(* The one connector of a process never blocks in read(): nobody else       *)
(* writes the array, and no step makes a socket that is still to be read     *)
(* unreadable or gives its number away.                                     *)
THEOREM ReadsCorrect ==
  (\A i, j \in Connectors : i = j) => (Spec => []ReadNeverBlocks)
<1> SUFFICES ASSUME \A i, j \in Connectors : i = j PROVE Spec => []ReadNeverBlocks
  OBVIOUS
<1>1. Init => BatchInv
  BY DEF Init, BatchInv, InBatch, Serving, ReadingReadable
<1>2. Inv /\ BatchInv /\ [Next]_vars => BatchInv'
  BY BatchStep
<1>3. BatchInv => ReadNeverBlocks
  BY DEF BatchInv, ReadingReadable, ReadNeverBlocks, BlockedInRead
<1> QED
  BY <1>1, <1>2, <1>3, Invariance, PTL DEF Spec

=============================================================================
