-------------------------- MODULE XConnectorEpoll --------------------------
(***************************************************************************)
(* The Unix-socket servers of Winlator in single-threaded mode: one        *)
(* XConnectorEpoll per server (X server, SysV shared memory, VirGL), each   *)
(* with one epoll thread that accepts connections, reads requests, kills    *)
(* connections, and is stopped by stop().                                   *)
(*                                                                         *)
(* All the connectors of the process share two things: the descriptor       *)
(* table of the kernel, and the array `events` that every epoll thread      *)
(* hands to epoll_wait (it is a global of xconnector_epoll.c).  A thread    *)
(* may therefore read entries another thread has just written.              *)
(*                                                                         *)
(* A peer is a guest process that opens one connection.  What it sends is   *)
(* counted in whole requests; how bytes become requests is module XStream.  *)
(* connectedClients is modelled as atomic: only its epoll thread uses it.    *)
(***************************************************************************)
EXTENDS Naturals

CONSTANTS
  Connectors,     \* the single-threaded connectors of the process
  Peers,          \* guest processes
  target,         \* the connector each peer connects to
  Fds,            \* descriptor numbers accept() may return
  NoPeer,         \* an unused descriptor number, or a free map entry
  NoFd,           \* no descriptor
  MaxEvents,      \* MAX_EVENTS, the size of the shared array
  MaxRequests,    \* bound: requests a peer sends
  Interruptible   \* connectors whose epoll_wait may fail with EINTR

ASSUME ConnectorAssumption ==
  /\ target \in [Peers -> Connectors]
  /\ NoPeer \notin Peers
  /\ Fds \subseteq Nat
  /\ NoFd \notin Fds
  /\ MaxEvents \in Nat \ {0}
  /\ MaxRequests \in Nat
  /\ Interruptible \subseteq Connectors

VARIABLES
  running,           \* the field of each connector
  stopCall,          \* progress of the call of start() and of stop()
  pc,                \* position of each epoll thread
  signalled,         \* the shutdown eventfd of the connector is readable
  events,            \* the shared array of epoll events
  numFds, index,     \* doEpollIndefinitely: result of epoll_wait, loop counter
  fd,                \* the descriptor the epoll thread is handling
  connectedClients,  \* descriptor -> client, per connector
  file,              \* kernel: the connection behind each descriptor number
  conn,              \* life of each connection, as the server sees it
  peerOpen,          \* the peer has not closed its end
  unread, buffered,  \* requests in the socket, requests in the XInputStream
  sent, handled,     \* requests written by the peer, passed to handleRequest
  opened, released   \* calls of handleNewConnection, handleConnectionShutdown

serverVars  == <<running, stopCall, signalled>>
threadVars  == <<pc, numFds, index, fd>>
clientVars  == <<connectedClients, file, conn, opened, released>>
trafficVars == <<peerOpen, unread, buffered, sent, handled>>
vars == <<serverVars, threadVars, events, clientVars, trafficVars>>

-----------------------------------------------------------------------------
(* Entries of the events array: the descriptors registered with epoll.     *)

ServerEvent(k)   == [kind |-> "server", of |-> k]
ShutdownEvent(k) == [kind |-> "shutdown", of |-> k]
ClientEvent(f)   == [kind |-> "client", of |-> f]
NoEvent          == [kind |-> "none", of |-> NoFd]

Entries ==
  {ServerEvent(k) : k \in Connectors} \cup {ShutdownEvent(k) : k \in Connectors}
    \cup {ClientEvent(f) : f \in Fds} \cup {NoEvent}

PcStates ==
  {"new", "loop", "wait", "dispatch", "accept", "read", "handle", "shutdown", "dead"}
ConnStates == {"out", "backlog", "open", "killed", "refused"}

(* EPOLLIN on a stream socket: data to read, or the peer has closed.       *)
Readable(p) == unread[p] > 0 \/ ~peerOpen[p]

(* The client registrations of connector k.  The kernel drops them on       *)
(* close(), so they are the descriptors of its open connections.            *)
Registered(k) == {f \in Fds : file[f] # NoPeer /\ target[file[f]] = k}

Ready(k) ==
  {ClientEvent(f) : f \in {g \in Registered(k) : Readable(file[g])}}
    \cup {e \in {ServerEvent(k)} : \E p \in Peers : target[p] = k /\ conn[p] = "backlog"}
    \cup {e \in {ShutdownEvent(k)} : signalled[k]}

-----------------------------------------------------------------------------
Init ==
  /\ running   = [k \in Connectors |-> FALSE]
  /\ stopCall  = [k \in Connectors |-> "unstarted"]
  /\ pc        = [k \in Connectors |-> "new"]
  /\ signalled = [k \in Connectors |-> FALSE]
  /\ events    = [j \in 1 .. MaxEvents |-> NoEvent]
  /\ numFds    = [k \in Connectors |-> 0]
  /\ index     = [k \in Connectors |-> 0]
  /\ fd        = [k \in Connectors |-> NoFd]
  /\ connectedClients = [k \in Connectors |-> [f \in Fds |-> NoPeer]]
  /\ file      = [f \in Fds |-> NoPeer]
  /\ conn      = [p \in Peers |-> "out"]
  /\ peerOpen  = [p \in Peers |-> FALSE]
  /\ unread    = [p \in Peers |-> 0]
  /\ buffered  = [p \in Peers |-> 0]
  /\ sent      = [p \in Peers |-> 0]
  /\ handled   = [p \in Peers |-> 0]
  /\ opened    = [p \in Peers |-> 0]
  /\ released  = [p \in Peers |-> 0]

-----------------------------------------------------------------------------
(* The peer.  The server socket listens from the constructor until          *)
(* shutdown() closes it.                                                    *)

Connect(p) ==
  /\ conn[p] = "out"
  /\ pc[target[p]] # "dead"
  /\ conn' = [conn EXCEPT ![p] = "backlog"]
  /\ peerOpen' = [peerOpen EXCEPT ![p] = TRUE]
  /\ UNCHANGED <<serverVars, threadVars, events, connectedClients, file, opened,
                 released, unread, buffered, sent, handled>>

Send(p) ==
  /\ peerOpen[p]
  /\ conn[p] \in {"backlog", "open"}
  /\ sent[p] < MaxRequests
  /\ sent' = [sent EXCEPT ![p] = @ + 1]
  /\ unread' = [unread EXCEPT ![p] = @ + 1]
  /\ UNCHANGED <<serverVars, threadVars, events, clientVars, peerOpen, buffered, handled>>

HangUp(p) ==
  /\ peerOpen[p]
  /\ conn[p] \in {"backlog", "open"}
  /\ peerOpen' = [peerOpen EXCEPT ![p] = FALSE]
  /\ UNCHANGED <<serverVars, threadVars, events, clientVars, unread, buffered, sent, handled>>

-----------------------------------------------------------------------------
(* start() and stop(), called by the thread that runs the environment.      *)

Start(k) ==
  /\ stopCall[k] = "unstarted"
  /\ stopCall' = [stopCall EXCEPT ![k] = "started"]
  /\ running' = [running EXCEPT ![k] = TRUE]
  /\ pc' = [pc EXCEPT ![k] = "loop"]
  /\ UNCHANGED <<signalled, numFds, index, fd, events, clientVars, trafficVars>>

(* Mutant: stop() does not write the shutdown eventfd.                      *)
Stop_NoSignal(k) ==
  /\ stopCall[k] = "started"
  /\ stopCall' = [stopCall EXCEPT ![k] = "joining"]
  /\ running' = [running EXCEPT ![k] = FALSE]
  /\ UNCHANGED <<signalled, threadVars, events, clientVars, trafficVars>>

Stop(k) ==
  /\ stopCall[k] = "started"
  /\ stopCall' = [stopCall EXCEPT ![k] = "joining"]
  /\ running' = [running EXCEPT ![k] = FALSE]
  /\ signalled' = [signalled EXCEPT ![k] = TRUE]
  /\ UNCHANGED <<threadVars, events, clientVars, trafficVars>>

Joined(k) ==
  /\ stopCall[k] = "joining"
  /\ pc[k] = "dead"
  /\ stopCall' = [stopCall EXCEPT ![k] = "stopped"]
  /\ UNCHANGED <<running, signalled, threadVars, events, clientVars, trafficVars>>

-----------------------------------------------------------------------------
(* The epoll thread: run() and doEpollIndefinitely().                       *)

Loop(k) ==
  /\ pc[k] = "loop"
  /\ pc' = [pc EXCEPT ![k] = IF running[k] THEN "wait" ELSE "shutdown"]
  /\ UNCHANGED <<serverVars, numFds, index, fd, events, clientVars, trafficVars>>

(* epoll_wait fills the shared array from its start with up to MaxEvents    *)
(* ready descriptors, in the order of the kernel's ready list.              *)
EpollWait(k) ==
  /\ pc[k] = "wait"
  /\ \E n \in 1 .. MaxEvents : \E batch \in [1 .. n -> Ready(k)] :
       /\ \A i, j \in 1 .. n : batch[i] = batch[j] => i = j
       /\ n = MaxEvents \/ \A e \in Ready(k) : \E i \in 1 .. n : batch[i] = e
       /\ events' = [j \in 1 .. MaxEvents |-> IF j <= n THEN batch[j] ELSE events[j]]
       /\ numFds' = [numFds EXCEPT ![k] = n]
  /\ index' = [index EXCEPT ![k] = 1]
  /\ pc' = [pc EXCEPT ![k] = "dispatch"]
  /\ UNCHANGED <<serverVars, fd, clientVars, trafficVars>>

(* epoll_wait returns -1: the loop of run() ends, running stays TRUE.       *)
EpollInterrupted(k) ==
  /\ pc[k] = "wait"
  /\ k \in Interruptible
  /\ pc' = [pc EXCEPT ![k] = "shutdown"]
  /\ UNCHANGED <<serverVars, numFds, index, fd, events, clientVars, trafficVars>>

NextEvent(k) ==
  /\ pc' = [pc EXCEPT ![k] = "dispatch"]
  /\ index' = [index EXCEPT ![k] = @ + 1]
  /\ fd' = [fd EXCEPT ![k] = NoFd]
  /\ UNCHANGED numFds

(* Read entry `index` of the array, whoever wrote it last.                  *)
(* Mutant: the wrong descriptor is compared with serverFd.                  *)
DispatchAccept_WrongFd(k) ==
  /\ pc[k] = "dispatch"
  /\ index[k] <= numFds[k]
  /\ events[index[k]] = ShutdownEvent(k)
  /\ pc' = [pc EXCEPT ![k] = "accept"]
  /\ UNCHANGED <<serverVars, numFds, index, fd, events, clientVars, trafficVars>>

DispatchAccept(k) ==
  /\ pc[k] = "dispatch"
  /\ index[k] <= numFds[k]
  /\ events[index[k]] = ServerEvent(k)
  /\ pc' = [pc EXCEPT ![k] = "accept"]
  /\ UNCHANGED <<serverVars, numFds, index, fd, events, clientVars, trafficVars>>

(* Mutant: the loop over the events reads one entry too many.               *)
DispatchClient_OffByOne(k) ==
  /\ pc[k] = "dispatch"
  /\ index[k] <= numFds[k] + 1
  /\ index[k] <= MaxEvents
  /\ \E f \in Fds :
       /\ events[index[k]] = ClientEvent(f)
       /\ connectedClients[k][f] # NoPeer
       /\ fd' = [fd EXCEPT ![k] = f]
  /\ pc' = [pc EXCEPT ![k] = "read"]
  /\ UNCHANGED <<serverVars, numFds, index, events, clientVars, trafficVars>>

DispatchClient(k) ==
  /\ pc[k] = "dispatch"
  /\ index[k] <= numFds[k]
  /\ \E f \in Fds :
       /\ events[index[k]] = ClientEvent(f)
       /\ connectedClients[k][f] # NoPeer
       /\ fd' = [fd EXCEPT ![k] = f]
  /\ pc' = [pc EXCEPT ![k] = "read"]
  /\ UNCHANGED <<serverVars, numFds, index, events, clientVars, trafficVars>>

(* handleExistingConnection: no client with this descriptor.                *)
DispatchUnknown(k) ==
  /\ pc[k] = "dispatch"
  /\ index[k] <= numFds[k]
  /\ events[index[k]] # ServerEvent(k)
  /\ \A f \in Fds :
       events[index[k]] = ClientEvent(f) => connectedClients[k][f] = NoPeer
  /\ NextEvent(k)
  /\ UNCHANGED <<serverVars, events, clientVars, trafficVars>>

DispatchDone(k) ==
  /\ pc[k] = "dispatch"
  /\ index[k] > numFds[k]
  /\ pc' = [pc EXCEPT ![k] = "loop"]
  /\ index' = [index EXCEPT ![k] = 0]
  /\ numFds' = [numFds EXCEPT ![k] = 0]
  /\ UNCHANGED <<serverVars, fd, events, clientVars, trafficVars>>

-----------------------------------------------------------------------------
(* accept(), EPOLL_CTL_ADD and handleNewConnection.  The kernel may return  *)
(* any free number.                                                         *)

HandleNewConnection(k) ==
  /\ pc[k] = "accept"
  /\ \E p \in Peers, f \in Fds :
       /\ target[p] = k
       /\ conn[p] = "backlog"
       /\ file[f] = NoPeer
       /\ file' = [file EXCEPT ![f] = p]
       /\ conn' = [conn EXCEPT ![p] = "open"]
       /\ opened' = [opened EXCEPT ![p] = @ + 1]
       /\ connectedClients' = [connectedClients EXCEPT ![k][f] = p]
  /\ NextEvent(k)
  /\ UNCHANGED <<serverVars, events, released, trafficVars>>

(* accept() fails: the descriptor table is full, the peer stays queued.     *)
AcceptFails(k) ==
  /\ pc[k] = "accept"
  /\ \A f \in Fds : file[f] # NoPeer
  /\ NextEvent(k)
  /\ UNCHANGED <<serverVars, events, clientVars, trafficVars>>

(* Mutant: killConnection leaves the client in connectedClients.            *)
KillConnection_NoRemove(k, f) ==
  LET p == connectedClients[k][f] IN
  /\ conn' = [conn EXCEPT ![p] = "killed"]
  /\ released' = [released EXCEPT ![p] = @ + 1]
  /\ file' = [file EXCEPT ![f] = NoPeer]
  /\ UNCHANGED <<opened, connectedClients>>

(* killConnection: the handler's shutdown callback, EPOLL_CTL_DEL, close()  *)
(* and connectedClients.remove().                                           *)
KillConnection(k, f) ==
  LET p == connectedClients[k][f] IN
  /\ conn' = [conn EXCEPT ![p] = "killed"]
  /\ released' = [released EXCEPT ![p] = @ + 1]
  /\ file' = [file EXCEPT ![f] = NoPeer]
  /\ connectedClients' = [connectedClients EXCEPT ![k][f] = NoPeer]
  /\ UNCHANGED opened

(* readMoreData: takes what the socket behind the number holds; blocks when *)
(* there is nothing to read (the sockets are blocking).                     *)
ReadMoreData(k) ==
  /\ pc[k] = "read"
  /\ file[fd[k]] # NoPeer
  /\ unread[file[fd[k]]] > 0
  /\ LET p == connectedClients[k][fd[k]]
         q == file[fd[k]]
     IN  /\ buffered' = [buffered EXCEPT ![p] = @ + unread[q]]
         /\ unread' = [unread EXCEPT ![q] = 0]
  /\ pc' = [pc EXCEPT ![k] = "handle"]
  /\ UNCHANGED <<serverVars, numFds, index, fd, events, clientVars, peerOpen, sent, handled>>

(* readMoreData returns -1 (end of file) or throws: the client is killed.   *)
ReadEnds(k) ==
  /\ pc[k] = "read"
  /\ \/ file[fd[k]] = NoPeer
     \/ unread[file[fd[k]]] = 0 /\ ~peerOpen[file[fd[k]]]
  /\ KillConnection(k, fd[k])
  /\ NextEvent(k)
  /\ UNCHANGED <<serverVars, events, trafficVars>>

(* Mutant: a request is handled without checking that one is buffered.      *)
HandleRequest_Unchecked(k) ==
  /\ pc[k] = "handle"
  /\ running[k]
  /\ LET p == connectedClients[k][fd[k]] IN
       /\ buffered' = [buffered EXCEPT ![p] = @ - 1]
       /\ handled' = [handled EXCEPT ![p] = @ + 1]
  /\ UNCHANGED <<serverVars, threadVars, events, clientVars, peerOpen, unread, sent>>

(* One turn of `while (running && handleRequest(client))`.                  *)
HandleRequest(k) ==
  /\ pc[k] = "handle"
  /\ running[k]
  /\ LET p == connectedClients[k][fd[k]] IN
       /\ buffered[p] > 0
       /\ buffered' = [buffered EXCEPT ![p] = @ - 1]
       /\ handled' = [handled EXCEPT ![p] = @ + 1]
  /\ UNCHANGED <<serverVars, threadVars, events, clientVars, peerOpen, unread, sent>>

(* The handler cannot write to a peer that is gone: IOException.            *)
HandleFails(k) ==
  /\ pc[k] = "handle"
  /\ running[k]
  /\ LET p == connectedClients[k][fd[k]] IN
       /\ buffered[p] > 0
       /\ ~peerOpen[p]
       /\ buffered' = [buffered EXCEPT ![p] = @ - 1]
       /\ handled' = [handled EXCEPT ![p] = @ + 1]
  /\ KillConnection(k, fd[k])
  /\ NextEvent(k)
  /\ UNCHANGED <<serverVars, events, peerOpen, unread, sent>>

(* Mutant: what is left of the buffer is dropped when the loop ends.        *)
HandleDone_DropsRest(k) ==
  /\ pc[k] = "handle"
  /\ ~running[k] \/ buffered[connectedClients[k][fd[k]]] = 0
  /\ buffered' = [buffered EXCEPT ![connectedClients[k][fd[k]]] = 0]
  /\ NextEvent(k)
  /\ UNCHANGED <<serverVars, events, clientVars, peerOpen, unread, sent, handled>>

(* Mutant: `if` in place of `while`: at most one request per event.         *)
HandleDone_Early(k) ==
  /\ pc[k] = "handle"
  /\ NextEvent(k)
  /\ UNCHANGED <<serverVars, events, clientVars, trafficVars>>

HandleDone(k) ==
  /\ pc[k] = "handle"
  /\ ~running[k] \/ buffered[connectedClients[k][fd[k]]] = 0
  /\ NextEvent(k)
  /\ UNCHANGED <<serverVars, events, clientVars, trafficVars>>

-----------------------------------------------------------------------------
(* shutdown(): kill the clients from the last map entry, then close the     *)
(* server socket, which refuses the peers still queued on it.               *)

Mapped(k) == {f \in Fds : connectedClients[k][f] # NoPeer}

ShutdownKill(k) ==
  /\ pc[k] = "shutdown"
  /\ \E f \in Mapped(k) :
       /\ \A g \in Mapped(k) : g <= f
       /\ KillConnection(k, f)
  /\ UNCHANGED <<serverVars, threadVars, events, trafficVars>>

ShutdownClose(k) ==
  /\ pc[k] = "shutdown"
  /\ Mapped(k) = {}
  /\ pc' = [pc EXCEPT ![k] = "dead"]
  /\ conn' = [p \in Peers |->
                IF target[p] = k /\ conn[p] = "backlog" THEN "refused" ELSE conn[p]]
  /\ UNCHANGED <<serverVars, numFds, index, fd, events, connectedClients, file,
                 opened, released, trafficVars>>

-----------------------------------------------------------------------------
PeerStep(p) == Connect(p) \/ Send(p) \/ HangUp(p)

EnvironmentStep(k) == Start(k) \/ Stop(k) \/ Joined(k)

ThreadStep(k) ==
  \/ Loop(k) \/ EpollWait(k) \/ EpollInterrupted(k)
  \/ DispatchAccept(k) \/ DispatchClient(k) \/ DispatchUnknown(k) \/ DispatchDone(k)
  \/ HandleNewConnection(k) \/ AcceptFails(k)
  \/ ReadMoreData(k) \/ ReadEnds(k)
  \/ HandleRequest(k) \/ HandleFails(k) \/ HandleDone(k)
  \/ ShutdownKill(k) \/ ShutdownClose(k)

Next ==
  \/ \E p \in Peers : PeerStep(p)
  \/ \E k \in Connectors : EnvironmentStep(k) \/ ThreadStep(k)

Spec == Init /\ [][Next]_vars

(* The scheduler runs every epoll thread and the thread that joins it.      *)
ThreadFairness ==
  \A k \in Connectors : WF_vars(ThreadStep(k)) /\ WF_vars(Joined(k))

FairSpec == Spec /\ ThreadFairness

(* With several connectors: a thread is not for ever preempted in the       *)
(* window between epoll_wait and its reading of the array long enough for    *)
(* another thread to overwrite the entries.                                 *)
DispatchFairness ==
  \A k \in Connectors : SF_vars(DispatchAccept(k)) /\ SF_vars(DispatchClient(k))

SharedFairSpec == FairSpec /\ DispatchFairness

-----------------------------------------------------------------------------
TypeOK ==
  /\ running \in [Connectors -> BOOLEAN]
  /\ stopCall \in [Connectors -> {"unstarted", "started", "joining", "stopped"}]
  /\ pc \in [Connectors -> PcStates]
  /\ signalled \in [Connectors -> BOOLEAN]
  /\ events \in [1 .. MaxEvents -> Entries]
  /\ numFds \in [Connectors -> 0 .. MaxEvents]
  /\ index \in [Connectors -> Nat]
  /\ fd \in [Connectors -> Fds \cup {NoFd}]
  /\ connectedClients \in [Connectors -> [Fds -> Peers \cup {NoPeer}]]
  /\ file \in [Fds -> Peers \cup {NoPeer}]
  /\ conn \in [Peers -> ConnStates]
  /\ peerOpen \in [Peers -> BOOLEAN]
  /\ unread \in [Peers -> Nat]
  /\ buffered \in [Peers -> Nat]
  /\ sent \in [Peers -> Nat]
  /\ handled \in [Peers -> Nat]
  /\ opened \in [Peers -> Nat]
  /\ released \in [Peers -> Nat]

(* A descriptor in the map of a connector is the socket of that very        *)
(* client, still open: no thread reads or closes another client's socket    *)
(* through a recycled number, although the events array is shared.          *)
DescriptorsOwned ==
  \A k \in Connectors, f \in Fds :
    connectedClients[k][f] # NoPeer =>
      /\ file[f] = connectedClients[k][f]
      /\ target[file[f]] = k
      /\ conn[file[f]] = "open"

(* Every open connection is in the map of its connector, so events for it   *)
(* are served and shutdown() finds it; a dead thread leaves none behind.    *)
(* handleNewConnection is called once per accepted connection, and          *)
(* handleConnectionShutdown exactly once for each that was killed, however   *)
(* end of file, write errors and shutdown() race for the same client.        *)
ConnectionsPaired ==
  \A p \in Peers :
    /\ conn[p] = "open" =>
         \E f \in Fds : file[f] = p /\ connectedClients[target[p]][f] = p
    /\ pc[target[p]] = "dead" => conn[p] \notin {"open", "backlog"}
    /\ opened[p] = IF conn[p] \in {"open", "killed"} THEN 1 ELSE 0
    /\ released[p] = IF conn[p] = "killed" THEN 1 ELSE 0

(* As long as a connection is open, everything its peer wrote is in the     *)
(* socket, in the client's input buffer, or was handled: no request is lost, *)
(* handled twice or credited to another client.                             *)
RequestsConserved ==
  \A p \in Peers :
    conn[p] \in {"backlog", "open"} => sent[p] = unread[p] + buffered[p] + handled[p]

(* With one connector in the process the thread enters read() only when the *)
(* socket has something to deliver.  Two connectors sharing `events` do not  *)
(* have this property: an entry another thread left in the array may name a  *)
(* descriptor this connector has just accepted.                             *)
BlockedInRead(k) ==
  pc[k] = "read" /\ file[fd[k]] # NoPeer /\ ~Readable(file[fd[k]])

ReadNeverBlocks == \A k \in Connectors : ~BlockedInRead(k)

(* stop() joins the thread, and so returns.  With several connectors the    *)
(* one thing that can keep it from returning is a read() on a descriptor     *)
(* found through a stale entry.                                             *)
StopReturns ==
  \A k \in Connectors :
    stopCall[k] = "joining" ~> (stopCall[k] = "stopped" \/ BlockedInRead(k))

(* A request sent on an open connection is handled, unless the connection   *)
(* is killed, the connector is being stopped, or its thread is blocked as    *)
(* above.                                                                   *)
EveryRequestHandled ==
  \A p \in Peers : \A n \in 1 .. MaxRequests :
    (conn[p] = "open" /\ sent[p] >= n) ~>
      (handled[p] >= n \/ conn[p] = "killed" \/ ~running[target[p]]
         \/ BlockedInRead(target[p]))

(* A queued peer is accepted or refused, unless the descriptor table is     *)
(* full or the thread is blocked as above.                                  *)
EveryPeerAnswered ==
  \A p \in Peers :
    (conn[p] = "backlog" /\ stopCall[target[p]] # "unstarted") ~>
      (conn[p] # "backlog" \/ BlockedInRead(target[p])
         \/ \A f \in Fds : file[f] # NoPeer)

=============================================================================
