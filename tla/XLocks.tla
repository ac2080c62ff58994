------------------------------- MODULE XLocks -------------------------------
(***************************************************************************)
(* The locks that the application's threads nest, and the order they nest  *)
(* them in.  XServer.java keeps one ReentrantLock per Lockable; around and *)
(* inside them the code takes monitors: a drawable's renderLock, the       *)
(* fences of SYNC, the events of PRESENT, a client's output stream, the    *)
(* action queue of WinHandler, the dialog and view monitors of the         *)
(* interface and the tables of the shared-memory server.  Nobody checks    *)
(* the order: a thread that takes two of them the wrong way round works    *)
(* until another thread meets it half way.                                 *)
(*                                                                         *)
(* A nest is the sequence of locks on a path through the code, outermost   *)
(* first.  A thread may at any moment go one lock deeper along one of its  *)
(* nests, or give back the innermost lock.  The locks of one kind that     *)
(* belong to different objects (drawables, streams) are one lock here: no  *)
(* path of the code holds two of them.  Monitors inside which nothing else *)
(* is locked and no thread waits (Atom, ResourceIDs, XForm) are left out.  *)
(***************************************************************************)
EXTENDS Sequences, Integers

CONSTANTS InputThreads,     \* the threads that inject input: the interface and its timers
          Running,          \* the threads that run: a component may be absent
          None

\* The enum Lockable, in its order.
Lockables == <<"WINDOW_MANAGER", "PIXMAP_MANAGER", "DRAWABLE_MANAGER", "GRAPHIC_CONTEXT_MANAGER",
               "INPUT_DEVICE", "CURSOR_MANAGER", "SHMSEGMENT_MANAGER">>

\* Every lock, ranked: the order that LocksOrdered says all shared locks are taken in.
Rank == [taskManager |-> 0, WINDOW_MANAGER |-> 1, PIXMAP_MANAGER |-> 2, DRAWABLE_MANAGER |-> 3,
         GRAPHIC_CONTEXT_MANAGER |-> 4, INPUT_DEVICE |-> 5, CURSOR_MANAGER |-> 6,
         SHMSEGMENT_MANAGER |-> 7, renderLock |-> 8, fences |-> 9, events |-> 10,
         shmOutputStream |-> 11, shmemories |-> 12, outputStream |-> 13, actions |-> 14,
         inputControls |-> 15]
Locks == DOMAIN Rank

ASSUME ThreadAssumption ==
    /\ InputThreads \cap {"epoll", "sysvshm", "virgl", "gl", "send", "receive"} = {}
    /\ None \notin Locks

Threads == {"epoll", "sysvshm", "virgl", "gl", "send", "receive"} \cup InputThreads

ASSUME RunningAssumption == Running \subseteq Threads

WINDOW == "WINDOW_MANAGER"
PIXMAP == "PIXMAP_MANAGER"
DRAWABLE == "DRAWABLE_MANAGER"
GC == "GRAPHIC_CONTEXT_MANAGER"
INPUT == "INPUT_DEVICE"
CURSOR == "CURSOR_MANAGER"
SHM == "SHMSEGMENT_MANAGER"

\* The nests of a set of locks taken in one go, each followed by an inner lock.
Around(nests, inner) == {Append(n, l) : n \in nests, l \in inner}

-----------------------------------------------------------------------------
(* The thread of the X connector, in the handlers of requests. *)

\* lock(...) around the core requests.
CoreLocks ==
    {<<WINDOW>>, <<WINDOW, DRAWABLE, INPUT, CURSOR>>, <<WINDOW, CURSOR>>,
     <<WINDOW, DRAWABLE, INPUT>>, <<WINDOW, INPUT>>, <<WINDOW, DRAWABLE>>, Lockables,
     <<WINDOW, INPUT, CURSOR>>, <<PIXMAP, DRAWABLE>>, <<PIXMAP, DRAWABLE, GC>>, <<GC>>,
     <<DRAWABLE, GC>>, <<PIXMAP, DRAWABLE, CURSOR>>, <<INPUT>>, <<>>}

\* Replies, errors and events take a client's output stream inside.
CoreRequests == Around(CoreLocks, {"outputStream"})

\* Mapping a window assigns its process an affinity and, with the focus, brings it to the front.
MapRequests == {<<WINDOW, INPUT, "actions">>}

\* A client object is made and its resources are freed under all locks.
ClientLifecycle == {Append(Lockables, "outputStream")}

DRI3Requests == {<<DRAWABLE, "outputStream">>, <<WINDOW, PIXMAP, DRAWABLE>>}

\* The copy and both notifications happen under the renderLock of the window's content.
PresentRequests ==
    {<<WINDOW, PIXMAP, "renderLock", "fences">>,
     <<WINDOW, PIXMAP, "renderLock", "events", "outputStream">>,
     <<WINDOW, "events">>}

\* PUT_IMAGE is the one request that takes its locks in an order the enum does not have.
MITSHMRequests == {<<SHM, "shmemories">>, <<SHM, DRAWABLE, GC>>}

SyncRequests == {<<"fences">>}

-----------------------------------------------------------------------------
(* The other threads. *)

\* Injected input: events to the clients, or actions for Windows in relative mode; a button
\* press takes the same two locks once more to move the focus.
InjectedInput ==
    {<<WINDOW, INPUT, "outputStream">>, <<WINDOW, INPUT, "actions">>,
     <<WINDOW, INPUT, WINDOW, INPUT, "actions">>}

\* The task manager polls the processes and looks their windows up under its own monitor.
TaskManager == {<<"taskManager", "actions">>, <<"taskManager", WINDOW>>}

\* Actions added by the interface, and its views' own monitor.
Interface == {<<"actions">>, <<"inputControls">>}

\* A fault: updateScene takes its two locks the wrong way round.
RendererSwapped == {<<DRAWABLE, WINDOW>>, <<DRAWABLE, "renderLock">>} \cup InjectedInput

\* The renderer's thread; with a headset it injects the controllers' input as well.
Renderer == {<<WINDOW, DRAWABLE>>, <<DRAWABLE, "renderLock">>} \cup InjectedInput

\* The VirGL server's thread replaces a drawable's data.
FlushFrontbuffer == {<<"renderLock">>}

\* WinHandler's two threads run actions and handle packets under the queue's monitor; a handler
\* adds actions, and reads the profile of the input controls.
SendThread == {<<"actions">>}
ReceiveThread == {<<"actions", "actions">>, <<"actions", "inputControls">>}

\* The thread of the shared-memory server.
SysVSHM == {<<"shmemories">>, <<"shmOutputStream", "shmemories">>}

Nests == [t \in Threads |->
            CASE t = "epoll"   -> CoreRequests \cup MapRequests \cup ClientLifecycle \cup DRI3Requests
                                    \cup PresentRequests \cup MITSHMRequests \cup SyncRequests
              [] t = "sysvshm" -> SysVSHM
              [] t = "virgl"   -> FlushFrontbuffer
              [] t = "gl"      -> Renderer
              [] t = "send"    -> SendThread
              [] t = "receive" -> ReceiveThread
              [] OTHER         -> InjectedInput \cup TaskManager \cup Interface]

-----------------------------------------------------------------------------
VARIABLES held,   \* the locks each thread holds, outermost first; an entry per lock() call
          want    \* the lock each thread is blocked on

vars == <<held, want>>

\* Thread t is on its way along nest n.
On(t, n) == Len(held[t]) <= Len(n) /\ \A k \in 1 .. Len(held[t]) : held[t][k] = n[k]

Holds(t, l) == \E k \in 1 .. Len(held[t]) : held[t][k] = l

\* ReentrantLock.lock and monitor entry: granted unless another thread holds the lock.
Grantable(t, l) == \A u \in Running \ {t} : ~Holds(u, l)

Init ==
    /\ held = [t \in Running |-> <<>>]
    /\ want = [t \in Running |-> None]

\* The next lock on one of the thread's nests: taken, or the thread blocks on it.
Lock(t) ==
    /\ want[t] = None
    /\ \E n \in Nests[t] :
         /\ On(t, n)
         /\ Len(held[t]) < Len(n)
         /\ LET l == n[Len(held[t]) + 1] IN
              IF Grantable(t, l)
                THEN held' = [held EXCEPT ![t] = Append(@, l)] /\ UNCHANGED want
                ELSE want' = [want EXCEPT ![t] = l] /\ UNCHANGED held

\* A blocked thread gets its lock.
Acquire(t) ==
    /\ want[t] # None
    /\ Grantable(t, want[t])
    /\ held' = [held EXCEPT ![t] = Append(@, want[t])]
    /\ want' = [want EXCEPT ![t] = None]

\* close() and monitor exit: the innermost lock first.
Unlock(t) ==
    /\ want[t] = None
    /\ held[t] # <<>>
    /\ held' = [held EXCEPT ![t] = SubSeq(@, 1, Len(@) - 1)]
    /\ UNCHANGED want

Next == \E t \in Running : Lock(t) \/ Acquire(t) \/ Unlock(t)

Spec == Init /\ [][Next]_vars

-----------------------------------------------------------------------------
(* Properties. *)

\* A thread is somewhere on one of its nests, and blocks only on the next lock of that nest and
\* only on one it does not hold: locks nest, and reenter (XServer.java:94-134).
TypeOK ==
    \A t \in Running :
        /\ held[t] \in Seq(Locks)
        /\ \E n \in Nests[t] :
             /\ On(t, n)
             /\ want[t] # None => /\ Len(held[t]) < Len(n)
                                  /\ want[t] = n[Len(held[t]) + 1]
                                  /\ ~Holds(t, want[t])

\* There is never a set of threads each blocked on a lock that another of them holds: the server,
\* the renderer, the interface and WinHandler cannot lock each other up.
NoDeadlock ==
    \A T \in SUBSET Running :
        T # {} => ~ \A t \in T : \E u \in T \ {t} : want[t] # None /\ Holds(u, want[t])

Uses(t, l) == \E n \in Nests[t] : \E k \in DOMAIN n : n[k] = l

Shared == {l \in Locks : \E t, u \in Threads : t # u /\ Uses(t, l) /\ Uses(u, l)}

\* Along every nest, the locks that more than one thread uses and that are not merely reentered
\* are taken in one order.  SHMSEGMENT_MANAGER, which PUT_IMAGE of MIT-SHM takes before locks
\* that come before it, is no exception as long as one thread alone uses it
\* (MITSHMExtension.java:127).
LocksOrdered ==
    \A t \in Threads : \A n \in Nests[t] : \A j \in DOMAIN n : \A i \in 1 .. j - 1 :
        (n[i] \in Shared /\ n[j] \in Shared /\ \A k \in 1 .. j - 1 : n[k] # n[j])
            => Rank[n[i]] < Rank[n[j]]

=============================================================================
