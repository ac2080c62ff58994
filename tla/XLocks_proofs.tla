--------------------------- MODULE XLocks_proofs ---------------------------
(***************************************************************************)
(* XLocks cannot deadlock, whatever the number of input threads and        *)
(* whichever threads run.                                                  *)
(***************************************************************************)
EXTENDS XLocks, WellFoundedInduction, TLAPS

-----------------------------------------------------------------------------
(* The nests: what they are made of, and that they are ordered. *)

LEMMA RankType == Rank \in [Locks -> Nat] /\ \A l \in Locks : Rank[l] <= 15
  BY DEF Rank, Locks

LEMMA LocksListed ==
    Locks = {"taskManager", "WINDOW_MANAGER", "PIXMAP_MANAGER", "DRAWABLE_MANAGER",
             "GRAPHIC_CONTEXT_MANAGER", "INPUT_DEVICE", "CURSOR_MANAGER", "SHMSEGMENT_MANAGER",
             "renderLock", "fences", "events", "shmOutputStream", "shmemories", "outputStream",
             "actions", "inputControls"}
  BY DEF Rank, Locks

LEMMA CoreLocksTyped == CoreLocks \subseteq Seq(Locks)
  BY LocksListed DEF CoreLocks, WINDOW, PIXMAP, DRAWABLE, GC, INPUT, CURSOR, SHM, Lockables

LEMMA RequestsTyped ==
    /\ CoreRequests \subseteq Seq(Locks)
    /\ MapRequests \subseteq Seq(Locks)
    /\ ClientLifecycle \subseteq Seq(Locks)
    /\ DRI3Requests \subseteq Seq(Locks)
    /\ PresentRequests \subseteq Seq(Locks)
    /\ MITSHMRequests \subseteq Seq(Locks)
    /\ SyncRequests \subseteq Seq(Locks)
  <1> USE LocksListed DEF WINDOW, PIXMAP, DRAWABLE, GC, INPUT, CURSOR, SHM, Lockables
  <1>1. CoreRequests \subseteq Seq(Locks)
    BY CoreLocksTyped DEF CoreRequests, Around
  <1>2. MapRequests \subseteq Seq(Locks)
    BY DEF MapRequests
  <1>3. ClientLifecycle \subseteq Seq(Locks)
    BY DEF ClientLifecycle
  <1>4. DRI3Requests \subseteq Seq(Locks)
    BY DEF DRI3Requests
  <1>5. PresentRequests \subseteq Seq(Locks)
    BY DEF PresentRequests
  <1>6. MITSHMRequests \subseteq Seq(Locks)
    BY DEF MITSHMRequests
  <1>7. SyncRequests \subseteq Seq(Locks)
    BY DEF SyncRequests
  <1>8. QED
    BY <1>1, <1>2, <1>3, <1>4, <1>5, <1>6, <1>7

LEMMA OthersTyped ==
    /\ InjectedInput \subseteq Seq(Locks)
    /\ TaskManager \subseteq Seq(Locks)
    /\ Interface \subseteq Seq(Locks)
    /\ Renderer \subseteq Seq(Locks)
    /\ FlushFrontbuffer \subseteq Seq(Locks)
    /\ SendThread \subseteq Seq(Locks)
    /\ ReceiveThread \subseteq Seq(Locks)
    /\ SysVSHM \subseteq Seq(Locks)
  BY LocksListed DEF WINDOW, DRAWABLE, INPUT, InjectedInput, TaskManager, Interface, Renderer,
     FlushFrontbuffer, SendThread, ReceiveThread, SysVSHM

LEMMA NestsTyped == \A t \in Threads : Nests[t] \subseteq Seq(Locks)
  BY RequestsTyped, OthersTyped DEF Nests

\* n is taken in order, SHMSEGMENT_MANAGER aside.
Ordered(n) ==
    \A j \in DOMAIN n : \A i \in 1 .. j - 1 :
        (n[i] # SHM /\ n[j] # SHM /\ \A k \in 1 .. j - 1 : n[k] # n[j])
            => Rank[n[i]] < Rank[n[j]]

LEMMA RequestsOrdered ==
    /\ \A n \in CoreRequests : Ordered(n)
    /\ \A n \in MapRequests : Ordered(n)
    /\ \A n \in ClientLifecycle : Ordered(n)
    /\ \A n \in DRI3Requests : Ordered(n)
    /\ \A n \in PresentRequests : Ordered(n)
    /\ \A n \in MITSHMRequests : Ordered(n)
    /\ \A n \in SyncRequests : Ordered(n)
  <1> USE DEF WINDOW, PIXMAP, DRAWABLE, GC, INPUT, CURSOR, SHM, Lockables, Rank, Ordered
  <1>1. ASSUME NEW n \in CoreRequests PROVE Ordered(n)
    <2>1. PICK m \in CoreLocks : n = Append(m, "outputStream")
      BY <1>1 DEF CoreRequests, Around
    <2>2. m \in Seq(Locks)
      BY CoreLocksTyped
    <2>3. /\ Ordered(m)
          /\ \A k \in DOMAIN m : Rank[m[k]] < Rank["outputStream"]
      <3>1. CASE m = Lockables
        BY <3>1
      <3>2. CASE m \in {<<WINDOW, DRAWABLE, INPUT, CURSOR>>, <<WINDOW, DRAWABLE, INPUT>>}
        BY <3>2
      <3>3. CASE m \in {<<WINDOW, INPUT, CURSOR>>, <<PIXMAP, DRAWABLE, GC>>,
                        <<PIXMAP, DRAWABLE, CURSOR>>}
        BY <3>3
      <3>4. CASE m \in {<<WINDOW, CURSOR>>, <<WINDOW, INPUT>>, <<WINDOW, DRAWABLE>>,
                        <<PIXMAP, DRAWABLE>>, <<DRAWABLE, GC>>}
        BY <3>4
      <3>5. CASE m \in {<<WINDOW>>, <<GC>>, <<INPUT>>, <<>>}
        BY <3>5
      <3>6. QED
        BY <3>1, <3>2, <3>3, <3>4, <3>5, Zenon DEF CoreLocks
    <2> HIDE DEF WINDOW, PIXMAP, DRAWABLE, GC, INPUT, CURSOR, SHM, Lockables, Rank, Ordered
    <2>4. DOMAIN n = 1 .. Len(m) + 1 /\ DOMAIN m = 1 .. Len(m) /\ Len(m) \in Nat
      BY <2>1, <2>2
    <2>5. n[Len(m) + 1] = "outputStream" /\ \A k \in 1 .. Len(m) : n[k] = m[k]
      BY <2>1, <2>2
    <2>6. ASSUME NEW j \in DOMAIN n, NEW i \in 1 .. j - 1,
                 n[i] # SHM, n[j] # SHM, \A k \in 1 .. j - 1 : n[k] # n[j]
          PROVE  Rank[n[i]] < Rank[n[j]]
      <3>1. CASE j = Len(m) + 1
        BY <3>1, <2>2, <2>3, <2>4, <2>5, <2>6
      <3>2. CASE j \in 1 .. Len(m)
        BY <3>2, <2>2, <2>3, <2>4, <2>5, <2>6 DEF Ordered
      <3>3. QED
        BY <3>1, <3>2, <2>4
    <2>7. QED
      BY <2>6 DEF Ordered
  <1>2. \A n \in MapRequests : Ordered(n)
    BY DEF MapRequests
  <1>3. \A n \in ClientLifecycle : Ordered(n)
    BY DEF ClientLifecycle
  <1>4. \A n \in DRI3Requests : Ordered(n)
    BY DEF DRI3Requests
  <1>5. \A n \in PresentRequests : Ordered(n)
    BY DEF PresentRequests
  <1>6. \A n \in MITSHMRequests : Ordered(n)
    BY DEF MITSHMRequests
  <1>7. \A n \in SyncRequests : Ordered(n)
    BY DEF SyncRequests
  <1>8. QED
    BY <1>1, <1>2, <1>3, <1>4, <1>5, <1>6, <1>7

LEMMA OthersOrdered ==
    /\ \A n \in InjectedInput : Ordered(n)
    /\ \A n \in TaskManager : Ordered(n)
    /\ \A n \in Interface : Ordered(n)
    /\ \A n \in Renderer : Ordered(n)
    /\ \A n \in FlushFrontbuffer : Ordered(n)
    /\ \A n \in SendThread : Ordered(n)
    /\ \A n \in ReceiveThread : Ordered(n)
    /\ \A n \in SysVSHM : Ordered(n)
  <1> USE DEF WINDOW, DRAWABLE, INPUT, SHM, Rank, Ordered
  <1>1. \A n \in InjectedInput : Ordered(n)
    BY DEF InjectedInput
  <1>2. \A n \in TaskManager : Ordered(n)
    BY DEF TaskManager
  <1>3. \A n \in Interface : Ordered(n)
    BY DEF Interface
  <1>4. \A n \in Renderer : Ordered(n)
    BY <1>1 DEF Renderer
  <1>5. \A n \in FlushFrontbuffer : Ordered(n)
    BY DEF FlushFrontbuffer
  <1>6. \A n \in SendThread : Ordered(n)
    BY DEF SendThread
  <1>7. \A n \in ReceiveThread : Ordered(n)
    BY DEF ReceiveThread
  <1>8. \A n \in SysVSHM : Ordered(n)
    BY DEF SysVSHM
  <1>9. QED
    BY <1>1, <1>2, <1>3, <1>4, <1>5, <1>6, <1>7, <1>8

\* Only the X connector's thread uses SHMSEGMENT_MANAGER.
LEMMA SegmentsUnshared == SHM \notin Shared
  <1> USE DEF WINDOW, DRAWABLE, INPUT, SHM
  <1>1. ASSUME NEW t \in Threads, t # "epoll", NEW n \in Nests[t], NEW k \in DOMAIN n
        PROVE  n[k] # SHM
    <2>1. \A m \in InjectedInput : \A i \in DOMAIN m : m[i] # SHM
      BY DEF InjectedInput
    <2>2. \A m \in TaskManager \cup Interface : \A i \in DOMAIN m : m[i] # SHM
      BY DEF TaskManager, Interface
    <2>3. \A m \in Renderer : \A i \in DOMAIN m : m[i] # SHM
      BY <2>1 DEF Renderer
    <2>4. \A m \in FlushFrontbuffer \cup SendThread \cup ReceiveThread \cup SysVSHM :
             \A i \in DOMAIN m : m[i] # SHM
      BY DEF FlushFrontbuffer, SendThread, ReceiveThread, SysVSHM
    <2>5. n \in InjectedInput \/ n \in TaskManager \cup Interface \/ n \in Renderer
            \/ n \in FlushFrontbuffer \cup SendThread \cup ReceiveThread \cup SysVSHM
      BY <1>1 DEF Nests
    <2>6. QED
      BY <2>1, <2>2, <2>3, <2>4, <2>5
  <1>2. QED
    BY <1>1 DEF Shared, Uses

\* Shared locks are taken in one order, on every thread.
THEOREM OrderCorrect == LocksOrdered
  <1>1. \A t \in Threads : \A n \in Nests[t] : Ordered(n)
    BY RequestsOrdered, OthersOrdered DEF Nests
  <1>2. QED
    BY <1>1, SegmentsUnshared DEF LocksOrdered, Ordered

-----------------------------------------------------------------------------
(* Deadlock. *)

\* What TypeOK says of one thread.
Nested(t) ==
    /\ held[t] \in Seq(Locks)
    /\ \E n \in Nests[t] :
         /\ On(t, n)
         /\ want[t] # None => /\ Len(held[t]) < Len(n)
                              /\ want[t] = n[Len(held[t]) + 1]
                              /\ ~Holds(t, want[t])

\* Two threads never hold the same lock.
Exclusive == \A t, u \in Running : \A l \in Locks : Holds(t, l) /\ Holds(u, l) => t = u

\* Threads are on their nests, and locks exclude: what is blocked on is not held, because
\* somebody else holds it.
IInv == /\ held = [t \in Running |-> held[t]]
        /\ want = [t \in Running |-> want[t]]
        /\ \A t \in Running : Nested(t)
        /\ Exclusive

LEMMA InvInit == Init => IInv
  <1> SUFFICES ASSUME Init PROVE IInv
    OBVIOUS
  <1>1. \A t \in Running : Nests[t] # {}
    BY RunningAssumption, ThreadAssumption
       DEF Nests, Threads, SyncRequests, SysVSHM, FlushFrontbuffer, Renderer, SendThread,
           ReceiveThread, Interface
  <1>2. ASSUME NEW t \in Running PROVE Nested(t)
    <2>1. PICK n \in Nests[t] : TRUE
      BY <1>1
    <2>2. n \in Seq(Locks)
      BY NestsTyped, RunningAssumption
    <2>3. held[t] = <<>> /\ want[t] = None
      BY DEF Init
    <2>4. QED
      BY <2>2, <2>3 DEF On, Nested
  <1>3. Exclusive
    BY DEF Init, Exclusive, Holds
  <1>4. QED
    BY <1>2, <1>3 DEF IInv, Init

\* A step of t that leaves u alone leaves u on its nest.
LEMMA OtherNested ==
    ASSUME NEW u \in Running, Nested(u), held'[u] = held[u], want'[u] = want[u]
    PROVE  Nested(u)'
  BY DEF Nested, On, Holds

LEMMA Blocked ==
    ASSUME IInv, NEW t \in Running, NEW n \in Nests[t], On(t, n), want[t] = None,
           Len(held[t]) < Len(n), ~Grantable(t, n[Len(held[t]) + 1]),
           want' = [want EXCEPT ![t] = n[Len(held[t]) + 1]], UNCHANGED held
    PROVE  IInv'
  <1>1. n \in Seq(Locks) /\ held[t] \in Seq(Locks)
    BY NestsTyped, RunningAssumption DEF IInv, Nested
  <1>2. n[Len(held[t]) + 1] \in Locks
    BY <1>1
  <1>3. ~Holds(t, n[Len(held[t]) + 1])
    BY <1>2 DEF Grantable, IInv, Exclusive
  <1>4. want'[t] = n[Len(held[t]) + 1]
    BY DEF IInv
  <1>5. Nested(t)'
    BY <1>1, <1>3, <1>4 DEF Nested, On, Holds
  <1>6. ASSUME NEW u \in Running, u # t PROVE Nested(u)'
    BY <1>6, OtherNested DEF IInv
  <1>7. Exclusive'
    BY DEF IInv, Exclusive, Holds
  <1>8. QED
    BY <1>5, <1>6, <1>7 DEF IInv

LEMMA Granted ==
    ASSUME IInv, NEW t \in Running, NEW n \in Nests[t], On(t, n),
           Len(held[t]) < Len(n), Grantable(t, n[Len(held[t]) + 1]),
           held' = [held EXCEPT ![t] = Append(@, n[Len(held[t]) + 1])],
           want' = [want EXCEPT ![t] = None]
    PROVE  IInv'
  <1>1. n \in Seq(Locks) /\ held[t] \in Seq(Locks)
    BY NestsTyped, RunningAssumption DEF IInv, Nested
  <1>2. n[Len(held[t]) + 1] \in Locks
    BY <1>1
  <1>3. held'[t] = Append(held[t], n[Len(held[t]) + 1]) /\ want'[t] = None
    BY DEF IInv
  <1>4. \A u \in Running : u # t => held'[u] = held[u] /\ want'[u] = want[u]
    BY DEF IInv
  <1>5. Nested(t)'
    BY <1>1, <1>2, <1>3 DEF Nested, On
  <1>6. ASSUME NEW u \in Running, u # t PROVE Nested(u)'
    BY <1>4, <1>6, OtherNested DEF IInv
  <1>7. \A l \in Locks : Holds(t, l)' => Holds(t, l) \/ l = n[Len(held[t]) + 1]
    BY <1>1, <1>2, <1>3 DEF Holds
  <1>8. \A u \in Running : \A l \in Locks : u # t => (Holds(u, l)' <=> Holds(u, l))
    BY <1>4 DEF Holds
  <1>9. Exclusive'
    BY <1>7, <1>8 DEF IInv, Exclusive, Grantable
  <1>10. QED
    BY <1>5, <1>6, <1>9 DEF IInv

LEMMA Released ==
    ASSUME IInv, NEW t \in Running, Unlock(t)
    PROVE  IInv'
  <1>1. PICK n \in Nests[t] : On(t, n)
    BY DEF IInv, Nested
  <1>2. n \in Seq(Locks) /\ held[t] \in Seq(Locks) /\ held[t] # <<>> /\ want[t] = None
    BY NestsTyped, RunningAssumption DEF IInv, Nested, Unlock
  <1>3. held'[t] = SubSeq(held[t], 1, Len(held[t]) - 1) /\ want'[t] = None
    BY <1>2 DEF IInv, Unlock
  <1>4. \A u \in Running : u # t => held'[u] = held[u] /\ want'[u] = want[u]
    BY DEF IInv, Unlock
  <1>5. /\ held'[t] \in Seq(Locks)
        /\ Len(held'[t]) = Len(held[t]) - 1
        /\ \A k \in 1 .. Len(held'[t]) : held'[t][k] = held[t][k]
    BY <1>2, <1>3
  <1>6. Nested(t)'
    <2>1. On(t, n)'
      BY <1>1, <1>2, <1>5 DEF On
    <2>2. QED
      BY <2>1, <1>3, <1>5 DEF Nested
  <1>7. ASSUME NEW u \in Running, u # t PROVE Nested(u)'
    BY <1>4, <1>7, OtherNested DEF IInv
  <1>8. \A u \in Running : \A l \in Locks : Holds(u, l)' => Holds(u, l)
    BY <1>2, <1>4, <1>5 DEF Holds
  <1>9. Exclusive'
    BY <1>8 DEF IInv, Exclusive
  <1>10. QED
    BY <1>6, <1>7, <1>9 DEF IInv, Unlock

LEMMA InvStep == IInv /\ [Next]_vars => IInv'
  <1> SUFFICES ASSUME IInv, [Next]_vars PROVE IInv'
    OBVIOUS
  <1>1. ASSUME NEW t \in Running, Lock(t) PROVE IInv'
    <2>1. want[t] = None /\ want = [want EXCEPT ![t] = None]
      BY <1>1 DEF Lock, IInv
    <2>2. PICK n \in Nests[t] :
              /\ On(t, n)
              /\ Len(held[t]) < Len(n)
              /\ \/ /\ Grantable(t, n[Len(held[t]) + 1])
                    /\ held' = [held EXCEPT ![t] = Append(@, n[Len(held[t]) + 1])]
                    /\ UNCHANGED want
                 \/ /\ ~Grantable(t, n[Len(held[t]) + 1])
                    /\ want' = [want EXCEPT ![t] = n[Len(held[t]) + 1]]
                    /\ UNCHANGED held
      BY <1>1 DEF Lock
    <2>3. QED
      BY <2>1, <2>2, Granted, Blocked
  <1>2. ASSUME NEW t \in Running, Acquire(t) PROVE IInv'
    <2>1. PICK n \in Nests[t] : On(t, n) /\ Len(held[t]) < Len(n)
                                  /\ want[t] = n[Len(held[t]) + 1]
      BY <1>2 DEF IInv, Nested, Acquire
    <2>2. QED
      BY <1>2, <2>1, Granted DEF Acquire
  <1>3. ASSUME NEW t \in Running, Unlock(t) PROVE IInv'
    BY <1>3, Released
  <1>4. CASE UNCHANGED vars
    BY <1>4 DEF vars, IInv, Nested, Exclusive, On, Holds
  <1>5. QED
    BY <1>1, <1>2, <1>3, <1>4 DEF Next

\* Along the nest it is on, a thread blocks on a lock that ranks above every lock it holds, as
\* far as other threads use them.
LEMMA Climbs ==
    ASSUME IInv, NEW u \in Running, want[u] # None, want[u] \in Shared,
           NEW l \in Shared, Holds(u, l)
    PROVE  Rank[l] < Rank[want[u]]
  <1>1. PICK n \in Nests[u] : /\ On(u, n)
                              /\ Len(held[u]) < Len(n)
                              /\ want[u] = n[Len(held[u]) + 1]
                              /\ ~Holds(u, want[u])
    BY DEF IInv, Nested
  <1>2. n \in Seq(Locks) /\ held[u] \in Seq(Locks) /\ u \in Threads
    BY NestsTyped, RunningAssumption DEF IInv, Nested
  <1>3. PICK i \in 1 .. Len(held[u]) : n[i] = l
    BY <1>1 DEF Holds, On
  <1>4. \A k \in 1 .. Len(held[u]) : n[k] # n[Len(held[u]) + 1]
    BY <1>1 DEF Holds, On
  <1>5. QED
    BY <1>1, <1>2, <1>3, <1>4, OrderCorrect DEF LocksOrdered

\* What t is blocked on and another thread u holds is a lock that both use.
LEMMA WaitShared ==
    ASSUME IInv, NEW t \in Running, NEW u \in Running, t # u, want[t] # None, Holds(u, want[t])
    PROVE  want[t] \in Shared
  <1>1. PICK n \in Nests[t] : want[t] = n[Len(held[t]) + 1] /\ Len(held[t]) < Len(n)
    BY DEF IInv, Nested
  <1>2. PICK m \in Nests[u] : On(u, m)
    BY DEF IInv, Nested
  <1>3. n \in Seq(Locks) /\ m \in Seq(Locks) /\ held[t] \in Seq(Locks) /\ held[u] \in Seq(Locks)
        /\ t \in Threads /\ u \in Threads
    BY NestsTyped, RunningAssumption DEF IInv, Nested
  <1>4. Uses(t, want[t]) /\ want[t] \in Locks
    BY <1>1, <1>3 DEF Uses
  <1>5. Uses(u, want[t])
    BY <1>2, <1>3 DEF Uses, Holds, On
  <1>6. QED
    BY <1>3, <1>4, <1>5 DEF Shared

LEMMA NoCycle == IInv => NoDeadlock
  <1> SUFFICES ASSUME IInv,
                      NEW T \in SUBSET Running, T # {},
                      \A t \in T : \E u \in T \ {t} : want[t] # None /\ Holds(u, want[t])
               PROVE  FALSE
    BY DEF NoDeadlock
  <1> DEFINE Slack == {15 - Rank[want[t]] : t \in T}
  <1>1. \A t \in T : want[t] \in Shared /\ want[t] \in Locks
    BY WaitShared DEF Shared
  <1>2. Slack \subseteq Nat /\ Slack # {}
    BY <1>1, RankType
  <1>3. PICK x \in Slack : \A y \in Slack : ~(<<y, x>> \in OpToRel(<, Nat))
    BY <1>2, WFMin, NatLessThanWellFounded
  <1>4. \A y \in Slack : ~(y < x)
    BY <1>2, <1>3 DEF OpToRel
  <1>5. PICK t \in T : x = 15 - Rank[want[t]]
    BY <1>3
  <1>6. PICK u \in T : u # t /\ Holds(u, want[t]) /\ want[u] # None
    BY <1>5
  <1>7. Rank[want[t]] < Rank[want[u]]
    BY <1>1, <1>6, Climbs
  <1>8. 15 - Rank[want[u]] \in Slack
    BY <1>6
  <1>9. QED
    BY <1>1, <1>4, <1>5, <1>7, <1>8, RankType

\* No set of threads is ever locked up: NoDeadlock of the runs, for any number of input threads
\* and any choice of the threads that run.
THEOREM DeadlockFree == Spec => [](TypeOK /\ NoDeadlock)
  <1>1. IInv => TypeOK
    BY DEF IInv, Nested, TypeOK
  <1>2. QED
    BY <1>1, InvInit, InvStep, NoCycle, PTL DEF Spec
=============================================================================
