-------------------------- MODULE ProotTracees_proofs --------------------------
(***************************************************************************)
(* Proofs about ProotTracees, for any number of processes, any calls the     *)
(* guests make and any number of kills.                                     *)
(*                                                                         *)
(* A round of PRoot composes handlers that take a state and return one.  The *)
(* first parts break each handler into a few elementary changes of one       *)
(* process; the next show that each of these keeps the invariant, then that  *)
(* each handler does, and last that each step of the system does.           *)
(***************************************************************************)
EXTENDS ProotTracees, FiniteSetTheorems, TLAPS

-----------------------------------------------------------------------------
(* What PRoot and the kernel know of a process.                             *)

Tracee ==
  [list : {"none", "tracees", "zombie"}, exe : BOOLEAN,
   sigstop : {"IGNORED", "ALLOWED", "PENDING"}, running : BOOLEAN, terminated : BOOLEAN,
   status : {"enter", "exit"}, parent : Pids \cup {Nobody}, chain : BOOLEAN,
   ptracer : Pids \cup {Nobody}, options : BOOLEAN, started : BOOLEAN, ignoreCalls : BOOLEAN,
   forProot : Events, forPtracer : Events, reported : BOOLEAN,
   ptracees : 0 .. Cardinality(Pids), waitsIn : {"NOWHERE", "KERNEL", "PROOT"},
   waitPid : Pids \cup {Any, Nobody}]

Process ==
  [proc : Living \cup {"none", "dead", "zombie", "gone"}, event : Events,
   child : Pids \cup {Nobody}, forker : Pids \cup {Nobody}, call : Calls,
   void : BOOLEAN, sigstop : BOOLEAN]

(* y is x, but for fields no part of the invariant is about.                *)
Alike(x, y) ==
  /\ y \in Tracee
  /\ y.list = x.list /\ y.exe = x.exe /\ y.parent = x.parent
  /\ y.ptracer = x.ptracer /\ y.ptracees = x.ptracees /\ y.terminated = x.terminated

Same(x, y) == Alike(x, y) /\ y.forProot = x.forProot /\ y.waitPid = x.waitPid

AlikeK(x, y) ==
  /\ y \in Process
  /\ y.proc = x.proc /\ y.event = x.event /\ y.child = x.child
  /\ y.forker = x.forker /\ y.call = x.call

LEMMA ProcessesNumber ==
  /\ Cardinality(Pids) \in Nat
  /\ 0 \in 0 .. Cardinality(Pids)
BY TraceesAssumption, FS_CardinalityType

LEMMA UnknownType ==
  /\ Unknown \in Tracee
  /\ Unknown.list = "none" /\ ~Unknown.exe /\ Unknown.parent = Nobody
  /\ Unknown.ptracer = Nobody /\ Unknown.ptracees = 0 /\ ~Unknown.terminated
  /\ Unknown.forProot = "none" /\ Unknown.waitPid = Nobody
<1>1. Unknown \in Tracee
  BY ProcessesNumber DEF Unknown, Tracee, Events
<1> QED
  BY <1>1 DEF Unknown

(* Fields that PRoot sets on its own.                                       *)
LEMMA SetFields ==
  ASSUME NEW x \in Tracee, NEW v \in BOOLEAN, NEW w \in BOOLEAN
  PROVE  /\ Same(x, [x EXCEPT !.running = v, !.reported = w])
         /\ Same(x, [x EXCEPT !.chain = v])
         /\ Same(x, [x EXCEPT !.options = v])
         /\ Same(x, [x EXCEPT !.started = v])
         /\ Same(x, [x EXCEPT !.ignoreCalls = v])
<1>1. Same(x, [x EXCEPT !.running = v, !.reported = w])
  BY Zenon DEF Same, Alike, Tracee
<1>2. Same(x, [x EXCEPT !.chain = v])
  BY Zenon DEF Same, Alike, Tracee
<1>3. Same(x, [x EXCEPT !.options = v])
  BY Zenon DEF Same, Alike, Tracee
<1>4. Same(x, [x EXCEPT !.started = v])
  BY Zenon DEF Same, Alike, Tracee
<1>5. Same(x, [x EXCEPT !.ignoreCalls = v])
  BY Zenon DEF Same, Alike, Tracee
<1> QED
  BY <1>1, <1>2, <1>3, <1>4, <1>5

LEMMA SetStates ==
  ASSUME NEW x \in Tracee, NEW v \in {"IGNORED", "ALLOWED", "PENDING"},
         NEW w \in {"NOWHERE", "KERNEL", "PROOT"}, NEW u \in {"enter", "exit"}
  PROVE  /\ Same(x, [x EXCEPT !.sigstop = v])
         /\ Same(x, [x EXCEPT !.waitsIn = w])
         /\ Same(x, [x EXCEPT !.sigstop = v, !.waitsIn = w])
         /\ Same(x, [x EXCEPT !.status = u])
<1>1. Same(x, [x EXCEPT !.sigstop = v])
  BY Zenon DEF Same, Alike, Tracee
<1>2. Same(x, [x EXCEPT !.waitsIn = w])
  BY Zenon DEF Same, Alike, Tracee
<1>3. Same(x, [x EXCEPT !.sigstop = v, !.waitsIn = w])
  BY Zenon DEF Same, Alike, Tracee
<1>4. Same(x, [x EXCEPT !.status = u])
  BY Zenon DEF Same, Alike, Tracee
<1> QED
  BY <1>1, <1>2, <1>3, <1>4

LEMMA SetForPtracer ==
  ASSUME NEW x \in Tracee, NEW v \in Events, NEW w \in BOOLEAN
  PROVE  /\ Same(x, [x EXCEPT !.forPtracer = v])
         /\ Same(x, [x EXCEPT !.forPtracer = v, !.reported = w])
<1>1. Same(x, [x EXCEPT !.forPtracer = v])
  BY Zenon DEF Same, Alike, Tracee
<1>2. Same(x, [x EXCEPT !.forPtracer = v, !.reported = w])
  BY Zenon DEF Same, Alike, Tracee
<1> QED
  BY <1>1, <1>2

LEMMA SetForProot ==
  ASSUME NEW x \in Tracee, NEW v \in Events
  PROVE  LET y == [x EXCEPT !.forProot = v]
         IN  Alike(x, y) /\ y.forProot = v /\ y.waitPid = x.waitPid
  BY Zenon DEF Alike, Tracee

LEMMA SetStarted ==
  ASSUME NEW x \in Tracee, NEW v \in Events, NEW w \in BOOLEAN
  PROVE  LET y == [x EXCEPT !.forProot = v, !.started = w]
         IN  Alike(x, y) /\ y.forProot = v /\ y.waitPid = x.waitPid
  BY Zenon DEF Alike, Tracee

LEMMA SetWaitPid ==
  ASSUME NEW x \in Tracee, NEW v \in Pids \cup {Any, Nobody}
  PROVE  /\ Alike(x, [x EXCEPT !.waitPid = v])
         /\ [x EXCEPT !.waitPid = v].waitPid = v
         /\ [x EXCEPT !.waitPid = v].forProot = x.forProot
  BY Zenon DEF Alike, Tracee

LEMMA SetPtracees ==
  ASSUME NEW x \in Tracee, NEW n \in 0 .. Cardinality(Pids)
  PROVE  LET y == [x EXCEPT !.ptracees = n]
         IN  /\ y \in Tracee
             /\ y.list = x.list /\ y.exe = x.exe /\ y.parent = x.parent
             /\ y.ptracer = x.ptracer /\ y.ptracees = n /\ y.terminated = x.terminated
             /\ y.forProot = x.forProot /\ y.waitPid = x.waitPid
  BY Zenon DEF Tracee

LEMMA SetPtracer ==
  ASSUME NEW x \in Tracee, NEW r \in Pids \cup {Nobody}
  PROVE  LET y == [x EXCEPT !.ptracer = r]
         IN  /\ y \in Tracee
             /\ y.list = x.list /\ y.exe = x.exe /\ y.parent = x.parent
             /\ y.ptracer = r /\ y.ptracees = x.ptracees /\ y.terminated = x.terminated
             /\ y.forProot = x.forProot /\ y.waitPid = x.waitPid
  BY Zenon DEF Tracee

LEMMA SetParent ==
  ASSUME NEW x \in Tracee, NEW r \in Pids \cup {Nobody}
  PROVE  LET y == [x EXCEPT !.parent = r]
         IN  /\ y \in Tracee
             /\ y.list = x.list /\ y.exe = x.exe /\ y.parent = r
             /\ y.ptracer = x.ptracer /\ y.ptracees = x.ptracees /\ y.terminated = x.terminated
             /\ y.forProot = x.forProot /\ y.waitPid = x.waitPid
  BY Zenon DEF Tracee

LEMMA SetTerminated ==
  ASSUME NEW x \in Tracee
  PROVE  LET y == [x EXCEPT !.terminated = TRUE]
         IN  /\ y \in Tracee
             /\ y.list = x.list /\ y.exe = x.exe /\ y.parent = x.parent
             /\ y.ptracer = x.ptracer /\ y.ptracees = x.ptracees /\ y.terminated
             /\ y.forProot = x.forProot /\ y.waitPid = x.waitPid
  BY Zenon DEF Tracee

LEMMA SetBorn ==
  ASSUME NEW x \in Tracee, NEW r \in Pids
  PROVE  LET y == [x EXCEPT !.list = "tracees", !.exe = TRUE, !.parent = r]
         IN  /\ y \in Tracee
             /\ y.list = "tracees" /\ y.exe /\ y.parent = r
             /\ y.ptracer = x.ptracer /\ y.ptracees = x.ptracees /\ y.terminated = x.terminated
             /\ y.forProot = x.forProot /\ y.waitPid = x.waitPid
  BY Zenon DEF Tracee

LEMMA SetStopped ==
  ASSUME NEW x \in Tracee
  PROVE  LET y == [x EXCEPT !.list = "tracees", !.running = FALSE]
         IN  /\ y \in Tracee
             /\ y.list = "tracees" /\ y.exe = x.exe /\ y.parent = x.parent
             /\ y.ptracer = x.ptracer /\ y.ptracees = x.ptracees /\ y.terminated = x.terminated
             /\ y.forProot = x.forProot /\ y.waitPid = x.waitPid
  BY Zenon DEF Tracee

LEMMA SetNotTraced ==
  ASSUME NEW x \in Tracee
  PROVE  LET y == NotTraced(x)
         IN  /\ y \in Tracee
             /\ y.list = x.list /\ y.exe = x.exe /\ y.parent = x.parent
             /\ y.ptracer = Nobody /\ y.ptracees = x.ptracees /\ y.terminated = x.terminated
             /\ y.forProot = "none" /\ y.waitPid = x.waitPid
<1> "none" \in Events
  BY DEF Events
<1> QED
  BY Zenon DEF Tracee, NotTraced

LEMMA SetVoid ==
  ASSUME NEW x \in Process, NEW v \in BOOLEAN
  PROVE  /\ AlikeK(x, [x EXCEPT !.void = v])
         /\ AlikeK(x, [x EXCEPT !.sigstop = v])
<1>1. AlikeK(x, [x EXCEPT !.void = v])
  BY Zenon DEF AlikeK, Process
<1>2. AlikeK(x, [x EXCEPT !.sigstop = v])
  BY Zenon DEF AlikeK, Process
<1> QED
  BY <1>1, <1>2

(* A process that is restarted runs, waits in the kernel, or is at the other *)
(* end of its call.                                                         *)
LEMMA ResumedFacts ==
  ASSUME NEW x \in Process, NEW c \in BOOLEAN
  PROVE  LET y == Resumed(x, c)
         IN  /\ y \in Process
             /\ y.forker = x.forker
             /\ y.call = x.call \/ y.call = NoCall
             /\ y.proc \in {"run", "wait", "stop"}
             /\ y.proc = "stop" => y.event \in {"enter", "exit"}
             /\ y.event # "FORK"
<1> DEFINE y1 == [x EXCEPT !.proc = "wait", !.event = "none"]
           y2 == [x EXCEPT !.proc = "stop", !.event = "exit"]
           y3 == [x EXCEPT !.proc = "stop", !.event = "enter", !.void = FALSE]
           y4(z) == [x EXCEPT !.proc = "run", !.event = "none", !.child = Nobody, !.call = z]
<1>1. NoCall \in Calls /\ x.call \in Calls
  BY DEF NoCall, Calls, Process
<1>2. {"run", "wait", "stop"} \subseteq Living /\ {"none", "enter", "exit"} \subseteq Events
  BY DEF Living, Events
<1>3. /\ y1 \in Process /\ y1.forker = x.forker /\ y1.call = x.call
      /\ y1.proc = "wait" /\ y1.event = "none"
  BY <1>2, Zenon DEF Process
<1>4. /\ y2 \in Process /\ y2.forker = x.forker /\ y2.call = x.call
      /\ y2.proc = "stop" /\ y2.event = "exit"
  BY <1>2, Zenon DEF Process
<1>5. /\ y3 \in Process /\ y3.forker = x.forker /\ y3.call = x.call
      /\ y3.proc = "stop" /\ y3.event = "enter"
  BY <1>2, Zenon DEF Process
<1>6. ASSUME NEW z \in Calls
      PROVE  /\ y4(z) \in Process /\ y4(z).forker = x.forker /\ y4(z).call = z
             /\ y4(z).proc = "run" /\ y4(z).event = "none"
  BY <1>2, Zenon DEF Process
<1>7. \/ Resumed(x, c) \in {y1, y2, y3}
      \/ Resumed(x, c) = y4(x.call)
      \/ Resumed(x, c) = y4(NoCall)
  BY DEF Resumed
<1> HIDE DEF y1, y2, y3, y4
<1> QED
  BY <1>1, <1>3, <1>4, <1>5, <1>6, <1>7

LEMMA KilledFacts ==
  ASSUME NEW x \in Process
  PROVE  LET y == [x EXCEPT !.proc = "dead", !.event = "none", !.child = Nobody]
         IN  /\ y \in Process
             /\ y.forker = x.forker /\ y.call = x.call
             /\ y.proc = "dead" /\ y.event = "none" /\ y.child = Nobody
<1> "none" \in Events
  BY DEF Events
<1> QED
  BY Zenon DEF Process

-----------------------------------------------------------------------------
(* The state a handler works on, and its elementary changes.                *)

States ==
  [t : [Pids -> Tracee], k : [Pids -> Process], keep : BOOLEAN,
   proot : {"alive", "ended", "aborted", "crashed"}]

Put(s, q, x) == [s EXCEPT !.t = [s.t EXCEPT ![q] = x]]
PutK(s, q, y) == [s EXCEPT !.k = [s.k EXCEPT ![q] = y]]
Keep(s, v) == [s EXCEPT !.keep = v]
Becomes(s, v) == [s EXCEPT !.proot = v]

LEMMA StatesFields ==
  ASSUME NEW s \in States
  PROVE  /\ s.t \in [Pids -> Tracee] /\ s.k \in [Pids -> Process]
         /\ s.keep \in BOOLEAN /\ s.proot \in {"alive", "ended", "aborted", "crashed"}
         /\ \A q \in Pids : s.t[q] \in Tracee /\ s.k[q] \in Process
  BY DEF States

LEMMA StatesTypes ==
  ASSUME NEW s \in States, NEW q \in Pids
  PROVE  /\ s.t[q].list \in {"none", "tracees", "zombie"} /\ s.t[q].exe \in BOOLEAN
         /\ s.t[q].parent \in Pids \cup {Nobody} /\ s.t[q].ptracer \in Pids \cup {Nobody}
         /\ s.t[q].ptracees \in Nat /\ s.t[q].ptracees <= Cardinality(Pids)
         /\ s.t[q].chain \in BOOLEAN /\ s.t[q].started \in BOOLEAN
         /\ s.t[q].reported \in BOOLEAN /\ s.t[q].options \in BOOLEAN
         /\ s.t[q].forProot \in Events /\ s.t[q].forPtracer \in Events
         /\ s.t[q].waitPid \in Pids \cup {Any, Nobody}
         /\ s.t[q].sigstop \in {"IGNORED", "ALLOWED", "PENDING"}
         /\ s.k[q].proc \in Living \cup {"none", "dead", "zombie", "gone"}
         /\ s.k[q].event \in Events /\ s.k[q].call \in Calls
         /\ s.k[q].child \in Pids \cup {Nobody} /\ s.k[q].forker \in Pids \cup {Nobody}
<1>1. s.t[q] \in Tracee /\ s.k[q] \in Process
  BY StatesFields
<1>2. \A n \in 0 .. Cardinality(Pids) : n \in Nat /\ n <= Cardinality(Pids)
  BY ProcessesNumber
<1> QED
  BY <1>1, <1>2 DEF Tracee, Process

LEMMA PutFacts ==
  ASSUME NEW s \in States, NEW q \in Pids, NEW x \in Tracee
  PROVE  /\ Put(s, q, x) \in States
         /\ \A e \in Pids : Put(s, q, x).t[e] = IF e = q THEN x ELSE s.t[e]
         /\ Put(s, q, x).k = s.k
         /\ Put(s, q, x).keep = s.keep
         /\ Put(s, q, x).proot = s.proot
  BY DEF Put, States

LEMMA PutKFacts ==
  ASSUME NEW s \in States, NEW q \in Pids, NEW y \in Process
  PROVE  /\ PutK(s, q, y) \in States
         /\ \A e \in Pids : PutK(s, q, y).k[e] = IF e = q THEN y ELSE s.k[e]
         /\ PutK(s, q, y).t = s.t
         /\ PutK(s, q, y).keep = s.keep
         /\ PutK(s, q, y).proot = s.proot
  BY DEF PutK, States

LEMMA KeepFacts ==
  ASSUME NEW s \in States, NEW v \in BOOLEAN
  PROVE  /\ Keep(s, v) \in States
         /\ Keep(s, v).t = s.t /\ Keep(s, v).k = s.k
         /\ Keep(s, v).keep = v /\ Keep(s, v).proot = s.proot
  BY DEF Keep, States

LEMMA BecomesFacts ==
  ASSUME NEW s \in States, NEW v \in {"alive", "ended", "aborted", "crashed"}
  PROVE  /\ Becomes(s, v) \in States
         /\ Becomes(s, v).t = s.t /\ Becomes(s, v).k = s.k
         /\ Becomes(s, v).keep = s.keep /\ Becomes(s, v).proot = v
  BY DEF Becomes, States

-----------------------------------------------------------------------------
(* The invariant, of a state in the round of process p, or between rounds    *)
(* when p is no process.  A process b is one whose fork is being handled.    *)
(* The mode m is "calm" as long as nobody was killed, and "over" once the    *)
(* end of Main has made PRoot kill all it traces.                           *)

Ended(s, q) == s.k[q].proc \in {"zombie", "gone"}
Halted(s, q) == s.k[q].proc \in {"stop", "held"}
Missing(s, q) == s.t[q].list # "tracees" /\ Ended(s, q)

(* A fork PRoot has not handled yet.                                        *)
Forking(s, b, q) ==
  s.k[q].event = "FORK" /\ (s.k[q].proc = "stop" \/ (s.k[q].proc = "held" /\ q = b))

(* A guest and the one that traces it have both been handled; nobody traces  *)
(* itself.                                                                  *)
Tracers(s) ==
  \A e \in Pids : s.t[e].ptracer # Nobody =>
    /\ s.t[e].ptracer # e
    /\ s.t[s.t[e].ptracer].exe
    /\ s.t[e].exe \/ s.t[e].list = "zombie"

Counted(s, x) ==
  \A r \in Pids \ {x} : s.t[r].ptracees = Cardinality(Ptracees(s, r))

(* Only what PRoot has handled and not removed runs a program; what has not  *)
(* been handled yet has neither parent nor tracer.                          *)
Listed(s) ==
  \A e \in Pids :
    /\ s.t[e].list = "zombie" => ~s.t[e].exe /\ Ended(s, e)
    /\ s.t[e].list = "none" => ~s.t[e].exe
    /\ ~s.t[e].exe /\ s.t[e].list # "zombie" => s.t[e].parent = Nobody /\ s.t[e].ptracer = Nobody
    /\ s.t[e].list = "tracees" /\ s.t[e].parent # Nobody =>
         s.t[e].parent # e /\ s.t[s.t[e].parent].exe
    /\ s.t[e].terminated => Ended(s, e)

(* A process that goes on has been handled, but for its first stop.         *)
Stops(s) ==
  \A q \in Pids :
    /\ s.k[q].proc \in {"run", "wait"} => s.t[q].exe
    /\ Halted(s, q) =>
         /\ s.k[q].event \in {"SIGSTOP", "signal", "FORK", "enter", "exit"}
         /\ s.k[q].event # "SIGSTOP" => s.t[q].exe
         /\ s.k[q].event = "FORK" => s.k[q].child \in Pids \ {q} /\ s.k[s.k[q].child].forker = q
    /\ s.k[q].proc = "none" => s.t[q].list = "none" /\ s.k[q].forker = Nobody

(* Calls name processes that PRoot handles, or that are gone.               *)
Named(s) ==
  \A q, c \in Pids : s.k[q].call.pid = c => s.t[c].exe \/ Missing(s, c)

(* A new process is handled with its parent's fork, and not before.         *)
Births(s, b) ==
  /\ \A q \in Pids : Forking(s, b, q) =>
       ~s.t[s.k[q].child].exe /\ s.t[s.k[q].child].list # "zombie"
  /\ \A q, c \in Pids : s.k[c].forker = q =>
       \/ s.t[c].exe \/ Missing(s, c)
       \/ Forking(s, b, q) /\ s.k[q].child = c
       \/ s.k[q].proc = "dead" \/ Ended(s, q)

(* A guest waits for those it traces only while it is stopped; once PRoot    *)
(* has killed all, none it has handled is left.                             *)
Woken(s, m) ==
  /\ m = "calm" => \A r \in Pids : s.t[r].waitPid # Nobody => s.k[r].proc = "held"
  /\ m = "over" => \A q \in Pids : s.k[q].proc \in Living => ~s.t[q].exe

Kept == {"none", "SIGSTOP", "signal", "enter"}

(* Only the event of the round is still to be handled at once.              *)
Pending(s, p) ==
  \A q \in Pids \ {p} : s.t[q].forProot \in Kept /\ ~s.t[q].terminated

Sound(s, p, b, m) ==
  /\ Tracers(s) /\ Listed(s) /\ Stops(s) /\ Named(s) /\ Births(s, b) /\ Woken(s, m)
  /\ Pending(s, p)

(* Changes after which PRoot knows no more than before: a guest loses its    *)
(* parent or its tracer, is forgotten when it is a zombie, or is restarted,  *)
(* which no process is before its fork is handled.                          *)
Loses(s, u, q) ==
  \/ /\ u.t[q].list = s.t[q].list /\ u.t[q].exe = s.t[q].exe
     /\ u.t[q].terminated = s.t[q].terminated
     /\ u.t[q].parent \in {s.t[q].parent, Nobody}
     /\ u.t[q].ptracer \in {s.t[q].ptracer, Nobody}
  \/ s.t[q].list = "zombie" /\ u.t[q] = Unknown

Restarted(x, y) ==
  /\ x.proc = "held"
  /\ y.proc \in {"run", "wait", "stop"} /\ y.event # "FORK"
  /\ y.proc = "stop" => y.event \in {"enter", "exit"}
  /\ y.forker = x.forker
  /\ y.call \in {x.call, NoCall}

Moves(s, u, p, b) ==
  /\ u \in States
  /\ \A q \in Pids :
       /\ Loses(s, u, q)
       /\ u.t[q].forProot = s.t[q].forProot \/ q = p \/ u.t[q].forProot \in Kept
       /\ \/ /\ AlikeK(s.k[q], u.k[q])
             /\ u.t[q].waitPid \in {s.t[q].waitPid, Nobody} \/ s.k[q].proc = "held"
          \/ /\ Restarted(s.k[q], u.k[q])
             /\ s.t[q].exe /\ q # b /\ u.t[q].waitPid = Nobody

LEMMA MovesSound ==
  ASSUME NEW s \in States, NEW u, NEW p, NEW b, NEW m,
         Moves(s, u, p, b), Sound(s, p, b, m)
  PROVE  /\ Sound(u, p, b, m)
         /\ \A q \in Pids : Ended(u, q) <=> Ended(s, q)
<1> u \in States
  BY DEF Moves
<1>1. ASSUME NEW q \in Pids
      PROVE  /\ \/ u.t[q].list = s.t[q].list
                \/ /\ s.t[q].list = "zombie" /\ u.t[q].list = "none"
                   /\ u.t[q].parent = Nobody /\ u.t[q].ptracer = Nobody
             /\ u.t[q].exe <=> s.t[q].exe
             /\ u.t[q].terminated => s.t[q].terminated
             /\ u.t[q].parent \in {s.t[q].parent, Nobody}
             /\ u.t[q].ptracer \in {s.t[q].ptracer, Nobody}
  <2>1. CASE s.t[q].list = "zombie" /\ u.t[q] = Unknown
    BY <2>1, UnknownType DEF Sound, Listed
  <2>2. CASE ~(s.t[q].list = "zombie" /\ u.t[q] = Unknown)
    BY <2>2 DEF Moves, Loses
  <2> QED
    BY <2>1, <2>2
<1>2. \A q \in Pids :
        \/ u.k[q].proc = s.k[q].proc /\ u.k[q].event = s.k[q].event /\ u.k[q].child = s.k[q].child
        \/ /\ s.k[q].proc = "held" /\ u.k[q].proc \in {"run", "wait", "stop"}
           /\ u.k[q].event # "FORK" /\ s.t[q].exe /\ q # b /\ u.t[q].waitPid = Nobody
           /\ u.k[q].proc = "stop" => u.k[q].event \in {"enter", "exit"}
  BY DEF Moves, AlikeK, Restarted
<1>3. \A q \in Pids : u.k[q].forker = s.k[q].forker /\ u.k[q].call \in {s.k[q].call, NoCall}
  BY DEF Moves, AlikeK, Restarted
<1>4. \A q \in Pids : Ended(u, q) <=> Ended(s, q)
  BY <1>2 DEF Ended
<1>5. Tracers(u)
  BY <1>1, StatesTypes DEF Sound, Tracers
<1>6. Listed(u)
  BY <1>1, <1>4, StatesTypes DEF Sound, Listed
<1>7. Stops(u)
  BY <1>1, <1>2, <1>3 DEF Sound, Stops, Halted, Listed, Ended
<1>8. \A q \in Pids : Missing(s, q) => Missing(u, q)
  BY <1>1, <1>4 DEF Missing
<1>9. Named(u)
  BY <1>1, <1>3, <1>8, TraceesAssumption DEF Sound, Named, NoCall
<1>10. Births(u, b)
  <2>1. \A q \in Pids : Forking(u, b, q) <=> Forking(s, b, q)
    BY <1>2 DEF Forking
  <2>2. \A q \in Pids : Forking(s, b, q) => s.k[q].child \in Pids /\ u.k[q].child = s.k[q].child
    BY <1>2 DEF Sound, Stops, Forking, Halted
  <2>3. \A q \in Pids : s.k[q].proc = "dead" => u.k[q].proc = "dead"
    BY <1>2
  <2> QED
    BY <1>1, <1>3, <1>4, <1>8, <2>1, <2>2, <2>3 DEF Sound, Births
<1>11. Woken(u, m)
  <2>1. \A r \in Pids : u.t[r].waitPid # Nobody =>
          s.k[r].proc = "held" \/ u.t[r].waitPid = s.t[r].waitPid
    BY DEF Moves
  <2> QED
    BY <1>1, <1>2, <2>1 DEF Sound, Woken, Living
<1>12. Pending(u, p)
  BY <1>1 DEF Sound, Pending, Moves
<1> QED
  BY <1>4, <1>5, <1>6, <1>7, <1>9, <1>10, <1>11, <1>12 DEF Sound

(* What a handler that works for process p leaves as it was.                *)
Frame(s, u, p) ==
  /\ \A q \in Pids : Ended(u, q) <=> Ended(s, q)
  /\ u.k[p].proc = s.k[p].proc /\ u.k[p].event = s.k[p].event /\ u.k[p].child = s.k[p].child
  /\ u.t[p].list = s.t[p].list /\ u.t[p].exe = s.t[p].exe
  /\ u.t[p].terminated = s.t[p].terminated
  /\ u.proot \in {s.proot, "crashed"}

Right(s, p, b, m) ==
  s \in States /\ Sound(s, p, b, m) /\ Counted(s, Nobody)

LEMMA FrameTwice ==
  ASSUME NEW s, NEW u, NEW v, NEW p, Frame(s, u, p), Frame(u, v, p)
  PROVE  Frame(s, v, p)
  BY DEF Frame

LEMMA CountedSame ==
  ASSUME NEW s, NEW u, NEW x, Counted(s, x),
         \A q \in Pids : u.t[q].ptracer = s.t[q].ptracer /\ u.t[q].ptracees = s.t[q].ptracees
  PROVE  Counted(u, x)
<1>1. \A r \in Pids : Ptracees(u, r) = Ptracees(s, r)
  BY DEF Ptracees
<1> QED
  BY <1>1 DEF Counted

LEMMA MovesRight ==
  ASSUME NEW s \in States, NEW u, NEW p, NEW b, NEW m,
         Moves(s, u, p, b), Right(s, p, b, m),
         \A q \in Pids : u.t[q].ptracer = s.t[q].ptracer /\ u.t[q].ptracees = s.t[q].ptracees
  PROVE  Right(u, p, b, m)
  BY MovesSound, CountedSame DEF Right, Moves

LEMMA PutRight ==
  ASSUME NEW s, NEW p \in Pids, NEW b, NEW m, Right(s, p, b, m), NEW q \in Pids, NEW x,
         Alike(s.t[q], x),
         x.forProot = s.t[q].forProot \/ q = p \/ x.forProot \in Kept,
         x.waitPid \in {s.t[q].waitPid, Nobody} \/ s.k[q].proc = "held"
  PROVE  LET u == Put(s, q, x)
         IN  Right(u, p, b, m) /\ Frame(s, u, p)
<1> DEFINE u == Put(s, q, x)
<1> s \in States /\ x \in Tracee
  BY DEF Right, Alike
<1>1. /\ u \in States /\ u.k = s.k /\ u.proot = s.proot
      /\ \A e \in Pids : u.t[e] = IF e = q THEN x ELSE s.t[e]
  BY PutFacts
<1> HIDE DEF u
<1>2. \A e \in Pids :
        /\ u.t[e].list = s.t[e].list /\ u.t[e].exe = s.t[e].exe /\ u.t[e].parent = s.t[e].parent
        /\ u.t[e].ptracer = s.t[e].ptracer /\ u.t[e].ptracees = s.t[e].ptracees
        /\ u.t[e].terminated = s.t[e].terminated
  BY <1>1 DEF Alike
<1>3. \A e \in Pids :
        /\ u.t[e].forProot = s.t[e].forProot \/ e = p \/ u.t[e].forProot \in Kept
        /\ u.t[e].waitPid \in {s.t[e].waitPid, Nobody} \/ s.k[e].proc = "held"
  BY <1>1
<1>4. \A e \in Pids : AlikeK(s.k[e], u.k[e])
  BY <1>1, StatesFields DEF AlikeK
<1>5. Moves(s, u, p, b)
  BY <1>1, <1>2, <1>3, <1>4 DEF Moves, Loses
<1>6. Right(u, p, b, m)
  BY <1>2, <1>5, MovesRight
<1>7. Frame(s, u, p)
  BY <1>1, <1>2 DEF Frame, Ended
<1> QED
  BY <1>6, <1>7 DEF u

LEMMA PutSameRight ==
  ASSUME NEW s, NEW p \in Pids, NEW b, NEW m, Right(s, p, b, m), NEW q \in Pids, NEW x,
         Same(s.t[q], x)
  PROVE  LET u == Put(s, q, x)
         IN  Right(u, p, b, m) /\ Frame(s, u, p)
  BY PutRight DEF Same

LEMMA PutKRight ==
  ASSUME NEW s, NEW p \in Pids, NEW b, NEW m, Right(s, p, b, m), NEW q \in Pids, NEW y,
         AlikeK(s.k[q], y)
  PROVE  LET u == PutK(s, q, y)
         IN  Right(u, p, b, m) /\ Frame(s, u, p)
<1> DEFINE u == PutK(s, q, y)
<1> s \in States /\ y \in Process
  BY DEF Right, AlikeK
<1>1. /\ u \in States /\ u.t = s.t /\ u.proot = s.proot
      /\ \A e \in Pids : u.k[e] = IF e = q THEN y ELSE s.k[e]
  BY PutKFacts
<1> HIDE DEF u
<1>2. \A e \in Pids : AlikeK(s.k[e], u.k[e])
  BY <1>1, StatesFields DEF AlikeK
<1>3. Moves(s, u, p, b)
  BY <1>1, <1>2 DEF Moves, Loses
<1>4. Right(u, p, b, m)
  BY <1>1, <1>3, MovesRight
<1>5. Frame(s, u, p)
  BY <1>1, <1>2 DEF Frame, Ended, AlikeK
<1> QED
  BY <1>4, <1>5 DEF u

(* Only what PRoot knows and what the kernel knows count.                   *)
LEMMA LikeRight ==
  ASSUME NEW s, NEW p \in Pids, NEW b, NEW m, Right(s, p, b, m), NEW u \in States,
         u.t = s.t, u.k = s.k, u.proot \in {s.proot, "crashed"}
  PROVE  Right(u, p, b, m) /\ Frame(s, u, p)
<1> s \in States
  BY DEF Right
<1>2. \A e \in Pids : AlikeK(s.k[e], u.k[e])
  BY StatesFields DEF AlikeK
<1>3. Moves(s, u, p, b)
  BY <1>2 DEF Moves, Loses
<1>4. Right(u, p, b, m)
  BY <1>3, MovesRight
<1> QED
  BY <1>4 DEF Frame, Ended

LEMMA KeepRight ==
  ASSUME NEW s, NEW p \in Pids, NEW b, NEW m, Right(s, p, b, m), NEW v \in BOOLEAN
  PROVE  Right(Keep(s, v), p, b, m) /\ Frame(s, Keep(s, v), p)
<1> s \in States
  BY DEF Right
<1> QED
  BY KeepFacts, LikeRight

(* restart_tracee.                                                          *)
LEMMA RestartSteps ==
  ASSUME NEW s \in States, NEW q \in Pids
  PROVE  restart_tracee(s, q) =
           IF CanRestart(s, q)
             THEN PutK(Put(s, q, [s.t[q] EXCEPT !.running = TRUE, !.reported = FALSE]), q,
                       Resumed(s.k[q], s.t[q].chain))
             ELSE s
  BY DEF restart_tracee, Put, PutK, States

LEMMA RestartFacts ==
  ASSUME NEW s \in States, NEW q \in Pids
  PROVE  LET u == restart_tracee(s, q)
         IN  /\ u \in States
             /\ u.keep = s.keep /\ u.proot = s.proot
             /\ \A e \in Pids : Same(s.t[e], u.t[e])
             /\ \A e \in Pids \ {q} : u.t[e] = s.t[e] /\ u.k[e] = s.k[e]
             /\ \/ u.k[q] = s.k[q]
                \/ Restarted(s.k[q], u.k[q]) /\ u.t[q].waitPid = Nobody
<1> DEFINE x == [s.t[q] EXCEPT !.running = TRUE, !.reported = FALSE]
           y == Resumed(s.k[q], s.t[q].chain)
           v == Put(s, q, x)
           u == restart_tracee(s, q)
<1>1. s.t[q] \in Tracee /\ s.k[q] \in Process /\ s.t[q].chain \in BOOLEAN
  BY StatesFields, StatesTypes
<1>2. Same(s.t[q], x)
  BY <1>1, SetFields
<1>3. x \in Tracee
  BY <1>2 DEF Same, Alike
<1>4. /\ y \in Process
      /\ s.k[q].proc = "held" => Restarted(s.k[q], y)
  BY <1>1, ResumedFacts DEF Restarted
<1>5. \A e \in Pids : Same(s.t[e], s.t[e])
  BY StatesFields DEF Same, Alike
<1>6. CASE CanRestart(s, q)
  <2>1. u = PutK(v, q, y)
    BY <1>6, RestartSteps
  <2>2. s.t[q].waitPid = Nobody /\ s.k[q].proc = "held"
    BY <1>6 DEF CanRestart, Waiting
  <2> HIDE DEF x, y, u
  <2>3. /\ v \in States /\ v.k = s.k /\ v.keep = s.keep /\ v.proot = s.proot
        /\ \A e \in Pids : v.t[e] = IF e = q THEN x ELSE s.t[e]
    BY <1>3, PutFacts
  <2> HIDE DEF v
  <2>4. /\ u \in States /\ u.t = v.t /\ u.keep = v.keep /\ u.proot = v.proot
        /\ \A e \in Pids : u.k[e] = IF e = q THEN y ELSE v.k[e]
    BY <1>4, <2>1, <2>3, PutKFacts
  <2>5. x.waitPid = Nobody
    BY <1>2, <2>2 DEF Same
  <2> QED
    BY <1>2, <1>4, <1>5, <2>2, <2>3, <2>4, <2>5 DEF u
<1>7. CASE ~CanRestart(s, q)
  BY <1>5, <1>7 DEF restart_tracee
<1> QED
  BY <1>6, <1>7

LEMMA RestartRight ==
  ASSUME NEW s, NEW p \in Pids, NEW b, NEW m, Right(s, p, b, m), NEW q \in Pids,
         s.t[q].exe, q # b
  PROVE  LET u == restart_tracee(s, q)
         IN  Right(u, p, b, m) /\ (q # p => Frame(s, u, p))
<1> DEFINE u == restart_tracee(s, q)
<1> s \in States
  BY DEF Right
<1>1. /\ u \in States
      /\ u.keep = s.keep /\ u.proot = s.proot
      /\ \A e \in Pids : Same(s.t[e], u.t[e])
      /\ \A e \in Pids \ {q} : u.t[e] = s.t[e] /\ u.k[e] = s.k[e]
      /\ \/ u.k[q] = s.k[q]
         \/ Restarted(s.k[q], u.k[q]) /\ u.t[q].waitPid = Nobody
  BY RestartFacts
<1> HIDE DEF u
<1>2. \A e \in Pids :
        /\ u.t[e].list = s.t[e].list /\ u.t[e].exe = s.t[e].exe /\ u.t[e].parent = s.t[e].parent
        /\ u.t[e].ptracer = s.t[e].ptracer /\ u.t[e].ptracees = s.t[e].ptracees
        /\ u.t[e].terminated = s.t[e].terminated
        /\ u.t[e].forProot = s.t[e].forProot /\ u.t[e].waitPid = s.t[e].waitPid
  BY <1>1 DEF Same, Alike
<1>3. \A e \in Pids : AlikeK(s.k[e], s.k[e])
  BY StatesFields DEF AlikeK
<1>4. Moves(s, u, p, b)
  BY <1>1, <1>2, <1>3 DEF Moves, Loses
<1>5. Right(u, p, b, m)
  BY <1>2, <1>4, MovesRight
<1>6. \A e \in Pids : Ended(u, e) <=> Ended(s, e)
  BY <1>4, MovesSound DEF Right
<1>7. q # p => Frame(s, u, p)
  BY <1>1, <1>2, <1>6 DEF Frame
<1> QED
  BY <1>5, <1>7 DEF u

-----------------------------------------------------------------------------
(* A guest gets or loses the guest that traces it.                          *)

LEMMA AttachSteps ==
  ASSUME NEW s \in States, NEW e \in Pids, NEW r \in Pids
  PROVE  attach_to_ptracer(s, e, r) =
           LET u == Put(s, e, [NotTraced(s.t[e]) EXCEPT !.ptracer = r])
           IN  Put(u, r, [u.t[r] EXCEPT !.ptracees = s.t[r].ptracees + 1])
  BY DEF attach_to_ptracer, Put, States

LEMMA AttachFacts ==
  ASSUME NEW s \in States, NEW e \in Pids, NEW r \in Pids,
         s.t[r].ptracees < Cardinality(Pids)
  PROVE  LET u == attach_to_ptracer(s, e, r)
         IN  /\ u \in States
             /\ u.k = s.k /\ u.keep = s.keep /\ u.proot = s.proot
             /\ \A q \in Pids :
                  /\ u.t[q].list = s.t[q].list /\ u.t[q].exe = s.t[q].exe
                  /\ u.t[q].parent = s.t[q].parent /\ u.t[q].terminated = s.t[q].terminated
                  /\ u.t[q].waitPid = s.t[q].waitPid
                  /\ u.t[q].ptracer = IF q = e THEN r ELSE s.t[q].ptracer
                  /\ u.t[q].ptracees = IF q = r THEN s.t[q].ptracees + 1 ELSE s.t[q].ptracees
                  /\ u.t[q].forProot = IF q = e THEN "none" ELSE s.t[q].forProot
<1> DEFINE w == NotTraced(s.t[e])
           x == [w EXCEPT !.ptracer = r]
           n == s.t[r].ptracees + 1
           v == Put(s, e, x)
           y == [v.t[r] EXCEPT !.ptracees = n]
           u == attach_to_ptracer(s, e, r)
<1>1. u = Put(v, r, y)
  BY AttachSteps
<1>2. s.t[e] \in Tracee
  BY StatesFields
<1>3. /\ w \in Tracee
      /\ w.list = s.t[e].list /\ w.exe = s.t[e].exe /\ w.parent = s.t[e].parent
      /\ w.ptracees = s.t[e].ptracees /\ w.terminated = s.t[e].terminated
      /\ w.forProot = "none" /\ w.waitPid = s.t[e].waitPid
  BY <1>2, SetNotTraced
<1> HIDE DEF w
<1>4. /\ x \in Tracee
      /\ x.list = s.t[e].list /\ x.exe = s.t[e].exe /\ x.parent = s.t[e].parent
      /\ x.ptracees = s.t[e].ptracees /\ x.terminated = s.t[e].terminated
      /\ x.forProot = "none" /\ x.waitPid = s.t[e].waitPid /\ x.ptracer = r
  BY <1>3, SetPtracer
<1>5. n \in 0 .. Cardinality(Pids)
  BY StatesTypes, ProcessesNumber
<1> HIDE DEF x
<1>6. /\ v \in States /\ v.k = s.k /\ v.keep = s.keep /\ v.proot = s.proot
      /\ \A q \in Pids : v.t[q] = IF q = e THEN x ELSE s.t[q]
  BY <1>4, PutFacts
<1> HIDE DEF v, n
<1>7. /\ y \in Tracee
      /\ y.list = v.t[r].list /\ y.exe = v.t[r].exe /\ y.parent = v.t[r].parent
      /\ y.ptracer = v.t[r].ptracer /\ y.ptracees = n /\ y.terminated = v.t[r].terminated
      /\ y.forProot = v.t[r].forProot /\ y.waitPid = v.t[r].waitPid
  BY <1>5, <1>6, SetPtracees, StatesFields
<1> HIDE DEF y, u
<1>8. /\ u \in States /\ u.k = v.k /\ u.keep = v.keep /\ u.proot = v.proot
      /\ \A q \in Pids : u.t[q] = IF q = r THEN y ELSE v.t[q]
  BY <1>1, <1>6, <1>7, PutFacts
<1>9. ASSUME NEW q \in Pids
      PROVE  /\ u.t[q].list = s.t[q].list /\ u.t[q].exe = s.t[q].exe
             /\ u.t[q].parent = s.t[q].parent /\ u.t[q].terminated = s.t[q].terminated
             /\ u.t[q].waitPid = s.t[q].waitPid
             /\ u.t[q].ptracer = IF q = e THEN r ELSE s.t[q].ptracer
             /\ u.t[q].ptracees = IF q = r THEN s.t[q].ptracees + 1 ELSE s.t[q].ptracees
             /\ u.t[q].forProot = IF q = e THEN "none" ELSE s.t[q].forProot
  BY <1>4, <1>6, <1>7, <1>8 DEF n
<1> QED
  BY <1>6, <1>8, <1>9 DEF u

(* One more guest is traced by r.                                           *)
LEMMA CountedAttach ==
  ASSUME NEW s \in States, NEW u \in States, NEW e \in Pids, NEW r \in Pids,
         Counted(s, Nobody), s.t[e].ptracer # r, s.t[e].ptracer = Nobody,
         \A q \in Pids :
           /\ u.t[q].ptracer = IF q = e THEN r ELSE s.t[q].ptracer
           /\ u.t[q].ptracees = IF q = r THEN s.t[q].ptracees + 1 ELSE s.t[q].ptracees
  PROVE  Counted(u, Nobody)
<1>1. ASSUME NEW q \in Pids
      PROVE  u.t[q].ptracees = Cardinality(Ptracees(u, q))
  <2>1. IsFiniteSet(Ptracees(s, q))
    BY TraceesAssumption, FS_Subset DEF Ptracees
  <2>2. s.t[q].ptracees = Cardinality(Ptracees(s, q))
    BY TraceesAssumption DEF Counted
  <2>3. CASE q = r
    <3>1. Ptracees(u, q) = Ptracees(s, q) \cup {e}
      BY <2>3 DEF Ptracees
    <3>2. e \notin Ptracees(s, q)
      BY <2>3 DEF Ptracees
    <3>3. Cardinality(Ptracees(u, q)) = Cardinality(Ptracees(s, q)) + 1
      BY <2>1, <3>1, <3>2, FS_AddElement
    <3> QED
      BY <2>2, <2>3, <3>3
  <2>4. CASE q # r
    <3>1. Ptracees(u, q) = Ptracees(s, q)
      BY <2>4, TraceesAssumption DEF Ptracees
    <3> QED
      BY <2>2, <2>4, <3>1
  <2> QED
    BY <2>3, <2>4
<1> QED
  BY <1>1 DEF Counted

LEMMA CountRoom ==
  ASSUME NEW s \in States, NEW r \in Pids, Tracers(s), Counted(s, Nobody)
  PROVE  s.t[r].ptracees < Cardinality(Pids)
<1>1. Ptracees(s, r) \subseteq Pids \ {r}
  BY TraceesAssumption DEF Ptracees, Tracers
<1>2. /\ IsFiniteSet(Pids \ {r})
      /\ Cardinality(Pids \ {r}) = Cardinality(Pids) - 1
  BY TraceesAssumption, FS_RemoveElement
<1>3. Cardinality(Ptracees(s, r)) <= Cardinality(Pids \ {r})
  BY <1>1, <1>2, FS_Subset
<1>4. s.t[r].ptracees = Cardinality(Ptracees(s, r))
  BY TraceesAssumption DEF Counted
<1> QED
  BY <1>2, <1>3, <1>4, StatesTypes, ProcessesNumber

LEMMA AttachRight ==
  ASSUME NEW s, NEW p \in Pids, NEW b, NEW m, Right(s, p, b, m),
         NEW e \in Pids, NEW r \in Pids, e # r,
         s.t[e].ptracer = Nobody, s.t[e].exe, s.t[r].exe
  PROVE  LET u == attach_to_ptracer(s, e, r)
         IN  Right(u, p, b, m) /\ Frame(s, u, p)
<1> DEFINE u == attach_to_ptracer(s, e, r)
<1> s \in States
  BY DEF Right
<1>1. s.t[r].ptracees < Cardinality(Pids)
  BY CountRoom DEF Right, Sound
<1>2. /\ u \in States
      /\ u.k = s.k /\ u.keep = s.keep /\ u.proot = s.proot
      /\ \A q \in Pids :
           /\ u.t[q].list = s.t[q].list /\ u.t[q].exe = s.t[q].exe
           /\ u.t[q].parent = s.t[q].parent /\ u.t[q].terminated = s.t[q].terminated
           /\ u.t[q].waitPid = s.t[q].waitPid
           /\ u.t[q].ptracer = IF q = e THEN r ELSE s.t[q].ptracer
           /\ u.t[q].ptracees = IF q = r THEN s.t[q].ptracees + 1 ELSE s.t[q].ptracees
           /\ u.t[q].forProot = IF q = e THEN "none" ELSE s.t[q].forProot
  BY <1>1, AttachFacts
<1> HIDE DEF u
<1>3. Counted(u, Nobody)
  BY <1>2, CountedAttach, TraceesAssumption DEF Right
<1>4. Tracers(u)
  BY <1>2, StatesTypes DEF Right, Sound, Tracers
<1>5. Listed(u)
  BY <1>2, StatesTypes DEF Right, Sound, Listed, Ended
<1>6. Stops(u)
  BY <1>2 DEF Right, Sound, Stops, Halted
<1>7. Named(u)
  BY <1>2 DEF Right, Sound, Named, Missing, Ended
<1>8. Births(u, b)
  BY <1>2 DEF Right, Sound, Births, Forking, Missing, Ended, Stops, Halted
<1>9. Woken(u, m)
  BY <1>2 DEF Right, Sound, Woken
<1>10. Pending(u, p)
  BY <1>2 DEF Right, Sound, Pending, Kept
<1>11. Frame(s, u, p)
  BY <1>2 DEF Frame, Ended
<1> QED
  BY <1>2, <1>3, <1>4, <1>5, <1>6, <1>7, <1>8, <1>9, <1>10, <1>11 DEF Right, Sound, u

(* detach_from_ptracer.                                                     *)
LEMMA DetachSteps ==
  ASSUME NEW s \in States, NEW e \in Pids, NEW r \in Pids, s.t[e].ptracer = r
  PROVE  detach_from_ptracer(s, e) =
           LET a == IF s.t[r].ptracees > 0 THEN s ELSE Becomes(s, "aborted")
               u == Put(a, r, [a.t[r] EXCEPT
                      !.ptracees = IF s.t[r].ptracees = 0 THEN 0 ELSE s.t[r].ptracees - 1])
           IN  Put(u, e, [u.t[e] EXCEPT !.ptracer = Nobody])
  BY DEF detach_from_ptracer, Asserted, Becomes, Put, States

LEMMA DetachFacts ==
  ASSUME NEW s \in States, NEW e \in Pids, NEW r \in Pids, s.t[e].ptracer = r
  PROVE  LET u == detach_from_ptracer(s, e)
         IN  /\ u \in States
             /\ u.k = s.k /\ u.keep = s.keep
             /\ u.proot \in {s.proot, "aborted"}
             /\ s.t[r].ptracees > 0 => u.proot = s.proot
             /\ \A q \in Pids :
                  /\ u.t[q].list = s.t[q].list /\ u.t[q].exe = s.t[q].exe
                  /\ u.t[q].parent = s.t[q].parent /\ u.t[q].terminated = s.t[q].terminated
                  /\ u.t[q].waitPid = s.t[q].waitPid /\ u.t[q].forProot = s.t[q].forProot
                  /\ u.t[q].ptracer = IF q = e THEN Nobody ELSE s.t[q].ptracer
                  /\ s.t[r].ptracees > 0 =>
                       u.t[q].ptracees = IF q = r THEN s.t[q].ptracees - 1 ELSE s.t[q].ptracees
<1> DEFINE a == IF s.t[r].ptracees > 0 THEN s ELSE Becomes(s, "aborted")
           n == IF s.t[r].ptracees = 0 THEN 0 ELSE s.t[r].ptracees - 1
           x == [a.t[r] EXCEPT !.ptracees = n]
           v == Put(a, r, x)
           y == [v.t[e] EXCEPT !.ptracer = Nobody]
           u == detach_from_ptracer(s, e)
<1>1. u = Put(v, e, y)
  BY DetachSteps
<1>2. /\ a \in States /\ a.t = s.t /\ a.k = s.k /\ a.keep = s.keep
      /\ a.proot \in {s.proot, "aborted"}
      /\ s.t[r].ptracees > 0 => a.proot = s.proot
  BY BecomesFacts
<1>3. n \in 0 .. Cardinality(Pids) /\ (s.t[r].ptracees > 0 => n = s.t[r].ptracees - 1)
  BY StatesTypes, ProcessesNumber
<1> HIDE DEF a, n
<1>4. /\ x \in Tracee
      /\ x.list = s.t[r].list /\ x.exe = s.t[r].exe /\ x.parent = s.t[r].parent
      /\ x.ptracer = s.t[r].ptracer /\ x.ptracees = n /\ x.terminated = s.t[r].terminated
      /\ x.forProot = s.t[r].forProot /\ x.waitPid = s.t[r].waitPid
  BY <1>2, <1>3, SetPtracees, StatesFields
<1> HIDE DEF x
<1>5. /\ v \in States /\ v.k = s.k /\ v.keep = s.keep /\ v.proot = a.proot
      /\ \A q \in Pids : v.t[q] = IF q = r THEN x ELSE s.t[q]
  BY <1>2, <1>4, PutFacts
<1> HIDE DEF v
<1>6. /\ y \in Tracee
      /\ y.list = v.t[e].list /\ y.exe = v.t[e].exe /\ y.parent = v.t[e].parent
      /\ y.ptracer = Nobody /\ y.ptracees = v.t[e].ptracees
      /\ y.terminated = v.t[e].terminated
      /\ y.forProot = v.t[e].forProot /\ y.waitPid = v.t[e].waitPid
  <2>1. v.t[e] \in Tracee /\ Nobody \in Pids \cup {Nobody}
    BY <1>5, StatesFields
  <2> QED
    BY <2>1, SetPtracer
<1> HIDE DEF y, u
<1>7. /\ u \in States /\ u.k = v.k /\ u.keep = v.keep /\ u.proot = v.proot
      /\ \A q \in Pids : u.t[q] = IF q = e THEN y ELSE v.t[q]
  BY <1>1, <1>5, <1>6, PutFacts
<1>8. ASSUME NEW q \in Pids
      PROVE  /\ u.t[q].list = s.t[q].list /\ u.t[q].exe = s.t[q].exe
             /\ u.t[q].parent = s.t[q].parent /\ u.t[q].terminated = s.t[q].terminated
             /\ u.t[q].waitPid = s.t[q].waitPid /\ u.t[q].forProot = s.t[q].forProot
             /\ u.t[q].ptracer = IF q = e THEN Nobody ELSE s.t[q].ptracer
             /\ s.t[r].ptracees > 0 =>
                  u.t[q].ptracees = IF q = r THEN s.t[q].ptracees - 1 ELSE s.t[q].ptracees
  BY <1>3, <1>4, <1>5, <1>6, <1>7
<1> QED
  BY <1>2, <1>5, <1>7, <1>8 DEF u

(* One guest less is traced by r.                                           *)
LEMMA CountedDetach ==
  ASSUME NEW s \in States, NEW u \in States, NEW e \in Pids, NEW r \in Pids,
         NEW x, Counted(s, x), x # r, s.t[e].ptracer = r,
         \A q \in Pids :
           /\ u.t[q].ptracer = IF q = e THEN Nobody ELSE s.t[q].ptracer
           /\ s.t[r].ptracees > 0 =>
                u.t[q].ptracees = IF q = r THEN s.t[q].ptracees - 1 ELSE s.t[q].ptracees
  PROVE  Counted(u, x) /\ s.t[r].ptracees > 0
<1>1. \A q \in Pids : IsFiniteSet(Ptracees(s, q))
  BY TraceesAssumption, FS_Subset DEF Ptracees
<1>2. \A q \in Pids \ {x} : s.t[q].ptracees = Cardinality(Ptracees(s, q))
  BY DEF Counted
<1>3. e \in Ptracees(s, r)
  BY DEF Ptracees
<1>4. s.t[r].ptracees > 0
  BY <1>1, <1>2, <1>3, FS_EmptySet, StatesTypes
<1>5. ASSUME NEW q \in Pids \ {x}
      PROVE  u.t[q].ptracees = Cardinality(Ptracees(u, q))
  <2>1. CASE q = r
    <3>1. Ptracees(u, q) = Ptracees(s, q) \ {e}
      BY <2>1, TraceesAssumption DEF Ptracees
    <3>2. Cardinality(Ptracees(u, q)) = Cardinality(Ptracees(s, q)) - 1
      BY <1>1, <1>3, <2>1, <3>1, FS_RemoveElement
    <3> QED
      BY <1>2, <1>4, <2>1, <3>2
  <2>2. CASE q # r
    <3>1. Ptracees(u, q) = Ptracees(s, q)
      BY <2>2, TraceesAssumption DEF Ptracees
    <3> QED
      BY <1>2, <1>4, <2>2, <3>1
  <2> QED
    BY <2>1, <2>2
<1> QED
  BY <1>4, <1>5 DEF Counted

LEMMA DetachSound ==
  ASSUME NEW s \in States, NEW p \in Pids, NEW b, NEW m, Sound(s, p, b, m),
         NEW x, Counted(s, x), NEW e \in Pids, NEW r \in Pids, s.t[e].ptracer = r, x # r
  PROVE  LET u == detach_from_ptracer(s, e)
         IN  /\ u \in States /\ Sound(u, p, b, m) /\ Counted(u, x)
             /\ Frame(s, u, p) /\ u.proot = s.proot
<1> DEFINE u == detach_from_ptracer(s, e)
<1>1. /\ u \in States
      /\ u.k = s.k
      /\ s.t[r].ptracees > 0 => u.proot = s.proot
      /\ \A q \in Pids :
           /\ u.t[q].list = s.t[q].list /\ u.t[q].exe = s.t[q].exe
           /\ u.t[q].parent = s.t[q].parent /\ u.t[q].terminated = s.t[q].terminated
           /\ u.t[q].waitPid = s.t[q].waitPid /\ u.t[q].forProot = s.t[q].forProot
           /\ u.t[q].ptracer = IF q = e THEN Nobody ELSE s.t[q].ptracer
           /\ s.t[r].ptracees > 0 =>
                u.t[q].ptracees = IF q = r THEN s.t[q].ptracees - 1 ELSE s.t[q].ptracees
  BY DetachFacts
<1> HIDE DEF u
<1>2. Counted(u, x) /\ s.t[r].ptracees > 0
  BY <1>1, CountedDetach
<1>3. \A q \in Pids : AlikeK(s.k[q], u.k[q])
  BY <1>1, StatesFields DEF AlikeK
<1>4. Moves(s, u, p, b)
  BY <1>1, <1>3 DEF Moves, Loses
<1>5. Sound(u, p, b, m)
  BY <1>4, MovesSound
<1>6. Frame(s, u, p)
  BY <1>1, <1>2 DEF Frame, Ended
<1> QED
  BY <1>1, <1>2, <1>5, <1>6 DEF u

LEMMA DetachRight ==
  ASSUME NEW s, NEW p \in Pids, NEW b, NEW m, Right(s, p, b, m),
         NEW e \in Pids, NEW r \in Pids, s.t[e].ptracer = r
  PROVE  LET u == detach_from_ptracer(s, e)
         IN  Right(u, p, b, m) /\ Frame(s, u, p) /\ u.proot = s.proot
<1>1. Nobody # r
  BY TraceesAssumption
<1> QED
  BY <1>1, DetachSound DEF Right

(* What is known of a zombie is forgotten.                                  *)
LEMMA ReapRight ==
  ASSUME NEW s, NEW p \in Pids, NEW b, NEW m, Right(s, p, b, m),
         NEW e \in Pids, s.t[e].list = "zombie", s.t[e].ptracer = Nobody
  PROVE  LET u == Put(s, e, Unknown)
         IN  Right(u, p, b, m) /\ (e # p => Frame(s, u, p))
<1> DEFINE u == Put(s, e, Unknown)
<1> s \in States
  BY DEF Right
<1>1. /\ u \in States /\ u.k = s.k /\ u.proot = s.proot
      /\ \A q \in Pids : u.t[q] = IF q = e THEN Unknown ELSE s.t[q]
  BY PutFacts, UnknownType
<1> HIDE DEF u
<1>2. \A q \in Pids : AlikeK(s.k[q], u.k[q])
  BY <1>1, StatesFields DEF AlikeK
<1>3. Moves(s, u, p, b)
  BY <1>1, <1>2, UnknownType DEF Moves, Loses, Kept
<1>4. Ptracees(s, e) = {}
  BY TraceesAssumption DEF Ptracees, Right, Sound, Tracers, Listed
<1>5. s.t[e].ptracees = 0
  BY <1>4, FS_EmptySet, TraceesAssumption DEF Right, Counted
<1>6. \A q \in Pids : u.t[q].ptracer = s.t[q].ptracer /\ u.t[q].ptracees = s.t[q].ptracees
  BY <1>1, <1>5, UnknownType
<1>7. Right(u, p, b, m)
  BY <1>3, <1>6, MovesRight
<1>8. e # p => Frame(s, u, p)
  BY <1>1 DEF Frame, Ended
<1> QED
  BY <1>7, <1>8 DEF u

-----------------------------------------------------------------------------
(* The end of a process, and of all.                                        *)

LEMMA TerminateRight ==
  ASSUME NEW s, NEW p \in Pids, NEW b, NEW m, Right(s, p, b, m), Ended(s, p)
  PROVE  LET u == Put(s, p, [s.t[p] EXCEPT !.terminated = TRUE])
         IN  /\ Right(u, p, b, m)
             /\ \A q \in Pids : Ended(u, q) <=> Ended(s, q)
             /\ u.k = s.k /\ u.t[p].list = s.t[p].list /\ u.proot = s.proot /\ u.keep = s.keep
<1> DEFINE x == [s.t[p] EXCEPT !.terminated = TRUE]
           u == Put(s, p, x)
<1> s \in States
  BY DEF Right
<1>1. /\ x \in Tracee
      /\ x.list = s.t[p].list /\ x.exe = s.t[p].exe /\ x.parent = s.t[p].parent
      /\ x.ptracer = s.t[p].ptracer /\ x.ptracees = s.t[p].ptracees
      /\ x.forProot = s.t[p].forProot /\ x.waitPid = s.t[p].waitPid
  BY SetTerminated, StatesFields
<1> HIDE DEF x
<1>2. /\ u \in States /\ u.k = s.k /\ u.proot = s.proot /\ u.keep = s.keep
      /\ \A q \in Pids : u.t[q] = IF q = p THEN x ELSE s.t[q]
  BY <1>1, PutFacts
<1> HIDE DEF u
<1>3. \A q \in Pids :
        /\ u.t[q].list = s.t[q].list /\ u.t[q].exe = s.t[q].exe /\ u.t[q].parent = s.t[q].parent
        /\ u.t[q].ptracer = s.t[q].ptracer /\ u.t[q].ptracees = s.t[q].ptracees
        /\ u.t[q].forProot = s.t[q].forProot /\ u.t[q].waitPid = s.t[q].waitPid
        /\ q # p => u.t[q].terminated = s.t[q].terminated
  BY <1>1, <1>2
<1>4. Tracers(u)
  BY <1>3, StatesTypes DEF Right, Sound, Tracers
<1>5. Listed(u)
  BY <1>2, <1>3, StatesTypes DEF Right, Sound, Listed, Ended
<1>6. Stops(u) /\ Named(u)
  BY <1>2, <1>3 DEF Right, Sound, Stops, Halted, Named, Missing, Ended
<1>7. Births(u, b)
  BY <1>2, <1>3 DEF Right, Sound, Births, Forking, Missing, Ended, Stops, Halted
<1>8. Woken(u, m) /\ Pending(u, p)
  BY <1>2, <1>3 DEF Right, Sound, Woken, Pending
<1>9. Counted(u, Nobody)
  BY <1>3, CountedSame DEF Right
<1> QED
  BY <1>2, <1>3, <1>4, <1>5, <1>6, <1>7, <1>8, <1>9 DEF Right, Sound, u, x, Ended

LEMMA KillAllFacts ==
  ASSUME NEW s \in States
  PROVE  LET u == kill_all_tracees(s)
         IN  /\ u \in States
             /\ u.t = s.t /\ u.keep = s.keep /\ u.proot = s.proot
             /\ \A q \in Pids :
                  /\ u.k[q].forker = s.k[q].forker /\ u.k[q].call = s.k[q].call
                  /\ s.t[q].list = "tracees" /\ s.k[q].proc \in Living => u.k[q].proc = "dead"
                  /\ ~(s.t[q].list = "tracees" /\ s.k[q].proc \in Living) => u.k[q] = s.k[q]
<1> DEFINE y(q) == [s.k[q] EXCEPT !.proc = "dead", !.event = "none", !.child = Nobody]
           f == [q \in Pids |->
                  IF s.t[q].list = "tracees" /\ s.k[q].proc \in Living THEN y(q) ELSE s.k[q]]
           u == kill_all_tracees(s)
<1>1. \A q \in Pids :
        /\ y(q) \in Process
        /\ y(q).forker = s.k[q].forker /\ y(q).call = s.k[q].call /\ y(q).proc = "dead"
  BY KilledFacts, StatesFields
<1>2. u = [s EXCEPT !.k = f]
  BY DEF kill_all_tracees
<1> HIDE DEF y, u
<1>3. f \in [Pids -> Process]
  BY <1>1, StatesFields
<1>4. \A q \in Pids :
        /\ s.t[q].list = "tracees" /\ s.k[q].proc \in Living => f[q] = y(q)
        /\ ~(s.t[q].list = "tracees" /\ s.k[q].proc \in Living) => f[q] = s.k[q]
  OBVIOUS
<1> HIDE DEF f
<1>5. u \in States /\ u.t = s.t /\ u.k = f /\ u.keep = s.keep /\ u.proot = s.proot
  BY <1>2, <1>3 DEF States
<1> QED
  BY <1>1, <1>4, <1>5 DEF u

LEMMA KillAllRight ==
  ASSUME NEW s, NEW p \in Pids, NEW b, NEW m, Right(s, p, b, m)
  PROVE  LET u == kill_all_tracees(s)
         IN  /\ Right(u, p, b, "over")
             /\ \A q \in Pids : Ended(u, q) <=> Ended(s, q)
<1> DEFINE u == kill_all_tracees(s)
<1> s \in States
  BY DEF Right
<1>1. /\ u \in States /\ u.t = s.t
      /\ \A q \in Pids :
           /\ u.k[q].forker = s.k[q].forker /\ u.k[q].call = s.k[q].call
           /\ s.t[q].list = "tracees" /\ s.k[q].proc \in Living => u.k[q].proc = "dead"
           /\ ~(s.t[q].list = "tracees" /\ s.k[q].proc \in Living) => u.k[q] = s.k[q]
  BY KillAllFacts
<1> HIDE DEF u
<1>2. \A q \in Pids : u.k[q] = s.k[q] \/ (s.k[q].proc \in Living /\ u.k[q].proc = "dead")
  BY <1>1
<1>3. \A q \in Pids : Ended(u, q) <=> Ended(s, q)
  BY <1>2 DEF Ended, Living
<1>4. Tracers(u)
  BY <1>1 DEF Right, Sound, Tracers
<1>5. Listed(u)
  BY <1>1, <1>3 DEF Right, Sound, Listed
<1>6. Stops(u)
  BY <1>1, <1>2 DEF Right, Sound, Stops, Halted, Living
<1>7. Named(u)
  BY <1>1, <1>3 DEF Right, Sound, Named, Missing
<1>8. Births(u, b)
  <2>1. \A q \in Pids : Forking(u, b, q) => Forking(s, b, q) /\ u.k[q].child = s.k[q].child
    BY <1>2 DEF Forking
  <2>2. \A q \in Pids :
          Forking(s, b, q) => (Forking(u, b, q) /\ u.k[q].child = s.k[q].child) \/ u.k[q].proc = "dead"
    BY <1>2 DEF Forking
  <2>3. \A q \in Pids : s.k[q].proc = "dead" => u.k[q].proc = "dead"
    BY <1>2
  <2> QED
    BY <1>1, <1>3, <2>1, <2>2, <2>3 DEF Right, Sound, Births, Missing
<1>9. Woken(u, "over")
  BY <1>1, StatesTypes DEF Right, Sound, Woken, Listed, Living
<1>10. Pending(u, p)
  BY <1>1 DEF Right, Sound, Pending
<1>11. Counted(u, Nobody)
  BY <1>1, CountedSame DEF Right
<1> QED
  BY <1>1, <1>3, <1>4, <1>5, <1>6, <1>7, <1>8, <1>9, <1>10, <1>11 DEF Right, Sound, u

-----------------------------------------------------------------------------
(* A new process is handled with the fork of its parent.                    *)

LEMMA UnbornChild ==
  ASSUME NEW s, NEW p \in Pids, NEW m, Right(s, p, p, m),
         s.k[p].proc = "held", s.k[p].event = "FORK"
  PROVE  LET c == s.k[p].child
         IN  /\ c \in Pids \ {p} /\ s.k[c].forker = p
             /\ ~s.t[c].exe /\ s.t[c].list # "zombie"
             /\ s.t[c].parent = Nobody /\ s.t[c].ptracer = Nobody
             /\ s.t[p].exe /\ m # "over"
<1>1. Forking(s, p, p) /\ Halted(s, p)
  BY DEF Forking, Halted
<1>2. s.k[p].child \in Pids \ {p} /\ s.k[s.k[p].child].forker = p /\ s.t[p].exe
  BY <1>1 DEF Right, Sound, Stops
<1>3. ~s.t[s.k[p].child].exe /\ s.t[s.k[p].child].list # "zombie"
  BY <1>1 DEF Right, Sound, Births
<1>4. s.t[s.k[p].child].parent = Nobody /\ s.t[s.k[p].child].ptracer = Nobody
  BY <1>2, <1>3 DEF Right, Sound, Listed
<1>5. m # "over"
  BY <1>2 DEF Right, Sound, Woken, Living
<1> QED
  BY <1>2, <1>3, <1>4, <1>5

LEMMA BirthRight ==
  ASSUME NEW s, NEW p \in Pids, NEW m, Right(s, p, p, m),
         s.k[p].proc = "held", s.k[p].event = "FORK"
  PROVE  LET c == s.k[p].child
             u == Put(s, c, [s.t[c] EXCEPT !.list = "tracees", !.exe = TRUE, !.parent = p])
         IN  Right(u, p, Nobody, m) /\ Frame(s, u, p)
<1> DEFINE c == s.k[p].child
           x == [s.t[c] EXCEPT !.list = "tracees", !.exe = TRUE, !.parent = p]
           u == Put(s, c, x)
<1> s \in States
  BY DEF Right
<1>1. /\ c \in Pids \ {p} /\ s.k[c].forker = p
      /\ ~s.t[c].exe /\ s.t[c].list # "zombie"
      /\ s.t[c].parent = Nobody /\ s.t[c].ptracer = Nobody
      /\ s.t[p].exe /\ m # "over"
  BY UnbornChild
<1> HIDE DEF c
<1>2. /\ x \in Tracee
      /\ x.list = "tracees" /\ x.exe /\ x.parent = p
      /\ x.ptracer = s.t[c].ptracer /\ x.ptracees = s.t[c].ptracees
      /\ x.terminated = s.t[c].terminated
      /\ x.forProot = s.t[c].forProot /\ x.waitPid = s.t[c].waitPid
  <2>1. s.t[c] \in Tracee
    BY <1>1, StatesFields
  <2> QED
    BY <2>1, SetBorn
<1> HIDE DEF x
<1>3. /\ u \in States /\ u.k = s.k /\ u.proot = s.proot
      /\ \A q \in Pids : u.t[q] = IF q = c THEN x ELSE s.t[q]
  BY <1>1, <1>2, PutFacts
<1> HIDE DEF u
<1>4. \A q \in Pids :
        /\ q # c => u.t[q].list = s.t[q].list /\ u.t[q].exe = s.t[q].exe
                    /\ u.t[q].parent = s.t[q].parent
        /\ u.t[q].ptracer = s.t[q].ptracer /\ u.t[q].ptracees = s.t[q].ptracees
        /\ u.t[q].terminated = s.t[q].terminated
        /\ u.t[q].forProot = s.t[q].forProot /\ u.t[q].waitPid = s.t[q].waitPid
  BY <1>2, <1>3
<1>5. u.t[c].list = "tracees" /\ u.t[c].exe /\ u.t[c].parent = p
  BY <1>1, <1>2, <1>3
<1>6. Tracers(u)
  BY <1>1, <1>4, <1>5, StatesTypes DEF Right, Sound, Tracers
<1>7. Listed(u)
  BY <1>1, <1>3, <1>4, <1>5, StatesTypes DEF Right, Sound, Listed, Ended
<1>8. Stops(u)
  BY <1>1, <1>3, <1>4, <1>5, TraceesAssumption DEF Right, Sound, Stops, Halted
<1>9. Named(u)
  BY <1>1, <1>3, <1>4, <1>5 DEF Right, Sound, Named, Missing, Ended
<1>10. Births(u, Nobody)
  <2>1. ASSUME NEW q \in Pids, Forking(u, Nobody, q)
        PROVE  Forking(s, p, q) /\ s.k[q].child \in Pids \ {c} /\ u.k[q].child = s.k[q].child
    <3>1. Forking(s, p, q) /\ Halted(s, q) /\ q # p
      BY <1>3, <2>1, TraceesAssumption DEF Forking, Halted
    <3> QED
      BY <1>1, <1>3, <3>1 DEF Right, Sound, Stops, Forking
  <2>2. ASSUME NEW q \in Pids, Forking(u, Nobody, q)
        PROVE  ~u.t[u.k[q].child].exe /\ u.t[u.k[q].child].list # "zombie"
    BY <1>4, <2>1, <2>2 DEF Right, Sound, Births
  <2>3. ASSUME NEW q \in Pids, NEW e \in Pids, u.k[e].forker = q
        PROVE  \/ u.t[e].exe \/ Missing(u, e)
               \/ Forking(u, Nobody, q) /\ u.k[q].child = e
               \/ u.k[q].proc = "dead" \/ Ended(u, q)
    <3>1. CASE e = c
      BY <1>5, <3>1
    <3>2. CASE e # c
      <4>1. Forking(s, p, q) /\ s.k[q].child = e => q # p
        BY <3>2 DEF c
      <4>2. Forking(s, p, q) /\ s.k[q].child = e => Forking(u, Nobody, q)
        BY <1>3, <4>1 DEF Forking
      <4>3. Missing(s, e) => Missing(u, e)
        BY <1>3, <1>4, <3>2 DEF Missing, Ended
      <4> QED
        BY <1>3, <1>4, <2>3, <3>2, <4>2, <4>3 DEF Right, Sound, Births, Ended
    <3> QED
      BY <3>1, <3>2
  <2> QED
    BY <2>2, <2>3 DEF Births
<1>11. Woken(u, m)
  BY <1>1, <1>3, <1>4 DEF Right, Sound, Woken
<1>12. Pending(u, p)
  BY <1>4 DEF Right, Sound, Pending
<1>13. Counted(u, Nobody)
  BY <1>4, CountedSame DEF Right
<1>14. Frame(s, u, p)
  BY <1>1, <1>3, <1>4 DEF Frame, Ended
<1> QED
  BY <1>3, <1>6, <1>7, <1>8, <1>9, <1>10, <1>11, <1>12, <1>13, <1>14 DEF Right, Sound, u, x, c

-----------------------------------------------------------------------------
(* Handlers that change nothing the invariant is about, and one process.    *)

Local(s, u, q) ==
  /\ u \in States
  /\ u.proot = s.proot
  /\ \A e \in Pids \ {q} : u.t[e] = s.t[e] /\ u.k[e] = s.k[e]
  /\ Same(s.t[q], u.t[q])
  /\ AlikeK(s.k[q], u.k[q])

LEMMA LocalTwice ==
  ASSUME NEW s, NEW u, NEW v, NEW q \in Pids, Local(s, u, q), Local(u, v, q)
  PROVE  Local(s, v, q)
  BY DEF Local, Same, Alike, AlikeK

LEMMA SameSame ==
  ASSUME NEW s \in States, NEW q \in Pids
  PROVE  Same(s.t[q], s.t[q]) /\ Alike(s.t[q], s.t[q]) /\ AlikeK(s.k[q], s.k[q])
  BY StatesFields DEF Same, Alike, AlikeK

LEMMA LocalPut ==
  ASSUME NEW s \in States, NEW q \in Pids, NEW x, Same(s.t[q], x)
  PROVE  Local(s, Put(s, q, x), q) /\ Put(s, q, x).keep = s.keep
<1>1. x \in Tracee
  BY DEF Same, Alike
<1>2. /\ Put(s, q, x) \in States /\ Put(s, q, x).k = s.k /\ Put(s, q, x).proot = s.proot
      /\ Put(s, q, x).keep = s.keep
      /\ \A e \in Pids : Put(s, q, x).t[e] = IF e = q THEN x ELSE s.t[e]
  BY <1>1, PutFacts
<1> QED
  BY <1>2, SameSame DEF Local

LEMMA LocalPutK ==
  ASSUME NEW s \in States, NEW q \in Pids, NEW y, AlikeK(s.k[q], y)
  PROVE  Local(s, PutK(s, q, y), q) /\ PutK(s, q, y).keep = s.keep
<1>1. y \in Process
  BY DEF AlikeK
<1>2. /\ PutK(s, q, y) \in States /\ PutK(s, q, y).t = s.t /\ PutK(s, q, y).proot = s.proot
      /\ PutK(s, q, y).keep = s.keep
      /\ \A e \in Pids : PutK(s, q, y).k[e] = IF e = q THEN y ELSE s.k[e]
  BY <1>1, PutKFacts
<1> QED
  BY <1>2, SameSame DEF Local

LEMMA LocalKeep ==
  ASSUME NEW s \in States, NEW q \in Pids, NEW v \in BOOLEAN
  PROVE  Local(s, Keep(s, v), q) /\ Keep(s, v).keep = v
  BY KeepFacts, SameSame DEF Local

LEMMA LocalRight ==
  ASSUME NEW s, NEW p \in Pids, NEW b, NEW m, Right(s, p, b, m), NEW q \in Pids, NEW u,
         Local(s, u, q)
  PROVE  Right(u, p, b, m) /\ Frame(s, u, p)
<1> s \in States
  BY DEF Right
<1>1. \A e \in Pids : Same(s.t[e], u.t[e]) /\ AlikeK(s.k[e], u.k[e])
  BY SameSame DEF Local
<1>2. Moves(s, u, p, b)
  BY <1>1 DEF Moves, Loses, Local, Same, Alike
<1>3. Right(u, p, b, m)
  BY <1>1, <1>2, MovesRight DEF Same, Alike
<1>4. Frame(s, u, p)
  BY <1>1, <1>2, MovesSound DEF Frame, Right, Same, Alike, AlikeK, Local
<1> QED
  BY <1>3, <1>4

(* A signal that stops a new process.                                       *)
LEMMA SigstopLocal ==
  ASSUME NEW s \in States, NEW q \in Pids
  PROVE  /\ Local(s, OnSigstop(s, q), q)
         /\ OnSigstop(s, q).keep <=> ~s.t[q].exe
<1> DEFINE v == IF ~s.t[q].exe THEN "PENDING"
                ELSE IF s.t[q].sigstop = "IGNORED" THEN "ALLOWED" ELSE s.t[q].sigstop
           k1 == Keep(s, ~s.t[q].exe)
           x == [k1.t[q] EXCEPT !.sigstop = v]
<1>1. OnSigstop(s, q) = Put(k1, q, x)
  BY DEF OnSigstop, Put, Keep, States
<1>2. v \in {"IGNORED", "ALLOWED", "PENDING"} /\ (~s.t[q].exe) \in BOOLEAN
  BY StatesTypes
<1>3. Local(s, k1, q) /\ (k1.keep <=> ~s.t[q].exe)
  BY <1>2, LocalKeep
<1> HIDE DEF v, k1
<1>4. k1 \in States /\ k1.t[q] \in Tracee
  BY <1>3, StatesFields DEF Local
<1>5. Same(k1.t[q], x)
  BY <1>2, <1>4, SetStates
<1> HIDE DEF x
<1>6. Local(k1, Put(k1, q, x), q) /\ Put(k1, q, x).keep = k1.keep
  BY <1>4, <1>5, LocalPut
<1> QED
  BY <1>1, <1>3, <1>6, LocalTwice

(* The start of a call.                                                     *)
LEMMA WaitEnterLocal ==
  ASSUME NEW s \in States, NEW q \in Pids
  PROVE  Local(s, translate_wait_enter(s, q), q) /\ translate_wait_enter(s, q).keep = s.keep
<1> DEFINE x == [s.t[q] EXCEPT !.waitsIn = "KERNEL"]
           y == [s.t[q] EXCEPT !.waitsIn = "PROOT"]
           v == Put(s, q, y)
           z == [v.k[q] EXCEPT !.void = TRUE]
<1>1. translate_wait_enter(s, q) \in {Put(s, q, x), PutK(v, q, z)}
  BY DEF translate_wait_enter, Put, PutK, States
<1>2. s.t[q] \in Tracee
  BY StatesFields
<1>3. Same(s.t[q], x) /\ Same(s.t[q], y)
  BY <1>2, SetStates
<1>4. Local(s, Put(s, q, x), q) /\ Put(s, q, x).keep = s.keep
  BY <1>3, LocalPut
<1>5. Local(s, v, q) /\ v.keep = s.keep
  BY <1>3, LocalPut
<1> HIDE DEF v
<1>6. v \in States /\ v.k[q] \in Process
  BY <1>5, StatesFields DEF Local
<1>7. AlikeK(v.k[q], z)
  BY <1>6, SetVoid
<1>8. Local(v, PutK(v, q, z), q) /\ PutK(v, q, z).keep = v.keep
  BY <1>6, <1>7, LocalPutK
<1>9. Local(s, PutK(v, q, z), q) /\ PutK(v, q, z).keep = s.keep
  BY <1>5, <1>8, LocalTwice
<1> QED
  BY <1>1, <1>4, <1>9

LEMMA EnterLocal ==
  ASSUME NEW s \in States, NEW q \in Pids
  PROVE  Local(s, OnEnter(s, q), q) /\ OnEnter(s, q).keep = s.keep
<1> DEFINE e == Put(s, q, [s.t[q] EXCEPT !.status = "exit"])
           v == s.k[q].call.what \notin {"none", "other"}
           y == [e.k[q] EXCEPT !.void = v]
<1>1. OnEnter(s, q) \in {e, translate_wait_enter(e, q), PutK(e, q, y)}
  BY DEF OnEnter, Put, PutK, States
<1>2. s.t[q] \in Tracee
  BY StatesFields
<1>3. Same(s.t[q], [s.t[q] EXCEPT !.status = "exit"])
  BY <1>2, SetStates
<1>4. Local(s, e, q) /\ e.keep = s.keep
  BY <1>3, LocalPut
<1>5. v \in BOOLEAN
  OBVIOUS
<1> HIDE DEF e, v
<1>6. e \in States /\ e.k[q] \in Process
  BY <1>4, StatesFields DEF Local
<1>7. AlikeK(e.k[q], y)
  BY <1>5, <1>6, SetVoid
<1>8. Local(e, PutK(e, q, y), q) /\ PutK(e, q, y).keep = e.keep
  BY <1>6, <1>7, LocalPutK
<1>9. Local(e, translate_wait_enter(e, q), q) /\ translate_wait_enter(e, q).keep = e.keep
  BY <1>6, WaitEnterLocal
<1> HIDE DEF y
<1>10. Local(s, PutK(e, q, y), q) /\ Local(s, translate_wait_enter(e, q), q)
  BY <1>4, <1>8, <1>9, LocalTwice
<1> QED
  BY <1>1, <1>4, <1>8, <1>9, <1>10

(* The stops that are handled in the same way whoever traces the guest, but  *)
(* for its end.                                                             *)
LEMMA StopFacts ==
  ASSUME NEW s \in States, NEW q \in Pids, NEW event \in Kept \ {"none"}
  PROVE  LET u == HandleStop(s, q, event)
         IN  /\ u \in States /\ u.proot = s.proot
             /\ \A e \in Pids \ {q} : u.t[e] = s.t[e] /\ u.k[e] = s.k[e]
             /\ Alike(s.t[q], u.t[q]) /\ AlikeK(s.k[q], u.k[q])
             /\ u.t[q].forProot = "none" /\ u.t[q].waitPid = s.t[q].waitPid
             /\ u.keep => event = "SIGSTOP"
             /\ event = "SIGSTOP" => (u.keep <=> ~s.t[q].exe)
<1> DEFINE x == [s.t[q] EXCEPT !.forProot = "none"]
           v == Put(s, q, x)
           h == Keep(v, FALSE)
           u == HandleStop(s, q, event)
<1>1. \/ event = "SIGSTOP" /\ u = OnSigstop(h, q)
      \/ event = "enter" /\ u = OnEnter(h, q)
      \/ event = "signal" /\ u = h
  BY DEF HandleStop, Put, Keep, States, Kept
<1>2. s.t[q] \in Tracee /\ "none" \in Events
  BY StatesFields DEF Events
<1>3. Alike(s.t[q], x) /\ x.forProot = "none" /\ x.waitPid = s.t[q].waitPid
  BY <1>2, SetForProot
<1> HIDE DEF x, u
<1>4. /\ v \in States /\ v.k = s.k /\ v.proot = s.proot
      /\ \A e \in Pids : v.t[e] = IF e = q THEN x ELSE s.t[e]
  BY <1>3, PutFacts DEF Alike
<1> HIDE DEF v
<1>5. h \in States /\ h.t = v.t /\ h.k = v.k /\ h.proot = v.proot /\ h.keep = FALSE
  BY <1>4, KeepFacts
<1> HIDE DEF h
<1>6. Local(h, u, q) /\ (event # "SIGSTOP" => u.keep = h.keep)
                     /\ (event = "SIGSTOP" => (u.keep <=> ~h.t[q].exe))
  <2>1. CASE event = "SIGSTOP" /\ u = OnSigstop(h, q)
    BY <1>5, <2>1, SigstopLocal
  <2>2. CASE event = "enter" /\ u = OnEnter(h, q)
    BY <1>5, <2>2, EnterLocal
  <2>3. CASE event = "signal" /\ u = h
    BY <1>5, <2>3, SameSame DEF Local
  <2> QED
    BY <1>1, <2>1, <2>2, <2>3
<1>7. AlikeK(s.k[q], s.k[q])
  BY SameSame
<1>8. u \in States /\ u.proot = s.proot
  BY <1>4, <1>5, <1>6 DEF Local
<1>9. \A e \in Pids \ {q} : u.t[e] = s.t[e] /\ u.k[e] = s.k[e]
  BY <1>4, <1>5, <1>6 DEF Local
<1>10. Alike(s.t[q], u.t[q]) /\ u.t[q].forProot = "none" /\ u.t[q].waitPid = s.t[q].waitPid
  BY <1>3, <1>4, <1>5, <1>6 DEF Local, Same, Alike
<1>11. AlikeK(s.k[q], u.k[q])
  BY <1>4, <1>5, <1>6, <1>7 DEF Local, AlikeK
<1>12. h.t[q].exe = s.t[q].exe
  BY <1>3, <1>4, <1>5 DEF Alike
<1>13. (u.keep => event = "SIGSTOP") /\ (event = "SIGSTOP" => (u.keep <=> ~s.t[q].exe))
  BY <1>5, <1>6, <1>12
<1> QED
  BY <1>8, <1>9, <1>10, <1>11, <1>13 DEF u

LEMMA StopRight ==
  ASSUME NEW s, NEW p \in Pids, NEW b, NEW m, Right(s, p, b, m), NEW q \in Pids,
         NEW event \in Kept \ {"none"}
  PROVE  LET u == HandleStop(s, q, event)
         IN  Right(u, p, b, m) /\ Frame(s, u, p) /\ u.proot = s.proot
<1> DEFINE u == HandleStop(s, q, event)
<1> s \in States
  BY DEF Right
<1>1. /\ u \in States /\ u.proot = s.proot
      /\ \A e \in Pids \ {q} : u.t[e] = s.t[e] /\ u.k[e] = s.k[e]
      /\ Alike(s.t[q], u.t[q]) /\ AlikeK(s.k[q], u.k[q])
      /\ u.t[q].forProot = "none" /\ u.t[q].waitPid = s.t[q].waitPid
  BY StopFacts
<1> HIDE DEF u
<1>2. \A e \in Pids :
        /\ Alike(s.t[e], u.t[e]) /\ AlikeK(s.k[e], u.k[e])
        /\ u.t[e].forProot \in {s.t[e].forProot, "none"} /\ u.t[e].waitPid = s.t[e].waitPid
  BY <1>1, SameSame
<1>3. Moves(s, u, p, b)
  BY <1>1, <1>2 DEF Moves, Loses, Alike, Kept
<1>4. Right(u, p, b, m)
  BY <1>2, <1>3, MovesRight DEF Alike
<1>5. Frame(s, u, p)
  BY <1>1, <1>2, <1>3, MovesSound DEF Frame, Right, Alike, AlikeK
<1> QED
  BY <1>1, <1>4, <1>5 DEF u

(* The end of the process of the round.                                     *)
LEMMA EndRight ==
  ASSUME NEW s, NEW p \in Pids, NEW b, NEW m, Right(s, p, b, m), Ended(s, p)
  PROVE  LET u == HandleStop(s, p, "EXITED")
         IN  /\ Right(u, p, b, IF p = Main /\ KillOnExit THEN "over" ELSE m)
             /\ \A q \in Pids : Ended(u, q) <=> Ended(s, q)
             /\ u.t[p].list = s.t[p].list /\ u.t[p].terminated
             /\ u.proot = s.proot /\ u.keep = FALSE
<1> DEFINE x == [s.t[p] EXCEPT !.forProot = "none"]
           v == Put(s, p, x)
           h == Keep(v, FALSE)
           e == Put(h, p, [h.t[p] EXCEPT !.terminated = TRUE])
           u == HandleStop(s, p, "EXITED")
<1> s \in States
  BY DEF Right
<1>1. u = IF p = Main /\ KillOnExit THEN kill_all_tracees(e) ELSE e
  BY DEF HandleStop, terminate_tracee, Put, Keep, States
<1>2. s.t[p] \in Tracee /\ "none" \in Events
  BY StatesFields DEF Events
<1>3. Alike(s.t[p], x) /\ x.forProot = "none" /\ x.waitPid = s.t[p].waitPid
  BY <1>2, SetForProot
<1> HIDE DEF x
<1>4. Right(v, p, b, m) /\ Frame(s, v, p)
  BY <1>3, PutRight
<1>5. v.proot = s.proot /\ v \in States
  BY <1>3, PutFacts DEF Alike
<1> HIDE DEF v
<1>6. Right(h, p, b, m) /\ Frame(v, h, p) /\ h.keep = FALSE /\ h.proot = v.proot
  BY <1>4, <1>5, KeepRight, KeepFacts
<1> HIDE DEF h
<1>7. Ended(h, p)
  BY <1>4, <1>6 DEF Frame
<1>8. h \in States
  BY <1>6 DEF Right
<1>9. [h.t[p] EXCEPT !.terminated = TRUE] \in Tracee /\ [h.t[p] EXCEPT !.terminated = TRUE].terminated
  <2>1. h.t[p] \in Tracee
    BY <1>8, StatesFields
  <2> QED
    BY <2>1, SetTerminated
<1>10. /\ Right(e, p, b, m)
       /\ \A q \in Pids : Ended(e, q) <=> Ended(h, q)
       /\ e.t[p].list = h.t[p].list /\ e.proot = h.proot /\ e.keep = h.keep
  BY <1>6, <1>7, TerminateRight
<1>11. e.t[p].terminated
  BY <1>8, <1>9, PutFacts
<1> HIDE DEF e
<1>12. e \in States
  BY <1>10 DEF Right
<1>13. LET w == kill_all_tracees(e)
       IN  /\ Right(w, p, b, "over")
           /\ \A q \in Pids : Ended(w, q) <=> Ended(e, q)
           /\ w.t = e.t /\ w.keep = e.keep /\ w.proot = e.proot
  BY <1>10, <1>12, KillAllRight, KillAllFacts
<1> HIDE DEF u
<1>14. /\ Right(u, p, b, IF p = Main /\ KillOnExit THEN "over" ELSE m)
       /\ \A q \in Pids : Ended(u, q) <=> Ended(e, q)
       /\ u.t = e.t /\ u.keep = e.keep /\ u.proot = e.proot
  BY <1>1, <1>10, <1>13
<1>15. \A q \in Pids : Ended(u, q) <=> Ended(s, q)
  BY <1>4, <1>6, <1>10, <1>14 DEF Frame
<1> QED
  BY <1>4, <1>5, <1>6, <1>10, <1>11, <1>14, <1>15 DEF u, Frame

-----------------------------------------------------------------------------
(* The guest that traces another is told.                                   *)

LEMMA UpdateSteps ==
  ASSUME NEW s \in States, NEW r \in Pids, NEW e \in Pids, s.t[e].ptracer = r
  PROVE  LET u == update_wait_status(s, r, e)
             d == detach_from_ptracer(s, e)
             c == Put(d, r, [d.t[r] EXCEPT !.chain = TRUE])
         IN  \/ s.t[e].list = "zombie" /\ u \in {Put(c, e, Unknown), Put(d, e, Unknown)}
             \/ s.t[e].list # "zombie" /\ u = Put(c, e, d.t[e])
             \/ u = Put(s, e, [s.t[e] EXCEPT !.forPtracer = "none", !.reported = TRUE])
<1> DEFINE d == detach_from_ptracer(s, e)
<1>1. d \in States
  BY DetachFacts
<1> HIDE DEF d
<1>2. update_wait_status(s, r, e) =
        IF s.t[e].parent = r /\ s.t[e].forPtracer = "EXITED"
          THEN [d EXCEPT !.t[r].chain = TRUE,
                         !.t[e] = IF s.t[e].list = "zombie" THEN Unknown ELSE d.t[e]]
        ELSE IF s.t[e].list = "zombie" THEN [d EXCEPT !.t[e] = Unknown]
        ELSE [s EXCEPT !.t[e] = [s.t[e] EXCEPT !.forPtracer = "none", !.reported = TRUE]]
  BY DEF update_wait_status, d
<1> QED
  BY <1>1, <1>2 DEF Put, States, d

(* The guest that is told about may be forgotten, not the others.           *)
Knows(s, u, e) ==
  /\ \A q \in Pids : u.t[q].terminated => s.t[q].terminated
  /\ \A q \in Pids \ {e} : u.t[q].ptracer = s.t[q].ptracer
  /\ \A q \in Pids : ~(q = e /\ s.t[e].list = "zombie") =>
       u.t[q].exe = s.t[q].exe /\ u.t[q].list = s.t[q].list
  /\ \A q \in Pids : u.t[q].forProot \in {s.t[q].forProot, "none"}

LEMMA UpdateFacts ==
  ASSUME NEW s \in States, NEW r \in Pids, NEW e \in Pids, s.t[e].ptracer = r
  PROVE  LET u == update_wait_status(s, r, e)
         IN  /\ u \in States /\ u.k = s.k /\ u.keep = s.keep
             /\ u.proot \in {s.proot, "aborted"}
             /\ Knows(s, u, e)
<1> DEFINE d == detach_from_ptracer(s, e)
           x == [d.t[r] EXCEPT !.chain = TRUE]
           c == Put(d, r, x)
           y == d.t[e]
           z == [s.t[e] EXCEPT !.forPtracer = "none", !.reported = TRUE]
           u == update_wait_status(s, r, e)
<1>1. /\ d \in States /\ d.k = s.k /\ d.keep = s.keep
      /\ d.proot \in {s.proot, "aborted"}
      /\ \A q \in Pids :
           /\ d.t[q].list = s.t[q].list /\ d.t[q].exe = s.t[q].exe
           /\ d.t[q].terminated = s.t[q].terminated
           /\ d.t[q].forProot = s.t[q].forProot
           /\ d.t[q].ptracer = IF q = e THEN Nobody ELSE s.t[q].ptracer
  BY DetachFacts
<1>2. \/ s.t[e].list = "zombie" /\ u \in {Put(c, e, Unknown), Put(d, e, Unknown)}
      \/ s.t[e].list # "zombie" /\ u = Put(c, e, y)
      \/ u = Put(s, e, z)
  BY UpdateSteps
<1> HIDE DEF d, u
<1>3. d.t[r] \in Tracee /\ s.t[e] \in Tracee /\ y \in Tracee
  BY <1>1, StatesFields
<1>4. Same(d.t[r], x)
  BY <1>3, SetFields
<1>5. Same(s.t[e], z)
  BY <1>3, SetForPtracer DEF Events
<1> HIDE DEF x, y, z
<1>6. /\ c \in States /\ c.k = s.k /\ c.keep = s.keep
      /\ c.proot \in {s.proot, "aborted"}
      /\ \A q \in Pids :
           /\ c.t[q].list = s.t[q].list /\ c.t[q].exe = s.t[q].exe
           /\ c.t[q].terminated = s.t[q].terminated
           /\ c.t[q].forProot = s.t[q].forProot
           /\ c.t[q].ptracer = IF q = e THEN Nobody ELSE s.t[q].ptracer
  <2>1. x \in Tracee
    BY <1>4 DEF Same, Alike
  <2>2. /\ c \in States /\ c.k = d.k /\ c.keep = d.keep /\ c.proot = d.proot
        /\ \A q \in Pids : c.t[q] = IF q = r THEN x ELSE d.t[q]
    BY <1>1, <2>1, PutFacts
  <2> HIDE DEF c
  <2> QED
    BY <1>1, <1>4, <2>2 DEF Same, Alike
<1> HIDE DEF c
<1>7. CASE s.t[e].list = "zombie" /\ u = Put(c, e, Unknown)
  <2>1. /\ u \in States /\ u.k = c.k /\ u.keep = c.keep /\ u.proot = c.proot
        /\ \A q \in Pids : u.t[q] = IF q = e THEN Unknown ELSE c.t[q]
    BY <1>6, <1>7, PutFacts, UnknownType
  <2> QED
    BY <1>6, <1>7, <2>1, UnknownType DEF Knows, u
<1>8. CASE s.t[e].list = "zombie" /\ u = Put(d, e, Unknown)
  <2>1. /\ u \in States /\ u.k = d.k /\ u.keep = d.keep /\ u.proot = d.proot
        /\ \A q \in Pids : u.t[q] = IF q = e THEN Unknown ELSE d.t[q]
    BY <1>1, <1>8, PutFacts, UnknownType
  <2> QED
    BY <1>1, <1>8, <2>1, UnknownType DEF Knows, u
<1>9. CASE s.t[e].list # "zombie" /\ u = Put(c, e, y)
  <2> y \in Tracee
    BY <1>3 DEF y
  <2>1. /\ u \in States /\ u.k = c.k /\ u.keep = c.keep /\ u.proot = c.proot
        /\ \A q \in Pids : u.t[q] = IF q = e THEN y ELSE c.t[q]
    BY <1>6, <1>9, PutFacts
  <2> QED
    BY <1>1, <1>6, <2>1 DEF Knows, u, y
<1>10. CASE u = Put(s, e, z)
  <2>1. z \in Tracee
    BY <1>5 DEF Same, Alike
  <2>2. /\ u \in States /\ u.k = s.k /\ u.keep = s.keep /\ u.proot = s.proot
        /\ \A q \in Pids : u.t[q] = IF q = e THEN z ELSE s.t[q]
    BY <1>10, <2>1, PutFacts
  <2> QED
    BY <1>5, <2>2 DEF Knows, Same, Alike, u
<1> QED
  BY <1>2, <1>7, <1>8, <1>9, <1>10

LEMMA UpdateRight ==
  ASSUME NEW s, NEW p \in Pids, NEW b, NEW m, Right(s, p, b, m),
         NEW r \in Pids, NEW e \in Pids, s.t[e].ptracer = r, e # p \/ s.t[e].list # "zombie"
  PROVE  LET u == update_wait_status(s, r, e)
         IN  Right(u, p, b, m) /\ Frame(s, u, p) /\ u.proot = s.proot
<1> DEFINE d == detach_from_ptracer(s, e)
           x == [d.t[r] EXCEPT !.chain = TRUE]
           c == Put(d, r, x)
           y == d.t[e]
           z == [s.t[e] EXCEPT !.forPtracer = "none", !.reported = TRUE]
           u == update_wait_status(s, r, e)
<1> s \in States
  BY DEF Right
<1>1. Right(d, p, b, m) /\ Frame(s, d, p) /\ d.proot = s.proot
  BY DetachRight
<1>2. \/ s.t[e].list = "zombie" /\ u \in {Put(c, e, Unknown), Put(d, e, Unknown)}
      \/ s.t[e].list # "zombie" /\ u = Put(c, e, y)
      \/ u = Put(s, e, z)
  BY UpdateSteps
<1>3. d.t[e].list = s.t[e].list /\ d.t[e].ptracer = Nobody
  BY DetachFacts
<1> HIDE DEF d, u
<1>4. d \in States
  BY <1>1 DEF Right
<1>5. d.t[r] \in Tracee /\ s.t[e] \in Tracee /\ y \in Tracee
  BY <1>4, StatesFields
<1>6. Same(d.t[r], x)
  BY <1>5, SetFields
<1>7. Same(s.t[e], z)
  BY <1>5, SetForPtracer DEF Events
<1> HIDE DEF x, y, z
<1>8. Right(c, p, b, m) /\ Frame(d, c, p)
  BY <1>1, <1>6, PutSameRight
<1>9. e # r
  BY TraceesAssumption DEF Right, Sound, Tracers
<1>10. c.t[e] = d.t[e] /\ c.proot = d.proot
  BY <1>4, <1>6, <1>9, PutFacts DEF Same, Alike
<1> HIDE DEF c
<1>11. CASE s.t[e].list = "zombie" /\ u = Put(c, e, Unknown)
  <2>1. Right(u, p, b, m) /\ Frame(c, u, p)
    BY <1>3, <1>8, <1>10, <1>11, ReapRight
  <2>2. u.proot = c.proot
    BY <1>8, <1>11, PutFacts, UnknownType DEF Right
  <2> QED
    BY <1>1, <1>8, <1>10, <2>1, <2>2, FrameTwice DEF u
<1>12. CASE s.t[e].list = "zombie" /\ u = Put(d, e, Unknown)
  <2>1. Right(u, p, b, m) /\ Frame(d, u, p)
    BY <1>1, <1>3, <1>12, ReapRight
  <2>2. u.proot = d.proot
    BY <1>4, <1>12, PutFacts, UnknownType
  <2> QED
    BY <1>1, <2>1, <2>2, FrameTwice DEF u
<1>13. CASE s.t[e].list # "zombie" /\ u = Put(c, e, y)
  <2>1. Same(c.t[e], y)
    BY <1>4, <1>10, SameSame DEF y
  <2>2. Right(u, p, b, m) /\ Frame(c, u, p)
    BY <1>8, <1>13, <2>1, PutSameRight
  <2>3. u.proot = c.proot
    <3> y \in Tracee
      BY <1>5 DEF y
    <3> QED
      BY <1>8, <1>13, PutFacts DEF Right
  <2> QED
    BY <1>1, <1>8, <1>10, <2>2, <2>3, FrameTwice DEF u
<1>14. CASE u = Put(s, e, z)
  <2>1. Right(u, p, b, m) /\ Frame(s, u, p)
    BY <1>7, <1>14, PutSameRight
  <2>2. u.proot = s.proot
    BY <1>7, <1>14, PutFacts DEF Same, Alike
  <2> QED
    BY <2>1, <2>2 DEF u
<1> QED
  BY <1>2, <1>11, <1>12, <1>13, <1>14

LEMMA NotifySteps ==
  ASSUME NEW s \in States, NEW e \in Pids, NEW r \in Pids, s.t[e].ptracer = r,
         NEW event \in Events, NEW keep \in BOOLEAN
  PROVE  LET v == Put(s, e, [s.t[e] EXCEPT !.forPtracer = event])
             n == Keep(v, keep)
             w == update_wait_status(n, r, e)
             u == Put(w, r, [w.t[r] EXCEPT !.waitPid = Nobody])
         IN  Notify(s, e, event, keep) =
               IF s.t[r].waitPid \in {Any, e}
                 THEN Keep(restart_tracee(u, r), keep /\ CanRestart(u, r))
                 ELSE n
<1> DEFINE v == Put(s, e, [s.t[e] EXCEPT !.forPtracer = event])
           n == Keep(v, keep)
           w == update_wait_status(n, r, e)
           u == Put(w, r, [w.t[r] EXCEPT !.waitPid = Nobody])
<1>1. s.t[e] \in Tracee
  BY StatesFields
<1>2. Same(s.t[e], [s.t[e] EXCEPT !.forPtracer = event])
  BY <1>1, SetForPtracer
<1>3. v \in States /\ v.t[e].ptracer = r
  BY <1>2, PutFacts DEF Same, Alike
<1>4. n \in States /\ n.t[e].ptracer = r
  BY <1>3, KeepFacts
<1>5. n = [s EXCEPT !.t[e].forPtracer = event, !.keep = keep]
  BY DEF Put, Keep, States
<1> HIDE DEF n
<1>6. w \in States
  BY <1>4, UpdateFacts
<1>7. u = [w EXCEPT !.t[r].waitPid = Nobody]
  BY <1>6 DEF Put, States
<1> HIDE DEF u, w
<1> QED
  BY <1>5, <1>7 DEF Notify, Keep, w, n, u

(* What telling a tracer leaves as it was, and what keep says: that the      *)
(* guest stays stopped, unless the tracer waits and has died.               *)
LEMMA NotifyFacts ==
  ASSUME NEW s \in States, NEW e \in Pids, NEW r \in Pids, s.t[e].ptracer = r,
         NEW event \in Events, NEW keep \in BOOLEAN
  PROVE  LET u == Notify(s, e, event, keep)
         IN  /\ u \in States /\ u.proot \in {s.proot, "aborted"}
             /\ Knows(s, u, e)
             /\ u.keep => keep
             /\ s.t[r].waitPid = Nobody \/ s.k[r].proc = "held" => (keep => u.keep)
<1> DEFINE v == Put(s, e, [s.t[e] EXCEPT !.forPtracer = event])
           n == Keep(v, keep)
           w == update_wait_status(n, r, e)
           x == [w.t[r] EXCEPT !.waitPid = Nobody]
           c == Put(w, r, x)
           d == restart_tracee(c, r)
           u == Notify(s, e, event, keep)
<1>1. s.t[e] \in Tracee
  BY StatesFields
<1>2. Same(s.t[e], [s.t[e] EXCEPT !.forPtracer = event])
  BY <1>1, SetForPtracer
<1>3. u = IF s.t[r].waitPid \in {Any, e} THEN Keep(d, keep /\ CanRestart(c, r)) ELSE n
  BY NotifySteps
<1> HIDE DEF u
<1>4. Local(s, v, e)
  BY <1>2, LocalPut
<1> HIDE DEF v
<1>5. n \in States /\ n.t = v.t /\ n.k = v.k /\ n.proot = v.proot /\ n.keep = keep
  BY <1>4, KeepFacts DEF Local
<1> HIDE DEF n
<1>6. \A q \in Pids : Same(s.t[q], n.t[q]) /\ AlikeK(s.k[q], n.k[q])
  BY <1>4, <1>5, SameSame DEF Local
<1>7. n.t[e].ptracer = r
  BY <1>6 DEF Same, Alike
<1>8. /\ w \in States /\ w.k = n.k /\ w.proot \in {n.proot, "aborted"}
      /\ Knows(n, w, e)
  BY <1>5, <1>7, UpdateFacts
<1> HIDE DEF w
<1>9. Alike(w.t[r], x) /\ x.waitPid = Nobody /\ x.forProot = w.t[r].forProot
  <2>1. w.t[r] \in Tracee /\ Nobody \in Pids \cup {Any, Nobody}
    BY <1>8, StatesFields
  <2> QED
    BY <2>1, SetWaitPid
<1> HIDE DEF x
<1>10. /\ c \in States /\ c.k = w.k /\ c.proot = w.proot
       /\ \A q \in Pids : c.t[q] = IF q = r THEN x ELSE w.t[q]
  BY <1>8, <1>9, PutFacts DEF Alike
<1> HIDE DEF c
<1>11. \A q \in Pids : Alike(w.t[q], c.t[q]) /\ c.t[q].forProot = w.t[q].forProot
  BY <1>8, <1>9, <1>10, SameSame
<1>12. /\ d \in States /\ d.proot = c.proot
       /\ \A q \in Pids : Same(c.t[q], d.t[q])
  BY <1>10, RestartFacts
<1> HIDE DEF d
<1>13. c.t[r].waitPid = Nobody /\ c.k[r].proc = s.k[r].proc
  BY <1>6, <1>8, <1>9, <1>10 DEF AlikeK
<1>14. CanRestart(c, r) <=> s.k[r].proc = "held"
  BY <1>13 DEF CanRestart, Waiting
<1>15. CASE s.t[r].waitPid \in {Any, e}
  <2> DEFINE kp == keep /\ CanRestart(c, r)
  <2>1. u = Keep(d, kp) /\ kp \in BOOLEAN
    BY <1>3, <1>15
  <2>2. kp <=> keep /\ s.k[r].proc = "held"
    BY <1>14
  <2> HIDE DEF kp
  <2>3. u \in States /\ u.t = d.t /\ u.proot = d.proot /\ u.keep = kp
    BY <1>12, <2>1, KeepFacts
  <2>4. Knows(s, u, e)
    BY <1>6, <1>8, <1>11, <1>12, <2>3 DEF Knows, Same, Alike
  <2>5. u.proot \in {s.proot, "aborted"}
    BY <1>4, <1>5, <1>8, <1>10, <1>12, <2>3 DEF Local
  <2>6. s.t[r].waitPid # Nobody
    BY <1>15, TraceesAssumption
  <2> QED
    BY <2>2, <2>3, <2>4, <2>5, <2>6 DEF u
<1>16. CASE s.t[r].waitPid \notin {Any, e}
  <2>1. u = n
    BY <1>3, <1>16
  <2>2. Knows(s, u, e)
    BY <1>6, <2>1 DEF Knows, Same, Alike
  <2>3. u.proot = s.proot
    BY <1>4, <1>5, <2>1 DEF Local
  <2> QED
    BY <1>5, <2>1, <2>2, <2>3 DEF u
<1> QED
  BY <1>15, <1>16

LEMMA NotifyRight ==
  ASSUME NEW s, NEW p \in Pids, NEW b, NEW m, Right(s, p, b, m),
         NEW e \in Pids, NEW r \in Pids, s.t[e].ptracer = r, s.t[e].list # "zombie",
         r # p, r # b, NEW event \in Events, NEW keep \in BOOLEAN
  PROVE  LET u == Notify(s, e, event, keep)
         IN  /\ Right(u, p, b, m) /\ Frame(s, u, p) /\ u.proot = s.proot
             /\ m = "calm" => (keep => u.keep)
<1> DEFINE v == Put(s, e, [s.t[e] EXCEPT !.forPtracer = event])
           n == Keep(v, keep)
           w == update_wait_status(n, r, e)
           x == [w.t[r] EXCEPT !.waitPid = Nobody]
           c == Put(w, r, x)
           d == restart_tracee(c, r)
           u == Notify(s, e, event, keep)
<1> s \in States
  BY DEF Right
<1>1. s.t[e] \in Tracee
  BY StatesFields
<1>2. Same(s.t[e], [s.t[e] EXCEPT !.forPtracer = event])
  BY <1>1, SetForPtracer
<1>3. u = IF s.t[r].waitPid \in {Any, e} THEN Keep(d, keep /\ CanRestart(c, r)) ELSE n
  BY NotifySteps
<1>4. m = "calm" => (keep => u.keep)
  <2>1. m = "calm" => s.t[r].waitPid = Nobody \/ s.k[r].proc = "held"
    BY DEF Right, Sound, Woken
  <2> QED
    BY <2>1, NotifyFacts
<1> HIDE DEF u
<1>5. Local(s, v, e)
  BY <1>2, LocalPut
<1> HIDE DEF v
<1>6. Right(v, p, b, m) /\ Frame(s, v, p) /\ v.proot = s.proot
  BY <1>5, LocalRight DEF Local
<1>7. v.t[e].ptracer = r /\ v.t[e].list # "zombie" /\ v.t[r].exe = s.t[r].exe
  BY <1>5, SameSame DEF Local, Same, Alike
<1>8. Right(n, p, b, m) /\ Frame(v, n, p) /\ n.proot = v.proot /\ n.t = v.t
  BY <1>6, KeepRight, KeepFacts DEF Right
<1> HIDE DEF n
<1>9. Right(w, p, b, m) /\ Frame(n, w, p) /\ w.proot = n.proot
  BY <1>7, <1>8, UpdateRight
<1>10. s.t[r].exe
  BY TraceesAssumption DEF Right, Sound, Tracers
<1>11. w.t[r].exe
  <2>1. Knows(n, w, e)
    BY <1>7, <1>8, UpdateFacts DEF Right
  <2> QED
    BY <1>7, <1>8, <1>10, <2>1 DEF Knows
<1> HIDE DEF w
<1>12. Alike(w.t[r], x) /\ x.waitPid = Nobody /\ x.forProot = w.t[r].forProot
  <2>1. w.t[r] \in Tracee /\ Nobody \in Pids \cup {Any, Nobody}
    BY <1>9, StatesFields DEF Right
  <2> QED
    BY <2>1, SetWaitPid
<1> HIDE DEF x
<1>13. Right(c, p, b, m) /\ Frame(w, c, p)
  BY <1>9, <1>12, PutRight
<1>14. c.t[r].exe /\ c.proot = w.proot
  <2>1. w \in States /\ x \in Tracee /\ x.exe
    BY <1>9, <1>11, <1>12 DEF Alike, Right
  <2> QED
    BY <2>1, PutFacts
<1> HIDE DEF c
<1>15. Right(d, p, b, m) /\ Frame(c, d, p) /\ d.proot = c.proot
  BY <1>13, <1>14, RestartRight, RestartFacts DEF Right
<1> HIDE DEF d
<1>16. Frame(s, n, p)
  BY <1>6, <1>8, FrameTwice
<1>17. Frame(s, d, p)
  BY <1>9, <1>13, <1>15, <1>16, FrameTwice
<1>18. CASE s.t[r].waitPid \in {Any, e}
  <2> DEFINE kp == keep /\ CanRestart(c, r)
  <2>1. u = Keep(d, kp) /\ kp \in BOOLEAN
    BY <1>3, <1>18
  <2> HIDE DEF kp
  <2>2. Right(u, p, b, m) /\ Frame(d, u, p) /\ u.proot = d.proot
    BY <1>15, <2>1, KeepRight, KeepFacts DEF Right
  <2>3. Frame(s, u, p)
    BY <1>17, <2>2, FrameTwice
  <2> QED
    BY <1>4, <1>6, <1>8, <1>9, <1>14, <1>15, <2>2, <2>3 DEF u
<1>19. CASE s.t[r].waitPid \notin {Any, e}
  BY <1>3, <1>4, <1>6, <1>8, <1>16, <1>19 DEF u
<1> QED
  BY <1>18, <1>19

-----------------------------------------------------------------------------
(* new_child: the parent's fork is handled, and the new process goes on if   *)
(* its first stop was seen before.                                          *)

NewBorn(s, p) ==
  LET c == s.k[p].child
      a == IF ~s.t[c].exe /\ s.t[c].parent = Nobody /\ s.t[c].ptracer = Nobody
             THEN s ELSE Becomes(s, "aborted")
  IN  Put(a, c, [s.t[c] EXCEPT !.list = "tracees", !.exe = TRUE, !.parent = p])

NewTraced(s, p) ==
  LET c == s.k[p].child
      a == attach_to_ptracer(NewBorn(s, p), c, s.t[p].ptracer)
  IN  IF s.t[p].ptracer # Nobody /\ s.t[p].options
        THEN Put(a, c, [a.t[c] EXCEPT !.options = TRUE])
        ELSE NewBorn(s, p)

NewAllowed(s, p) ==
  LET c == s.k[p].child
      a == NewTraced(s, p)
  IN  Put(a, c, [a.t[c] EXCEPT !.sigstop = "ALLOWED"])

NewStarted(s, p) ==
  LET c == s.k[p].child
      a == NewAllowed(s, p)
  IN  Put(a, c, [a.t[c] EXCEPT !.started = TRUE])

NewTold(s, p) ==
  LET c == s.k[p].child
      a == Notify(NewStarted(s, p), c, "SIGSTOP", TRUE)
  IN  Put(a, c, [a.t[c] EXCEPT !.forProot = "none"])

LEMMA NewChildSteps ==
  ASSUME NEW s \in States, NEW p \in Pids
  PROVE  LET c == s.k[p].child
             a == NewTraced(s, p)
             n == NewTold(s, p)
         IN  new_child(s, p) =
               IF a.t[c].sigstop # "PENDING" THEN a
               ELSE IF a.t[c].ptracer = Nobody THEN restart_tracee(NewAllowed(s, p), c)
               ELSE IF n.keep THEN n
               ELSE restart_tracee(n, c)
<1> DEFINE c == s.k[p].child
           r == s.t[p].ptracer
           b == [Asserted(s, ~s.t[c].exe /\ s.t[c].parent = Nobody /\ s.t[c].ptracer = Nobody)
                   EXCEPT !.t[c] = [s.t[c] EXCEPT !.list = "tracees", !.exe = TRUE, !.parent = p]]
           a == IF r # Nobody /\ s.t[p].options
                  THEN [attach_to_ptracer(b, c, r) EXCEPT !.t[c].options = TRUE] ELSE b
           w == [a EXCEPT !.t[c].sigstop = "ALLOWED"]
           v == [w EXCEPT !.t[c].started = TRUE]
           n == [Notify(v, c, "SIGSTOP", TRUE) EXCEPT !.t[c].forProot = "none"]
<1>2. b = NewBorn(s, p)
  <2>1. Asserted(s, ~s.t[c].exe /\ s.t[c].parent = Nobody /\ s.t[c].ptracer = Nobody).t = s.t
    BY DEF Asserted, States
  <2> QED
    BY <2>1 DEF NewBorn, Put, Asserted, Becomes
<1> HIDE DEF b
<1>3. a = NewTraced(s, p)
  BY <1>2 DEF NewTraced, Put
<1> HIDE DEF a
<1>4. w = NewAllowed(s, p)
  BY <1>3 DEF NewAllowed, Put
<1> HIDE DEF w
<1>5. v = NewStarted(s, p)
  BY <1>4 DEF NewStarted, Put
<1> HIDE DEF v
<1>6. n = NewTold(s, p)
  BY <1>5 DEF NewTold, Put
<1> HIDE DEF n
<1>7. new_child(s, p) =
        IF a.t[c].sigstop # "PENDING" THEN a
        ELSE IF a.t[c].ptracer = Nobody THEN restart_tracee(w, c)
        ELSE IF n.keep THEN n
        ELSE restart_tracee(n, c)
  BY DEF new_child, a, b, c, r, w, n, v
<1> QED
  BY <1>3, <1>4, <1>6, <1>7

(* Whatever the new process is.  One that was handled before is an error.   *)
LEMMA NewTracedFacts ==
  ASSUME NEW s \in States, NEW p \in Pids, NEW c \in Pids, c = s.k[p].child, c # p,
         s.t[p].ptracer # Nobody =>
           s.t[s.t[p].ptracer].ptracees < Cardinality(Pids)
  PROVE  LET u == NewTraced(s, p)
         IN  /\ u \in States /\ u.k = s.k
             /\ u.proot \in {s.proot, "aborted"}
             /\ s.t[c].exe => u.proot = "aborted"
             /\ ~s.t[c].exe /\ s.t[c].parent = Nobody /\ s.t[c].ptracer = Nobody =>
                  u.proot = s.proot
             /\ \A q \in Pids : u.t[q].terminated = s.t[q].terminated
             /\ \A q \in Pids \ {c} : u.t[q].list = s.t[q].list /\ u.t[q].ptracer = s.t[q].ptracer
             /\ u.t[c].list = "tracees" /\ u.t[c].exe
<1> DEFINE a == IF ~s.t[c].exe /\ s.t[c].parent = Nobody /\ s.t[c].ptracer = Nobody
                  THEN s ELSE Becomes(s, "aborted")
           x == [s.t[c] EXCEPT !.list = "tracees", !.exe = TRUE, !.parent = p]
           b == NewBorn(s, p)
           r == s.t[p].ptracer
           e == attach_to_ptracer(b, c, r)
           y == [e.t[c] EXCEPT !.options = TRUE]
           u == NewTraced(s, p)
<1>1. b = Put(a, c, x)
  BY DEF NewBorn
<1>2. u = IF r # Nobody /\ s.t[p].options THEN Put(e, c, y) ELSE b
  BY DEF NewTraced
<1>3. s.t[c] \in Tracee
  BY StatesFields
<1>4. /\ x \in Tracee /\ x.list = "tracees" /\ x.exe
      /\ x.ptracer = s.t[c].ptracer /\ x.ptracees = s.t[c].ptracees
      /\ x.terminated = s.t[c].terminated
  BY <1>3, SetBorn
<1>5. /\ a \in States /\ a.t = s.t /\ a.k = s.k
      /\ a.proot \in {s.proot, "aborted"}
      /\ s.t[c].exe => a.proot = "aborted"
      /\ ~s.t[c].exe /\ s.t[c].parent = Nobody /\ s.t[c].ptracer = Nobody => a.proot = s.proot
  BY BecomesFacts
<1> HIDE DEF a, x, b, u
<1>6. /\ b \in States /\ b.k = s.k /\ b.proot = a.proot
      /\ \A q \in Pids : b.t[q] = IF q = c THEN x ELSE s.t[q]
  BY <1>1, <1>4, <1>5, PutFacts
<1>7. \A q \in Pids :
        /\ b.t[q].terminated = s.t[q].terminated
        /\ b.t[q].ptracer = s.t[q].ptracer /\ b.t[q].ptracees = s.t[q].ptracees
        /\ q # c => b.t[q].list = s.t[q].list
  BY <1>4, <1>6
<1>8. b.t[c].list = "tracees" /\ b.t[c].exe
  BY <1>4, <1>6
<1>9. CASE r # Nobody /\ s.t[p].options
  <2> r \in Pids
    BY <1>9, StatesTypes
  <2>1. b.t[r].ptracees < Cardinality(Pids)
    BY <1>7, <1>9
  <2>2. /\ e \in States
        /\ e.k = b.k /\ e.proot = b.proot
        /\ \A q \in Pids :
             /\ e.t[q].list = b.t[q].list /\ e.t[q].exe = b.t[q].exe
             /\ e.t[q].terminated = b.t[q].terminated
             /\ e.t[q].ptracer = IF q = c THEN r ELSE b.t[q].ptracer
    BY <1>6, <2>1, AttachFacts
  <2> HIDE DEF e
  <2>3. e.t[c] \in Tracee
    BY <2>2, StatesFields
  <2>4. Same(e.t[c], y)
    BY <2>3, SetFields
  <2> HIDE DEF y
  <2>5. Local(e, u, c)
    BY <1>2, <1>9, <2>2, <2>4, LocalPut
  <2>6. u \in States /\ u.proot = b.proot
    BY <2>2, <2>5 DEF Local
  <2>7. u.k = e.k
    BY <1>2, <1>9, <2>2, <2>4, PutFacts DEF Same, Alike
  <2>8. \A q \in Pids : Same(e.t[q], u.t[q])
    BY <2>2, <2>5, SameSame DEF Local
  <2>9. \A q \in Pids : u.t[q].terminated = s.t[q].terminated
    BY <1>7, <2>2, <2>8 DEF Same, Alike
  <2>10. \A q \in Pids \ {c} : u.t[q].list = s.t[q].list /\ u.t[q].ptracer = s.t[q].ptracer
    BY <1>7, <2>2, <2>8 DEF Same, Alike
  <2>11. u.t[c].list = "tracees" /\ u.t[c].exe
    BY <1>8, <2>2, <2>8 DEF Same, Alike
  <2> QED
    BY <1>5, <1>6, <2>2, <2>6, <2>7, <2>9, <2>10, <2>11 DEF u
<1>10. CASE ~(r # Nobody /\ s.t[p].options)
  <2>1. u = b
    BY <1>2, <1>10
  <2> QED
    BY <1>5, <1>6, <1>7, <1>8, <2>1 DEF u
<1> QED
  BY <1>9, <1>10

LEMMA NewStartedFacts ==
  ASSUME NEW s \in States, NEW p \in Pids, NEW c \in Pids, c = s.k[p].child,
         NewTraced(s, p) \in States
  PROVE  /\ Local(NewTraced(s, p), NewAllowed(s, p), c)
         /\ Local(NewTraced(s, p), NewStarted(s, p), c)
<1> DEFINE a == NewTraced(s, p)
           w == NewAllowed(s, p)
           v == NewStarted(s, p)
           x == [a.t[c] EXCEPT !.sigstop = "ALLOWED"]
           y == [w.t[c] EXCEPT !.started = TRUE]
<1>1. a.t[c] \in Tracee
  BY StatesFields
<1>2. Same(a.t[c], x)
  BY <1>1, SetStates
<1>3. w = Put(a, c, x) /\ v = Put(w, c, y)
  BY DEF NewAllowed, NewStarted
<1> HIDE DEF a, w, v, x
<1>4. Local(a, w, c)
  BY <1>2, <1>3, LocalPut DEF a
<1>5. w \in States /\ w.t[c] \in Tracee
  BY <1>4, StatesFields DEF Local
<1>6. Same(w.t[c], y)
  BY <1>5, SetFields
<1> HIDE DEF y
<1>7. Local(w, v, c)
  BY <1>3, <1>5, <1>6, LocalPut
<1> QED
  BY <1>4, <1>7, LocalTwice DEF a, w, v

LEMMA NewToldFacts ==
  ASSUME NEW s \in States, NEW p \in Pids, NEW c \in Pids, c = s.k[p].child,
         NewTraced(s, p) \in States, NEW r \in Pids, NewTraced(s, p).t[c].ptracer = r,
         NewTraced(s, p).t[c].list = "tracees", NewTraced(s, p).t[c].exe
  PROVE  LET a == NewTraced(s, p)
             u == NewTold(s, p)
         IN  /\ u \in States /\ u.proot \in {a.proot, "aborted"}
             /\ Knows(a, u, c) /\ u.t[c].exe
<1> DEFINE a == NewTraced(s, p)
           v == NewStarted(s, p)
           n == Notify(v, c, "SIGSTOP", TRUE)
           x == [n.t[c] EXCEPT !.forProot = "none"]
           u == NewTold(s, p)
<1>1. u = Put(n, c, x)
  BY DEF NewTold
<1>2. Local(a, v, c)
  BY NewStartedFacts
<1> HIDE DEF u, v, a
<1>3. \A q \in Pids : Same(a.t[q], v.t[q])
  BY <1>2, SameSame DEF Local, a
<1>4. v \in States /\ v.proot = a.proot
  BY <1>2 DEF Local
<1>5. v.t[c].ptracer = r /\ v.t[c].list = "tracees" /\ v.t[c].exe
  BY <1>3 DEF Same, Alike, a
<1>6. n \in States /\ n.proot \in {v.proot, "aborted"} /\ Knows(v, n, c)
  <2>1. "SIGSTOP" \in Events /\ TRUE \in BOOLEAN
    BY DEF Events
  <2> QED
    BY <1>4, <1>5, <2>1, NotifyFacts
<1> HIDE DEF n
<1>7. Alike(n.t[c], x) /\ x.forProot = "none"
  <2>1. n.t[c] \in Tracee /\ "none" \in Events
    BY <1>6, StatesFields DEF Events
  <2> QED
    BY <2>1, SetForProot
<1> HIDE DEF x
<1>8. /\ u \in States /\ u.proot = n.proot
      /\ \A q \in Pids : u.t[q] = IF q = c THEN x ELSE n.t[q]
  BY <1>1, <1>6, <1>7, PutFacts DEF Alike
<1>9. \A q \in Pids : Alike(n.t[q], u.t[q]) /\ u.t[q].forProot \in {n.t[q].forProot, "none"}
  BY <1>6, <1>7, <1>8, SameSame
<1>10. Knows(a, u, c) /\ u.t[c].exe
  BY <1>3, <1>5, <1>6, <1>9 DEF Knows, Same, Alike
<1> QED
  BY <1>4, <1>6, <1>8, <1>10 DEF a, u

LEMMA NewChildFacts ==
  ASSUME NEW s \in States, NEW p \in Pids, NEW c \in Pids, c = s.k[p].child, c # p,
         s.t[p].ptracer # Nobody =>
           s.t[s.t[p].ptracer].ptracees < Cardinality(Pids)
  PROVE  LET u == new_child(s, p)
         IN  /\ u \in States
             /\ s.t[c].exe => u.proot = "aborted"
             /\ \A q \in Pids : u.t[q].terminated => s.t[q].terminated
             /\ u.t[p].list = s.t[p].list /\ u.t[p].ptracer = s.t[p].ptracer
             /\ u.t[c].exe
<1> DEFINE a == NewTraced(s, p)
           w == NewAllowed(s, p)
           n == NewTold(s, p)
           d == restart_tracee(w, c)
           e == restart_tracee(n, c)
           u == new_child(s, p)
<1>1. /\ a \in States
      /\ s.t[c].exe => a.proot = "aborted"
      /\ \A q \in Pids : a.t[q].terminated = s.t[q].terminated
      /\ \A q \in Pids \ {c} : a.t[q].list = s.t[q].list /\ a.t[q].ptracer = s.t[q].ptracer
      /\ a.t[c].list = "tracees" /\ a.t[c].exe
  BY NewTracedFacts
<1>2. u = IF a.t[c].sigstop # "PENDING" THEN a
          ELSE IF a.t[c].ptracer = Nobody THEN d
          ELSE IF n.keep THEN n ELSE e
  BY NewChildSteps
<1>3. Local(a, w, c)
  BY <1>1, NewStartedFacts
<1>4. a.t[c].ptracer \in Pids =>
        /\ n \in States /\ n.proot \in {a.proot, "aborted"}
        /\ Knows(a, n, c) /\ n.t[c].exe
  BY <1>1, NewToldFacts
<1> HIDE DEF a, w, n, u
<1>5. CASE u = a
  BY <1>1, <1>5 DEF u
<1>6. CASE u = d
  <2>1. w \in States /\ w.proot = a.proot /\ \A q \in Pids : Same(a.t[q], w.t[q])
    BY <1>1, <1>3, SameSame DEF Local
  <2>2. d \in States /\ d.proot = w.proot /\ \A q \in Pids : Same(w.t[q], d.t[q])
    BY <2>1, RestartFacts
  <2> HIDE DEF d
  <2> QED
    BY <1>1, <1>6, <2>1, <2>2 DEF Same, Alike, u
<1>7. CASE a.t[c].ptracer # Nobody /\ u = n
  <2>1. a.t[c].ptracer \in Pids
    BY <1>1, <1>7, StatesTypes
  <2> QED
    BY <1>1, <1>4, <1>7, <2>1 DEF Knows, u
<1>8. CASE a.t[c].ptracer # Nobody /\ u = e
  <2>1. a.t[c].ptracer \in Pids
    BY <1>1, <1>8, StatesTypes
  <2>2. e \in States /\ e.proot = n.proot /\ \A q \in Pids : Same(n.t[q], e.t[q])
    BY <1>4, <2>1, RestartFacts
  <2> HIDE DEF e
  <2> QED
    BY <1>1, <1>4, <1>8, <2>1, <2>2 DEF Knows, Same, Alike, u
<1> QED
  BY <1>2, <1>5, <1>6, <1>7, <1>8

LEMMA NewTracedRight ==
  ASSUME NEW s, NEW p \in Pids, NEW m, Right(s, p, p, m),
         s.k[p].proc = "held", s.k[p].event = "FORK"
  PROVE  LET u == NewTraced(s, p)
         IN  Right(u, p, Nobody, m) /\ Frame(s, u, p) /\ u.proot = s.proot
<1> DEFINE c == s.k[p].child
           x == [s.t[c] EXCEPT !.list = "tracees", !.exe = TRUE, !.parent = p]
           b == NewBorn(s, p)
           r == s.t[p].ptracer
           e == attach_to_ptracer(b, c, r)
           y == [e.t[c] EXCEPT !.options = TRUE]
           u == NewTraced(s, p)
<1> s \in States
  BY DEF Right
<1>1. /\ c \in Pids \ {p}
      /\ ~s.t[c].exe /\ s.t[c].parent = Nobody /\ s.t[c].ptracer = Nobody
  BY UnbornChild
<1>2. b = Put(s, c, x)
  BY <1>1 DEF NewBorn
<1>3. Right(b, p, Nobody, m) /\ Frame(s, b, p)
  BY <1>2, BirthRight
<1>4. u = IF r # Nobody /\ s.t[p].options THEN Put(e, c, y) ELSE b
  BY DEF NewTraced
<1>5. b.proot = s.proot /\ b.t[c].ptracer = Nobody /\ b.t[c].exe
      /\ \A q \in Pids \ {c} : b.t[q] = s.t[q]
  <2>1. s.t[c] \in Tracee
    BY <1>1, StatesFields
  <2>2. x \in Tracee /\ x.exe /\ x.ptracer = s.t[c].ptracer
    BY <1>1, <2>1, SetBorn
  <2> HIDE DEF x, c
  <2> QED
    BY <1>1, <1>2, <2>2, PutFacts
<1> HIDE DEF b, u, c
<1>6. CASE r # Nobody /\ s.t[p].options
  <2>1. r \in Pids /\ s.t[r].exe
    BY <1>6, StatesTypes DEF Right, Sound, Tracers
  <2>2. r # c
    BY <1>1, <2>1
  <2>3. b.t[r].exe
    BY <1>5, <2>1, <2>2
  <2>4. Right(e, p, Nobody, m) /\ Frame(b, e, p)
    BY <1>1, <1>3, <1>5, <2>1, <2>2, <2>3, AttachRight
  <2>5. e.proot = b.proot
    BY <1>1, <1>3, <2>1, CountRoom, AttachFacts DEF Right, Sound
  <2> HIDE DEF e
  <2>6. e \in States /\ e.t[c] \in Tracee
    BY <1>1, <2>4, StatesFields DEF Right
  <2>7. Same(e.t[c], y)
    BY <2>6, SetFields
  <2> HIDE DEF y
  <2>8. Right(u, p, Nobody, m) /\ Frame(e, u, p)
    BY <1>1, <1>4, <1>6, <2>4, <2>7, PutSameRight
  <2>9. u.proot = e.proot
    BY <1>1, <1>4, <1>6, <2>6, <2>7, LocalPut DEF Local
  <2> QED
    BY <1>3, <1>5, <2>4, <2>5, <2>8, <2>9, FrameTwice DEF u
<1>7. CASE ~(r # Nobody /\ s.t[p].options)
  BY <1>3, <1>4, <1>5, <1>7 DEF u
<1> QED
  BY <1>6, <1>7

LEMMA FirstToldRight ==
  ASSUME NEW s, NEW p \in Pids, NEW m, Right(s, p, Nobody, m),
         NEW q \in Pids, NEW r \in Pids, s.t[q].ptracer = r, s.t[q].list # "zombie",
         r # p, r # Nobody
  PROVE  LET u == Notify(s, q, "SIGSTOP", TRUE)
         IN  Right(u, p, Nobody, m) /\ Frame(s, u, p) /\ u.proot = s.proot
<1>1. "SIGSTOP" \in Events /\ TRUE \in BOOLEAN
  BY DEF Events
<1> DEFINE u == Notify(s, q, "SIGSTOP", TRUE)
<1>2. Right(u, p, Nobody, m)
  BY <1>1, NotifyRight
<1>3. Frame(s, u, p)
  BY <1>1, NotifyRight
<1>4. \A event \in Events, keep \in BOOLEAN : Notify(s, q, event, keep).proot = s.proot
  BY NotifyRight
<1>5. u.proot = s.proot
  BY <1>1, <1>4
<1> QED
  BY <1>2, <1>3, <1>5

LEMMA NewChildRight ==
  ASSUME NEW s, NEW p \in Pids, NEW m, Right(s, p, p, m),
         s.k[p].proc = "held", s.k[p].event = "FORK"
  PROVE  LET u == new_child(s, p)
         IN  /\ Right(u, p, Nobody, m) /\ Frame(s, u, p) /\ u.proot = s.proot
             /\ u.t[s.k[p].child].exe /\ u.t[p].ptracer = s.t[p].ptracer
<1> DEFINE c == s.k[p].child
           a == NewTraced(s, p)
           w == NewAllowed(s, p)
           v == NewStarted(s, p)
           t1 == Notify(v, c, "SIGSTOP", TRUE)
           x == [t1.t[c] EXCEPT !.forProot = "none"]
           n == NewTold(s, p)
           d == restart_tracee(w, c)
           e == restart_tracee(n, c)
           u == new_child(s, p)
<1> s \in States
  BY DEF Right
<1>1. c \in Pids \ {p} /\ ~s.t[c].exe /\ s.t[c].parent = Nobody /\ s.t[c].ptracer = Nobody
  BY UnbornChild
<1>2. s.t[p].ptracer # Nobody => s.t[s.t[p].ptracer].ptracees < Cardinality(Pids)
  BY StatesTypes, CountRoom DEF Right, Sound
<1>3. u.t[c].exe /\ u.t[p].ptracer = s.t[p].ptracer
  BY <1>1, <1>2, NewChildFacts
<1>4. Right(a, p, Nobody, m) /\ Frame(s, a, p) /\ a.proot = s.proot
  BY NewTracedRight
<1>5. a \in States /\ a.t[c].list = "tracees" /\ a.t[c].exe
  BY <1>1, <1>2, NewTracedFacts
<1>6. a.t[p].ptracer = s.t[p].ptracer
  BY <1>1, <1>2, NewTracedFacts
<1>7. a.t[c].ptracer \in {Nobody, s.t[p].ptracer}
  <2>1. CASE s.t[p].ptracer = Nobody \/ ~s.t[p].options
    <3> DEFINE y == [s.t[c] EXCEPT !.list = "tracees", !.exe = TRUE, !.parent = p]
    <3>1. a = Put(s, c, y)
      BY <1>1, <2>1 DEF NewTraced, NewBorn
    <3>2. s.t[c] \in Tracee
      BY <1>1, StatesFields
    <3>3. y \in Tracee /\ y.ptracer = Nobody
      BY <1>1, <3>2, SetBorn
    <3> HIDE DEF a, y, c
    <3>4. a.t[c].ptracer = Nobody
      BY <1>1, <3>1, <3>3, PutFacts
    <3> QED
      BY <3>4
  <2>2. CASE s.t[p].ptracer # Nobody /\ s.t[p].options
    <3> DEFINE b == NewBorn(s, p)
               r == s.t[p].ptracer
               f == attach_to_ptracer(b, c, r)
    <3>1. a = Put(f, c, [f.t[c] EXCEPT !.options = TRUE])
      BY <2>2 DEF NewTraced
    <3>2. Right(b, p, Nobody, m)
      BY <1>1, BirthRight DEF NewBorn
    <3> HIDE DEF b, a, c
    <3>3. r \in Pids
      BY <2>2, StatesTypes
    <3>4. f \in States /\ f.t[c].ptracer = r
      BY <1>1, <3>2, <3>3, CountRoom, AttachFacts DEF Right, Sound
    <3> HIDE DEF f
    <3>5. f.t[c] \in Tracee
      BY <1>1, <3>4, StatesFields
    <3>6. Same(f.t[c], [f.t[c] EXCEPT !.options = TRUE])
      BY <3>5, SetFields
    <3>7. Same(f.t[c], a.t[c])
      BY <1>1, <3>1, <3>4, <3>6, PutFacts DEF Same, Alike
    <3> QED
      BY <3>4, <3>7 DEF Same, Alike
  <2> QED
    BY <2>1, <2>2
<1>8. Local(a, w, c) /\ Local(a, v, c)
  BY <1>1, <1>5, NewStartedFacts
<1>9. u = IF a.t[c].sigstop # "PENDING" THEN a
          ELSE IF a.t[c].ptracer = Nobody THEN d
          ELSE IF n.keep THEN n ELSE e
  BY NewChildSteps
<1>10. n = Put(t1, c, x)
  BY DEF NewTold
<1>11. a.t[c].ptracer \in Pids => Knows(a, n, c) /\ n.t[c].exe
  BY <1>1, <1>5, NewToldFacts
<1> HIDE DEF u, a, w, v, n
<1>12. CASE u = a
  BY <1>3, <1>4, <1>12 DEF u, c
<1>13. c # Nobody /\ c # p
  BY <1>1, TraceesAssumption
<1>14. CASE u = d
  <2>1. Right(w, p, Nobody, m) /\ Frame(a, w, p)
    BY <1>1, <1>4, <1>8, LocalRight
  <2>2. w.t[c].exe /\ w.proot = a.proot
    BY <1>5, <1>8 DEF Local, Same, Alike
  <2>3. Right(d, p, Nobody, m) /\ Frame(w, d, p) /\ d.proot = w.proot
    BY <1>1, <1>13, <2>1, <2>2, RestartRight, RestartFacts DEF Right
  <2> HIDE DEF d
  <2>4. Frame(s, w, p)
    BY <1>4, <2>1, FrameTwice
  <2>5. Frame(s, d, p)
    BY <2>3, <2>4, FrameTwice
  <2> QED
    BY <1>3, <1>4, <1>14, <2>2, <2>3, <2>5 DEF u, c
<1>15. ASSUME a.t[c].ptracer # Nobody
       PROVE  Right(n, p, Nobody, m) /\ Frame(s, n, p) /\ n.proot = s.proot /\ n.t[c].exe
  <2> DEFINE r == a.t[c].ptracer
  <2>1. r \in Pids /\ r = s.t[p].ptracer
    BY <1>1, <1>5, <1>7, <1>15, StatesTypes
  <2>2. r # p
    BY <1>15, <2>1, TraceesAssumption DEF Right, Sound, Tracers
  <2>3. Right(v, p, Nobody, m) /\ Frame(a, v, p)
    BY <1>1, <1>4, <1>8, LocalRight
  <2>4. v.t[c].ptracer = r /\ v.t[c].list # "zombie" /\ v.proot = a.proot
    BY <1>5, <1>8 DEF Local, Same, Alike
  <2>5. "SIGSTOP" \in Events /\ TRUE \in BOOLEAN /\ "none" \in Events /\ "none" \in Kept
    BY DEF Events, Kept
  <2>6. c \in Pids
    BY <1>1
  <2> HIDE DEF r, c
  <2>7. Right(t1, p, Nobody, m) /\ Frame(v, t1, p) /\ t1.proot = v.proot
    <3>1. r \in Pids /\ r # p /\ r # Nobody
      BY <2>1, <2>2, TraceesAssumption
    <3> QED
      BY <2>3, <2>4, <2>6, <3>1, FirstToldRight
  <2> HIDE DEF t1
  <2>8. t1 \in States /\ t1.t[c] \in Tracee
    BY <1>1, <2>7, StatesFields DEF Right
  <2>9. Alike(t1.t[c], x) /\ x.forProot = "none" /\ x.waitPid = t1.t[c].waitPid
    BY <2>5, <2>8, SetForProot
  <2> HIDE DEF x
  <2>10. Right(n, p, Nobody, m) /\ Frame(t1, n, p)
    BY <1>1, <1>10, <2>5, <2>7, <2>9, PutRight
  <2>11. n.proot = t1.proot
    <3>1. x \in Tracee
      BY <2>9 DEF Alike
    <3> QED
      BY <1>1, <1>10, <2>8, <3>1, PutFacts
  <2>12. Frame(s, v, p)
    BY <1>4, <2>3, FrameTwice
  <2>13. Frame(s, t1, p)
    BY <2>7, <2>12, FrameTwice
  <2>14. Frame(s, n, p)
    BY <2>10, <2>13, FrameTwice
  <2> QED
    BY <1>4, <1>11, <2>1, <2>4, <2>7, <2>10, <2>11, <2>14 DEF r
<1>16. CASE a.t[c].ptracer # Nobody /\ u = n
  BY <1>3, <1>15, <1>16 DEF u, c
<1>17. CASE a.t[c].ptracer # Nobody /\ u = e
  <2>1. Right(e, p, Nobody, m) /\ Frame(n, e, p) /\ e.proot = n.proot
    BY <1>1, <1>13, <1>15, <1>17, RestartRight, RestartFacts DEF Right
  <2> HIDE DEF e
  <2>2. Frame(s, e, p)
    BY <1>15, <1>17, <2>1, FrameTwice
  <2> QED
    BY <1>3, <1>15, <1>17, <2>1, <2>2 DEF u, c
<1> QED
  BY <1>9, <1>12, <1>14, <1>16, <1>17

-----------------------------------------------------------------------------
(* wait() of a guest that traces others.                                    *)

LEMMA CallTypes ==
  ASSUME NEW s \in States, NEW q \in Pids
  PROVE  /\ s.k[q].call.pid \in Pids \cup {Any, Nobody}
         /\ s.k[q].call.what \in Requests => s.k[q].call.pid \in Pids
         /\ s.k[q].call.what \in Requests \cup {"none", "other", "traceme", "wait"}
<1>1. s.k[q].call \in Calls
  BY StatesTypes
<1>2. \A c \in Calls :
        /\ c.pid \in Pids \cup {Any, Nobody}
        /\ c.what \in Requests => c.pid \in Pids
        /\ c.what \in Requests \cup {"none", "other", "traceme", "wait"}
  BY DEF Calls, Requests
<1> QED
  BY <1>1, <1>2

LEMMA WaitExitRight ==
  ASSUME NEW s, NEW p \in Pids, NEW b, NEW m, Right(s, p, b, m), s.k[p].proc = "held"
  PROVE  LET u == translate_wait_exit(s, p)
         IN  /\ Right(u, p, b, m) /\ Frame(s, u, p) /\ u.proot = s.proot
             /\ u.t[p].ptracer = s.t[p].ptracer
<1> DEFINE c == s.k[p].call
           told == Told(s, p, c.pid)
           x == [s.t[p] EXCEPT !.waitsIn = "NOWHERE"]
           w == Put(s, p, x)
           y == [w.t[p] EXCEPT !.waitPid = c.pid]
           zombies == {e \in told : s.t[e].list = "zombie"}
           first == CHOOSE e \in told : zombies # {} => e \in zombies
           u == translate_wait_exit(s, p)
<1> s \in States
  BY DEF Right
<1>1. u = IF told # {} THEN update_wait_status(w, p, first)
          ELSE IF s.t[p].ptracees # 0 /\ c.hang THEN Put(w, p, y)
          ELSE w
  BY DEF translate_wait_exit, Put
<1>2. told # {} => first \in told
  BY DEF zombies
<1> HIDE DEF first
<1>3. told # {} => first \in Pids /\ s.t[first].ptracer = p
  BY <1>2 DEF Told, Ptracees
<1>4. c.pid \in Pids \cup {Any, Nobody}
  BY CallTypes
<1> HIDE DEF c, told
<1>5. s.t[p] \in Tracee
  BY StatesFields
<1>6. Same(s.t[p], x)
  BY <1>5, SetStates
<1> HIDE DEF x
<1>7. Right(w, p, b, m) /\ Frame(s, w, p)
  BY <1>6, PutSameRight
<1>8. Local(s, w, p)
  BY <1>6, LocalPut
<1>9. /\ w \in States /\ w.proot = s.proot /\ w.k = s.k
      /\ \A q \in Pids : w.t[q].ptracer = s.t[q].ptracer
  BY <1>6, <1>8, PutFacts, SameSame DEF Local, Same, Alike
<1> HIDE DEF u, w
<1>10. CASE told # {}
  <2>1. first \in Pids /\ w.t[first].ptracer = p
    BY <1>3, <1>9, <1>10
  <2>2. first # p
    BY <1>7, <2>1, TraceesAssumption DEF Right, Sound, Tracers
  <2>3. Right(u, p, b, m) /\ Frame(w, u, p) /\ u.proot = w.proot
    BY <1>1, <1>7, <1>10, <2>1, <2>2, UpdateRight
  <2>4. Knows(w, u, first)
    BY <1>1, <1>9, <1>10, <2>1, UpdateFacts
  <2>5. u.t[p].ptracer = w.t[p].ptracer
    BY <2>2, <2>4 DEF Knows
  <2> QED
    BY <1>7, <1>9, <2>3, <2>5, FrameTwice DEF u
<1>11. CASE told = {} /\ u = Put(w, p, y)
  <2>1. w.t[p] \in Tracee
    BY <1>9, StatesFields
  <2>2. Alike(w.t[p], y) /\ y.forProot = w.t[p].forProot
    BY <1>4, <2>1, SetWaitPid
  <2> HIDE DEF y
  <2>3. Right(u, p, b, m) /\ Frame(w, u, p)
    BY <1>7, <1>9, <1>11, <2>2, PutRight
  <2>4. u.proot = w.proot /\ u.t[p].ptracer = w.t[p].ptracer
    BY <1>9, <1>11, <2>2, PutFacts DEF Alike
  <2> QED
    BY <1>7, <1>9, <2>3, <2>4, FrameTwice DEF u
<1>12. CASE u = w
  BY <1>7, <1>9, <1>12 DEF u
<1> QED
  BY <1>1, <1>10, <1>11, <1>12

-----------------------------------------------------------------------------
(* Requests of a guest to one it traces.                                    *)

LEMMA ReleasedFacts ==
  ASSUME NEW s \in States, NEW e \in Pids, s.t[e].forProot \in Kept
  PROVE  LET u == Released(s, e)
         IN  /\ u \in States /\ u.proot = s.proot
             /\ \A q \in Pids \ {e} : u.t[q] = s.t[q] /\ u.k[q] = s.k[q]
             /\ Alike(s.t[e], u.t[e]) /\ AlikeK(s.k[e], u.k[e])
             /\ u.t[e].forProot = "none" /\ u.t[e].waitPid = s.t[e].waitPid
             /\ u.keep => ~s.t[e].exe
<1> DEFINE event == s.t[e].forProot
           h == HandleStop(s, e, event)
           u == Released(s, e)
<1>1. u = IF event # "none" THEN h ELSE Keep(s, FALSE)
  BY DEF Released, Keep
<1>2. CASE event = "none"
  <2>1. u = Keep(s, FALSE)
    BY <1>1, <1>2
  <2>2. u \in States /\ u.t = s.t /\ u.k = s.k /\ u.keep = FALSE /\ u.proot = s.proot
    BY <2>1, KeepFacts
  <2> HIDE DEF u
  <2> QED
    BY <1>2, <2>2, SameSame DEF u
<1>3. CASE event # "none"
  <2>1. event \in Kept \ {"none"}
    BY <1>3
  <2>2. u = h
    BY <1>1, <1>3
  <2> HIDE DEF event, h
  <2>3. /\ h \in States /\ h.proot = s.proot
        /\ \A q \in Pids \ {e} : h.t[q] = s.t[q] /\ h.k[q] = s.k[q]
        /\ Alike(s.t[e], h.t[e]) /\ AlikeK(s.k[e], h.k[e])
        /\ h.t[e].forProot = "none" /\ h.t[e].waitPid = s.t[e].waitPid
        /\ h.keep => ~s.t[e].exe
    BY <2>1, StopFacts DEF h
  <2> HIDE DEF u
  <2> QED
    BY <2>2, <2>3 DEF u
<1> QED
  BY <1>2, <1>3

LEMMA ReleasedRight ==
  ASSUME NEW s, NEW p \in Pids, NEW b, NEW m, Right(s, p, b, m), NEW e \in Pids, e # p
  PROVE  LET u == Released(s, e)
         IN  /\ Right(u, p, b, m) /\ Frame(s, u, p) /\ u.proot = s.proot
             /\ u.t[e].exe = s.t[e].exe /\ u.t[p].ptracer = s.t[p].ptracer
             /\ u.keep => ~s.t[e].exe
<1> DEFINE event == s.t[e].forProot
           h == HandleStop(s, e, event)
           u == Released(s, e)
<1> s \in States
  BY DEF Right
<1>1. event \in Kept
  BY DEF Right, Sound, Pending
<1>2. /\ u.proot = s.proot
      /\ u.t[e].exe = s.t[e].exe /\ u.t[p].ptracer = s.t[p].ptracer
      /\ u.keep => ~s.t[e].exe
  BY <1>1, ReleasedFacts DEF Alike
<1>3. u = IF event # "none" THEN h ELSE Keep(s, FALSE)
  BY DEF Released, Keep
<1> HIDE DEF u
<1>4. Right(u, p, b, m) /\ Frame(s, u, p)
  <2>1. CASE event = "none"
    BY <1>3, <2>1, KeepRight
  <2>2. CASE event # "none"
    <3>1. event \in Kept \ {"none"}
      BY <1>1, <2>2
    <3> HIDE DEF event
    <3>2. Right(h, p, b, m) /\ Frame(s, h, p)
      BY <3>1, StopRight
    <3> QED
      BY <1>3, <2>2, <3>2
  <2> QED
    BY <2>1, <2>2
<1> QED
  BY <1>2, <1>4 DEF u

LEMMA RequestRight ==
  ASSUME NEW s, NEW p \in Pids, NEW b \in {p, Nobody}, NEW m, Right(s, p, b, m),
         NEW e \in Pids, NEW what \in {"cont", "syscall", "detach", "setoptions"}
  PROVE  LET u == Request(s, p, what, e)
         IN  /\ Right(u, p, b, m) /\ Frame(s, u, p) /\ u.proot = s.proot
             /\ u.t[p].ptracer = s.t[p].ptracer
<1> DEFINE o == CASE what = "cont"    -> Put(s, e, [s.t[e] EXCEPT !.ignoreCalls = TRUE])
                  [] what = "syscall" -> Put(s, e, [s.t[e] EXCEPT !.ignoreCalls = FALSE])
                  [] what = "detach"  -> detach_from_ptracer(s, e)
                  [] what = "setoptions" -> Put(s, e, [s.t[e] EXCEPT !.options = TRUE])
           h == Released(o, e)
           d == restart_tracee(h, e)
           u == Request(s, p, what, e)
<1> s \in States
  BY DEF Right
<1>1. u = IF s.t[e].list # "tracees" \/ s.t[e].ptracer # p \/ s.t[e].running THEN s
          ELSE IF what = "setoptions" THEN o
          ELSE IF what = "detach" /\ h.keep THEN h
          ELSE d
  BY DEF Request, Put
<1>2. Frame(s, s, p)
  BY DEF Frame
<1>3. CASE s.t[e].list # "tracees" \/ s.t[e].ptracer # p \/ s.t[e].running
  BY <1>1, <1>2, <1>3
<1>4. CASE s.t[e].list = "tracees" /\ s.t[e].ptracer = p /\ ~s.t[e].running
  <2>1. s.t[e].exe /\ e # p /\ e # b
    BY <1>4, TraceesAssumption DEF Right, Sound, Tracers
  <2>2. /\ Right(o, p, b, m) /\ Frame(s, o, p) /\ o.proot = s.proot
        /\ o.t[e].exe /\ o.t[p].ptracer = s.t[p].ptracer
    <3>1. ASSUME NEW x, Same(s.t[e], x)
          PROVE  LET v == Put(s, e, x)
                 IN  /\ Right(v, p, b, m) /\ Frame(s, v, p) /\ v.proot = s.proot
                     /\ v.t[e].exe /\ v.t[p].ptracer = s.t[p].ptracer
      <4>1. Right(Put(s, e, x), p, b, m) /\ Frame(s, Put(s, e, x), p)
        BY <3>1, PutSameRight
      <4>2. x \in Tracee /\ x.exe
        BY <2>1, <3>1 DEF Same, Alike
      <4> QED
        BY <2>1, <4>1, <4>2, PutFacts
    <3>2. s.t[e] \in Tracee
      BY StatesFields
    <3>3. /\ Same(s.t[e], [s.t[e] EXCEPT !.ignoreCalls = TRUE])
          /\ Same(s.t[e], [s.t[e] EXCEPT !.ignoreCalls = FALSE])
          /\ Same(s.t[e], [s.t[e] EXCEPT !.options = TRUE])
      BY <3>2, SetFields
    <3>4. CASE what = "detach"
      <4>1. o = detach_from_ptracer(s, e)
        BY <3>4
      <4> HIDE DEF o
      <4>2. Right(o, p, b, m) /\ Frame(s, o, p) /\ o.proot = s.proot
        BY <1>4, <4>1, DetachRight
      <4>3. o.t[e].exe /\ o.t[p].ptracer = s.t[p].ptracer
        BY <1>4, <2>1, <4>1, DetachFacts
      <4> QED
        BY <4>2, <4>3
    <3>5. CASE what # "detach"
      <4>1. \/ o = Put(s, e, [s.t[e] EXCEPT !.ignoreCalls = TRUE])
            \/ o = Put(s, e, [s.t[e] EXCEPT !.ignoreCalls = FALSE])
            \/ o = Put(s, e, [s.t[e] EXCEPT !.options = TRUE])
        BY <3>5
      <4> HIDE DEF o
      <4> QED
        BY <3>1, <3>3, <4>1
    <3> QED
      BY <3>4, <3>5
  <2> HIDE DEF o
  <2>3. /\ Right(h, p, b, m) /\ Frame(o, h, p) /\ h.proot = o.proot
        /\ h.t[e].exe /\ h.t[p].ptracer = o.t[p].ptracer
    BY <2>1, <2>2, ReleasedRight
  <2> HIDE DEF h
  <2>4. Right(d, p, b, m) /\ Frame(h, d, p)
    BY <2>1, <2>3, RestartRight
  <2>5. d.proot = h.proot /\ d.t[p] = h.t[p]
    BY <2>1, <2>3, RestartFacts DEF Right
  <2> HIDE DEF d
  <2>6. Frame(s, h, p) /\ Frame(s, d, p)
    BY <2>2, <2>3, <2>4, FrameTwice
  <2> HIDE DEF u
  <2>7. u \in {o, h, d}
    BY <1>1, <1>4
  <2> QED
    BY <2>2, <2>3, <2>4, <2>5, <2>6, <2>7 DEF u
<1> QED
  BY <1>3, <1>4

-----------------------------------------------------------------------------
(* The exit of a call.                                                      *)

LEMMA TraceMeSteps ==
  ASSUME NEW s \in States, NEW e \in Pids, NEW r \in Pids, r = s.t[e].parent
  PROVE  LET a == attach_to_ptracer(s, e, r)
             w == PutK(a, r, [a.k[r] EXCEPT !.sigstop = s.k[r].proc \in Living])
         IN  a \in States /\ a.k = s.k =>
               TraceMe(s, e) =
                 IF s.t[e].ptracer # Nobody THEN s
                 ELSE IF s.t[r].waitsIn = "KERNEL"
                   THEN Put(w, r, [w.t[r] EXCEPT !.sigstop = "IGNORED", !.waitsIn = "PROOT"])
                   ELSE a
<1> DEFINE a == attach_to_ptracer(s, e, r)
<1>1. r # Nobody
  BY TraceesAssumption
<1>2. TraceMe(s, e) =
        IF s.t[e].ptracer # Nobody THEN s
        ELSE IF s.t[r].waitsIn = "KERNEL"
          THEN [a EXCEPT !.k[r].sigstop = s.k[r].proc \in Living,
                         !.t[r] = [a.t[r] EXCEPT !.sigstop = "IGNORED", !.waitsIn = "PROOT"]]
        ELSE a
  BY <1>1 DEF TraceMe
<1> HIDE DEF a
<1> QED
  BY <1>2 DEF Put, PutK, States, a

LEMMA TraceMeRight ==
  ASSUME NEW s, NEW p \in Pids, NEW b, NEW m, Right(s, p, b, m),
         s.t[p].exe, s.t[p].list = "tracees"
  PROVE  LET u == TraceMe(s, p)
         IN  /\ Right(u, p, b, m) /\ Frame(s, u, p)
             /\ s.t[p].ptracer # Nobody => u.t[p].ptracer = s.t[p].ptracer
<1> DEFINE r == s.t[p].parent
           a == attach_to_ptracer(s, p, r)
           y == [a.k[r] EXCEPT !.sigstop = s.k[r].proc \in Living]
           w == PutK(a, r, y)
           x == [w.t[r] EXCEPT !.sigstop = "IGNORED", !.waitsIn = "PROOT"]
           v == Put(w, r, x)
           u == TraceMe(s, p)
<1> s \in States
  BY DEF Right
<1>1. Frame(s, s, p)
  BY DEF Frame
<1>2. CASE s.t[p].ptracer # Nobody
  BY <1>1, <1>2 DEF TraceMe
<1>3. CASE s.t[p].ptracer = Nobody /\ r = Nobody
  <2>1. u = Becomes(s, "crashed")
    BY <1>3 DEF TraceMe, Becomes
  <2>2. u \in States /\ u.t = s.t /\ u.k = s.k /\ u.proot = "crashed"
    BY <2>1, BecomesFacts
  <2> HIDE DEF u
  <2>3. Right(u, p, b, m) /\ Frame(s, u, p)
    BY <2>2, LikeRight
  <2> QED
    BY <1>3, <2>3 DEF u
<1>4. CASE s.t[p].ptracer = Nobody /\ r # Nobody
  <2>1. r \in Pids /\ r # p /\ s.t[r].exe
    BY <1>4, StatesTypes DEF Right, Sound, Listed
  <2> HIDE DEF r
  <2>2. Right(a, p, b, m) /\ Frame(s, a, p)
    BY <1>4, <2>1, AttachRight
  <2>3. a \in States /\ a.k = s.k
    BY <2>1, CountRoom, AttachFacts DEF Right, Sound
  <2>4. u = IF s.t[r].waitsIn = "KERNEL" THEN v ELSE a
    BY <1>4, <2>1, <2>3, TraceMeSteps DEF r
  <2> HIDE DEF a, u
  <2>5. AlikeK(a.k[r], y)
    <3>1. a.k[r] \in Process /\ (s.k[r].proc \in Living) \in BOOLEAN
      BY <2>1, <2>3, StatesFields
    <3> QED
      BY <3>1, SetVoid
  <2> HIDE DEF y
  <2>6. Right(w, p, b, m) /\ Frame(a, w, p)
    BY <2>1, <2>2, <2>5, PutKRight
  <2> HIDE DEF w
  <2>7. Same(w.t[r], x)
    <3>1. w.t[r] \in Tracee
      BY <2>1, <2>6, StatesFields DEF Right
    <3> QED
      BY <3>1, SetStates
  <2> HIDE DEF x
  <2>8. Right(v, p, b, m) /\ Frame(w, v, p)
    BY <2>1, <2>6, <2>7, PutSameRight
  <2> HIDE DEF v
  <2>9. Frame(s, w, p)
    BY <2>2, <2>6, FrameTwice
  <2>10. Frame(s, v, p)
    BY <2>8, <2>9, FrameTwice
  <2> QED
    BY <1>4, <2>2, <2>4, <2>8, <2>10 DEF u
<1> QED
  BY <1>2, <1>3, <1>4

AttachCall(s, p, e) ==
  [attach_to_ptracer(s, e, p) EXCEPT !.k[e].sigstop = s.k[e].proc \in Living]

LEMMA AttachCallRight ==
  ASSUME NEW s, NEW p \in Pids, NEW b, NEW m, Right(s, p, b, m), s.t[p].exe,
         NEW e \in Pids, e = s.k[p].call.pid, e # p, s.t[e].list = "tracees",
         s.t[e].ptracer = Nobody
  PROVE  LET u == AttachCall(s, p, e)
         IN  Right(u, p, b, m) /\ Frame(s, u, p) /\ u.t[p].ptracer = s.t[p].ptracer
<1> DEFINE a == attach_to_ptracer(s, e, p)
           y == [a.k[e] EXCEPT !.sigstop = s.k[e].proc \in Living]
           u == AttachCall(s, p, e)
<1> s \in States
  BY DEF Right
<1>1. s.t[e].exe
  BY DEF Right, Sound, Named, Missing
<1>2. Right(a, p, b, m) /\ Frame(s, a, p)
  BY <1>1, AttachRight
<1>3. a \in States /\ a.t[p].ptracer = s.t[p].ptracer
  BY CountRoom, AttachFacts DEF Right, Sound
<1> HIDE DEF a
<1>4. AlikeK(a.k[e], y)
  <2>1. a.k[e] \in Process /\ (s.k[e].proc \in Living) \in BOOLEAN
    BY <1>3, StatesFields
  <2> QED
    BY <2>1, SetVoid
<1>5. u = PutK(a, e, y)
  BY <1>3 DEF PutK, States, AttachCall, a
<1> HIDE DEF y, u
<1>6. Right(u, p, b, m) /\ Frame(a, u, p)
  BY <1>2, <1>4, <1>5, PutKRight
<1>7. u.t = a.t
  BY <1>3, <1>4, <1>5, PutKFacts DEF AlikeK
<1> QED
  BY <1>2, <1>3, <1>6, <1>7, FrameTwice DEF u

LEMMA PtraceExitRight ==
  ASSUME NEW s, NEW p \in Pids, NEW b \in {p, Nobody}, NEW m, Right(s, p, b, m),
         s.t[p].exe, s.t[p].list = "tracees", s.k[p].call.what \in Requests \cup {"traceme"}
  PROVE  LET u == translate_ptrace_exit(s, p)
         IN  /\ Right(u, p, b, m) /\ Frame(s, u, p)
             /\ s.t[p].ptracer # Nobody => u.t[p].ptracer = s.t[p].ptracer
<1> DEFINE c == s.k[p].call
           e == c.pid
           what == c.what
           u == translate_ptrace_exit(s, p)
<1> s \in States
  BY DEF Right
<1>1. what \in Requests => e \in Pids
  BY CallTypes
<1>2. Frame(s, s, p)
  BY DEF Frame
<1>3. CASE what = "traceme"
  <2>1. u = TraceMe(s, p)
    BY <1>3 DEF translate_ptrace_exit
  <2> QED
    BY <2>1, TraceMeRight
<1>4. CASE what = "attach"
  <2>1. u = IF s.t[e].list # "tracees" \/ s.t[e].ptracer # Nobody \/ e = p THEN s
            ELSE AttachCall(s, p, e)
    BY <1>4 DEF translate_ptrace_exit, AttachCall
  <2>2. e \in Pids /\ e = s.k[p].call.pid
    BY <1>1, <1>4 DEF Requests
  <2> HIDE DEF u, e, what, c
  <2>3. CASE s.t[e].list # "tracees" \/ s.t[e].ptracer # Nobody \/ e = p
    BY <1>2, <2>1, <2>3 DEF u
  <2>4. CASE ~(s.t[e].list # "tracees" \/ s.t[e].ptracer # Nobody \/ e = p)
    <3>1. u = AttachCall(s, p, e)
      BY <2>1, <2>4
    <3>2. Right(u, p, b, m) /\ Frame(s, u, p) /\ u.t[p].ptracer = s.t[p].ptracer
      BY <2>2, <2>4, <3>1, AttachCallRight
    <3> QED
      BY <3>2 DEF u
  <2> QED
    BY <2>3, <2>4
<1>5. CASE what \notin {"traceme", "attach"}
  <2>1. u = Request(s, p, what, e)
    BY <1>5 DEF translate_ptrace_exit
  <2>2. what \in {"cont", "syscall", "detach", "setoptions"} /\ e \in Pids
    BY <1>1, <1>5 DEF Requests
  <2> HIDE DEF u, e, what, c
  <2> QED
    BY <2>1, <2>2, RequestRight, FrameTwice DEF u
<1> QED
  BY <1>3, <1>4, <1>5

LEMMA ExitRight ==
  ASSUME NEW s, NEW p \in Pids, NEW b \in {p, Nobody}, NEW m, Right(s, p, b, m),
         s.t[p].exe, s.t[p].list = "tracees", s.k[p].proc = "held"
  PROVE  LET u == OnExit(s, p)
         IN  /\ Right(u, p, b, m) /\ Frame(s, u, p)
             /\ s.t[p].ptracer # Nobody => u.t[p].ptracer = s.t[p].ptracer
<1> DEFINE x == [s.t[p] EXCEPT !.status = "enter"]
           v == Put(s, p, x)
           y == [v.t[p] EXCEPT !.chain = FALSE]
           u == OnExit(s, p)
           what == s.k[p].call.what
<1> s \in States
  BY DEF Right
<1>1. u = IF s.t[p].chain THEN Put(v, p, y)
          ELSE IF what = "wait" /\ s.t[p].waitsIn = "PROOT" THEN translate_wait_exit(v, p)
          ELSE IF what \in Requests \cup {"traceme"} THEN translate_ptrace_exit(v, p)
          ELSE v
  BY DEF OnExit, Put
<1>2. s.t[p] \in Tracee
  BY StatesFields
<1>3. Same(s.t[p], x)
  BY <1>2, SetStates
<1> HIDE DEF x, u
<1>4. Right(v, p, b, m) /\ Frame(s, v, p)
  BY <1>3, PutSameRight
<1>5. v \in States /\ v.k = s.k /\ v.t[p] = x
  BY <1>3, PutFacts DEF Same, Alike
<1>6. /\ v.t[p].exe /\ v.t[p].list = "tracees" /\ v.k[p].proc = "held"
      /\ v.t[p].ptracer = s.t[p].ptracer
  BY <1>3, <1>5 DEF Same, Alike
<1> HIDE DEF v
<1>7. CASE u = Put(v, p, y)
  <2>1. v.t[p] \in Tracee
    BY <1>5, StatesFields
  <2>2. Same(v.t[p], y)
    BY <2>1, SetFields
  <2> HIDE DEF y
  <2>3. Right(u, p, b, m) /\ Frame(v, u, p)
    BY <1>4, <1>7, <2>2, PutSameRight
  <2>4. u.t[p].ptracer = v.t[p].ptracer
    BY <1>5, <1>7, <2>2, PutFacts DEF Same, Alike
  <2> QED
    BY <1>4, <1>6, <2>3, <2>4, FrameTwice DEF u
<1>8. CASE u = translate_wait_exit(v, p)
  <2>1. Right(u, p, b, m) /\ Frame(v, u, p) /\ u.t[p].ptracer = v.t[p].ptracer
    BY <1>4, <1>6, <1>8, WaitExitRight
  <2> QED
    BY <1>4, <1>6, <2>1, FrameTwice DEF u
<1>9. CASE what \in Requests \cup {"traceme"} /\ u = translate_ptrace_exit(v, p)
  <2>1. v.k[p].call.what \in Requests \cup {"traceme"}
    BY <1>5, <1>9
  <2>2. /\ Right(u, p, b, m) /\ Frame(v, u, p)
        /\ v.t[p].ptracer # Nobody => u.t[p].ptracer = v.t[p].ptracer
    BY <1>4, <1>6, <1>9, <2>1, PtraceExitRight
  <2> QED
    BY <1>4, <1>6, <2>2, FrameTwice DEF u
<1>10. CASE u = v
  BY <1>4, <1>6, <1>10 DEF u
<1> QED
  BY <1>1, <1>7, <1>8, <1>9, <1>10

-----------------------------------------------------------------------------
(* The event of the round.                                                  *)

Done(s, p) == Keep(Put(s, p, [s.t[p] EXCEPT !.forProot = "none"]), FALSE)

LEMMA DoneFacts ==
  ASSUME NEW s \in States, NEW p \in Pids
  PROVE  LET u == Done(s, p)
         IN  /\ u \in States /\ u.k = s.k /\ u.proot = s.proot /\ ~u.keep
             /\ \A q \in Pids : Alike(s.t[q], u.t[q])
             /\ u.t[p].forProot = "none"
<1> DEFINE x == [s.t[p] EXCEPT !.forProot = "none"]
           v == Put(s, p, x)
           u == Done(s, p)
<1>1. s.t[p] \in Tracee /\ "none" \in Events
  BY StatesFields DEF Events
<1>2. Alike(s.t[p], x) /\ x.forProot = "none"
  BY <1>1, SetForProot
<1> HIDE DEF x
<1>3. /\ v \in States /\ v.k = s.k /\ v.proot = s.proot
      /\ \A q \in Pids : v.t[q] = IF q = p THEN x ELSE s.t[q]
  BY <1>2, PutFacts DEF Alike
<1> HIDE DEF v
<1>4. u \in States /\ u.t = v.t /\ u.k = v.k /\ u.keep = FALSE /\ u.proot = v.proot
  BY <1>3, KeepFacts DEF Done, v, x
<1> HIDE DEF u
<1> QED
  BY <1>2, <1>3, <1>4, SameSame DEF u

LEMMA DoneRight ==
  ASSUME NEW s, NEW p \in Pids, NEW b, NEW m, Right(s, p, b, m)
  PROVE  Right(Done(s, p), p, b, m) /\ Frame(s, Done(s, p), p)
<1> DEFINE x == [s.t[p] EXCEPT !.forProot = "none"]
           v == Put(s, p, x)
<1> s \in States
  BY DEF Right
<1>1. s.t[p] \in Tracee /\ "none" \in Events
  BY StatesFields DEF Events
<1>2. Alike(s.t[p], x) /\ x.waitPid = s.t[p].waitPid
  BY <1>1, SetForProot
<1> HIDE DEF x
<1>3. Right(v, p, b, m) /\ Frame(s, v, p)
  BY <1>2, PutRight
<1> HIDE DEF v
<1>4. Right(Keep(v, FALSE), p, b, m) /\ Frame(v, Keep(v, FALSE), p)
  BY <1>3, KeepRight
<1> QED
  BY <1>3, <1>4, FrameTwice DEF Done, v, x

LEMMA EventSteps ==
  ASSUME NEW s \in States, NEW p \in Pids
  PROVE  /\ new_child(s, p) \in States =>
              handle_tracee_event(s, p, "FORK") = Done(new_child(s, p), p)
         /\ OnExit(s, p) \in States =>
              handle_tracee_event(s, p, "exit") = Done(OnExit(s, p), p)
         /\ \A event \in (Kept \ {"none"}) \cup {"EXITED"} :
              handle_tracee_event(s, p, event) = HandleStop(s, p, event)
<1>1. ASSUME NEW v \in States
      PROVE  [v EXCEPT !.t[p].forProot = "none", !.keep = FALSE] = Done(v, p)
  BY DEF Done, Put, Keep, States
<1>2. /\ handle_tracee_event(s, p, "FORK")
           = [new_child(s, p) EXCEPT !.t[p].forProot = "none", !.keep = FALSE]
      /\ handle_tracee_event(s, p, "exit")
           = [OnExit(s, p) EXCEPT !.t[p].forProot = "none", !.keep = FALSE]
  BY DEF handle_tracee_event
<1>3. \A event \in (Kept \ {"none"}) \cup {"EXITED"} :
        handle_tracee_event(s, p, event) = HandleStop(s, p, event)
  BY DEF handle_tracee_event, Kept
<1> QED
  BY <1>1, <1>2, <1>3

LEMMA ForkRight ==
  ASSUME NEW s, NEW p \in Pids, NEW m, Right(s, p, p, m),
         s.k[p].proc = "held", s.k[p].event = "FORK"
  PROVE  LET u == handle_tracee_event(s, p, "FORK")
         IN  /\ Right(u, p, Nobody, m) /\ Frame(s, u, p) /\ u.proot = s.proot
             /\ u.t[s.k[p].child].exe /\ u.t[p].ptracer = s.t[p].ptracer
             /\ ~u.keep /\ u.t[p].forProot = "none"
<1> DEFINE v == new_child(s, p)
           u == handle_tracee_event(s, p, "FORK")
           c == s.k[p].child
<1> s \in States
  BY DEF Right
<1>1. c \in Pids
  BY UnbornChild
<1>2. /\ Right(v, p, Nobody, m) /\ Frame(s, v, p) /\ v.proot = s.proot
      /\ v.t[c].exe /\ v.t[p].ptracer = s.t[p].ptracer
  BY NewChildRight
<1>3. v \in States
  BY <1>2 DEF Right
<1>4. u = Done(v, p)
  BY <1>3, EventSteps
<1> HIDE DEF u, v, c
<1>5. Right(u, p, Nobody, m) /\ Frame(v, u, p)
  BY <1>2, <1>4, DoneRight
<1>6. /\ u.proot = v.proot /\ ~u.keep /\ u.t[p].forProot = "none"
      /\ \A q \in Pids : Alike(v.t[q], u.t[q])
  BY <1>3, <1>4, DoneFacts
<1> QED
  BY <1>1, <1>2, <1>5, <1>6, FrameTwice DEF Alike, u, c

(* A fork that is handled twice fails an assertion.                         *)
LEMMA ForkAgain ==
  ASSUME NEW s, NEW p \in Pids, NEW m, Right(s, p, Nobody, m),
         NEW c \in Pids, c = s.k[p].child, c # p, s.t[c].exe
  PROVE  LET u == handle_tracee_event(s, p, "FORK")
         IN  /\ u \in States /\ u.proot = "aborted" /\ ~u.keep
             /\ u.t[p].terminated => s.t[p].terminated
<1> DEFINE v == new_child(s, p)
           u == handle_tracee_event(s, p, "FORK")
<1> s \in States
  BY DEF Right
<1>1. s.t[p].ptracer # Nobody => s.t[s.t[p].ptracer].ptracees < Cardinality(Pids)
  BY StatesTypes, CountRoom DEF Right, Sound
<1>2. /\ v \in States /\ v.proot = "aborted"
      /\ v.t[p].terminated => s.t[p].terminated
  BY <1>1, NewChildFacts
<1>3. u = Done(v, p)
  BY <1>2, EventSteps
<1> HIDE DEF u, v
<1>4. /\ u \in States /\ u.proot = v.proot /\ ~u.keep
      /\ \A q \in Pids : Alike(v.t[q], u.t[q])
  BY <1>2, <1>3, DoneFacts
<1> QED
  BY <1>2, <1>4 DEF Alike, u

LEMMA ExitEventRight ==
  ASSUME NEW s, NEW p \in Pids, NEW m, Right(s, p, Nobody, m),
         s.t[p].exe, s.t[p].list = "tracees", s.k[p].proc = "held"
  PROVE  LET u == handle_tracee_event(s, p, "exit")
         IN  /\ Right(u, p, Nobody, m) /\ Frame(s, u, p)
             /\ s.t[p].ptracer # Nobody => u.t[p].ptracer = s.t[p].ptracer
             /\ ~u.keep /\ u.t[p].forProot = "none"
<1> DEFINE v == OnExit(s, p)
           u == handle_tracee_event(s, p, "exit")
<1> s \in States
  BY DEF Right
<1>1. /\ Right(v, p, Nobody, m) /\ Frame(s, v, p)
      /\ s.t[p].ptracer # Nobody => v.t[p].ptracer = s.t[p].ptracer
  BY ExitRight
<1>2. v \in States
  BY <1>1 DEF Right
<1>3. u = Done(v, p)
  BY <1>2, EventSteps
<1> HIDE DEF u, v
<1>4. Right(u, p, Nobody, m) /\ Frame(v, u, p)
  BY <1>1, <1>3, DoneRight
<1>5. ~u.keep /\ u.t[p].forProot = "none" /\ \A q \in Pids : Alike(v.t[q], u.t[q])
  BY <1>2, <1>3, DoneFacts
<1> QED
  BY <1>1, <1>4, <1>5, FrameTwice DEF Alike, u

-----------------------------------------------------------------------------
(* The event of a guest that another traces.                                *)

Started(s, p, event) == s.t[p].started \/ event \notin {"enter", "exit"}

Hold(s, p, event) == Keep(Put(s, p, [s.t[p] EXCEPT !.forProot = event]), FALSE)

Take(s, p, event) ==
  Keep(Put(s, p, [s.t[p] EXCEPT !.forProot = event, !.started = Started(s, p, event)]), FALSE)

LEMMA TracedSteps ==
  ASSUME NEW s \in States, NEW p \in Pids, NEW event \in Events
  PROVE  LET v == Take(s, p, event)
             h == IF event \in {"FORK", "exit"} THEN handle_tracee_event(v, p, event) ELSE v
             u == handle_ptracee_event(s, p, event)
         IN  \/ u = Hold(s, p, event)
             \/ u = v
             \/ u = Notify(h, p, event, event # "EXITED")
<1>1. [s EXCEPT !.t[p].forProot = event, !.keep = FALSE] = Hold(s, p, event)
  BY DEF Hold, Put, Keep, States
<1>2. [s EXCEPT !.t[p] = [s.t[p] EXCEPT !.forProot = event, !.started = Started(s, p, event)],
                !.keep = FALSE] = Take(s, p, event)
  BY DEF Take, Put, Keep, States
<1> QED
  BY <1>1, <1>2 DEF handle_ptracee_event, Started

LEMMA HoldRight ==
  ASSUME NEW s, NEW p \in Pids, NEW b, NEW m, Right(s, p, b, m), NEW event \in Events,
         NEW u \in {Hold(s, p, event), Take(s, p, event)}
  PROVE  /\ Right(u, p, b, m) /\ Frame(s, u, p) /\ u.proot = s.proot
         /\ u.t[p].ptracer = s.t[p].ptracer /\ u.k = s.k
         /\ ~u.keep /\ u.t[p].forProot = event
<1> DEFINE x == [s.t[p] EXCEPT !.forProot = event]
           y == [s.t[p] EXCEPT !.forProot = event, !.started = Started(s, p, event)]
<1> s \in States
  BY DEF Right
<1>1. s.t[p] \in Tracee /\ Started(s, p, event) \in BOOLEAN
  <2>1. s.t[p].started \in BOOLEAN
    BY StatesTypes
  <2> QED
    BY <2>1, StatesFields DEF Started
<1>2. Alike(s.t[p], x) /\ x.forProot = event /\ x.waitPid = s.t[p].waitPid
  BY <1>1, SetForProot
<1>3. Alike(s.t[p], y) /\ y.forProot = event /\ y.waitPid = s.t[p].waitPid
  BY <1>1, SetStarted
<1>4. u \in {Keep(Put(s, p, x), FALSE), Keep(Put(s, p, y), FALSE)}
  BY DEF Hold, Take
<1> HIDE DEF x, y
<1>5. PICK z \in {x, y} : u = Keep(Put(s, p, z), FALSE)
  BY <1>4
<1> DEFINE v == Put(s, p, z)
<1>6. Alike(s.t[p], z) /\ z.forProot = event /\ z.waitPid = s.t[p].waitPid
  BY <1>2, <1>3
<1>7. Right(v, p, b, m) /\ Frame(s, v, p)
  BY <1>6, PutRight
<1>8. v \in States /\ v.t[p] = z /\ v.k = s.k /\ v.proot = s.proot
  BY <1>6, PutFacts DEF Alike
<1> HIDE DEF v
<1>9. Right(u, p, b, m) /\ Frame(v, u, p)
  BY <1>5, <1>7, KeepRight DEF v
<1>10. u.t = v.t /\ u.k = v.k /\ u.keep = FALSE /\ u.proot = v.proot
  BY <1>5, <1>8, KeepFacts DEF v
<1> QED
  BY <1>6, <1>7, <1>8, <1>9, <1>10, FrameTwice DEF Alike

(* The end of a guest, and the stops that are kept until its tracer restarts *)
(* it.                                                                      *)
LEMMA TracedStopRight ==
  ASSUME NEW s, NEW p \in Pids, NEW m, Right(s, p, Nobody, m), s.t[p].list = "tracees",
         s.t[p].ptracer # Nobody, NEW event \in (Kept \ {"none"}) \cup {"EXITED"}
  PROVE  LET u == handle_ptracee_event(s, p, event)
         IN  /\ Right(u, p, Nobody, m) /\ Frame(s, u, p) /\ u.proot = s.proot
             /\ u.keep => u.t[p].forProot \in Kept
<1> DEFINE v == Take(s, p, event)
           w == Hold(s, p, event)
           r == s.t[p].ptracer
           kp == event # "EXITED"
           u == handle_ptracee_event(s, p, event)
<1> s \in States
  BY DEF Right
<1>1. /\ event \in Events /\ event \notin {"FORK", "exit"}
      /\ event # "EXITED" => event \in Kept
  BY DEF Kept, Events
<1>2. u \in {v, w} \/ u = Notify(v, p, event, kp)
  BY <1>1, TracedSteps
<1>3. /\ Right(v, p, Nobody, m) /\ Frame(s, v, p) /\ v.proot = s.proot
      /\ v.t[p].ptracer = r /\ ~v.keep /\ v.t[p].forProot = event
  BY <1>1, HoldRight
<1>4. Right(w, p, Nobody, m) /\ Frame(s, w, p) /\ w.proot = s.proot /\ ~w.keep
  BY <1>1, HoldRight
<1>5. r \in Pids /\ r # p /\ r # Nobody
  BY StatesTypes, TraceesAssumption DEF Right, Sound, Tracers
<1>6. kp \in BOOLEAN /\ (kp => event \in Kept)
  BY <1>1
<1> HIDE DEF u, v, w, r, kp
<1>7. CASE u \in {v, w}
  BY <1>3, <1>4, <1>7 DEF u
<1>8. CASE u = Notify(v, p, event, kp)
  <2>1. v.t[p].list # "zombie"
    BY <1>3 DEF Frame
  <2>2. Right(u, p, Nobody, m) /\ Frame(v, u, p) /\ u.proot = v.proot
    BY <1>1, <1>3, <1>5, <1>6, <1>8, <2>1, NotifyRight
  <2>3. Knows(v, u, p) /\ (u.keep => kp)
    BY <1>1, <1>3, <1>5, <1>6, <1>8, NotifyFacts DEF Right
  <2>4. u.keep => u.t[p].forProot \in Kept
    BY <1>3, <1>6, <2>3 DEF Knows, Kept
  <2> QED
    BY <1>3, <2>2, <2>4, FrameTwice DEF u
<1> QED
  BY <1>2, <1>7, <1>8

LEMMA TracedExitRight ==
  ASSUME NEW s, NEW p \in Pids, NEW m, Right(s, p, Nobody, m), s.t[p].list = "tracees",
         s.t[p].exe, s.k[p].proc = "held", s.t[p].ptracer # Nobody
  PROVE  LET u == handle_ptracee_event(s, p, "exit")
         IN  /\ Right(u, p, Nobody, m) /\ Frame(s, u, p)
             /\ u.keep => u.t[p].forProot \in Kept
<1> DEFINE v == Take(s, p, "exit")
           w == Hold(s, p, "exit")
           h == handle_tracee_event(v, p, "exit")
           r == s.t[p].ptracer
           kp == "exit" # "EXITED"
           u == handle_ptracee_event(s, p, "exit")
<1> s \in States
  BY DEF Right
<1>1. "exit" \in Events /\ "none" \in Kept
  BY DEF Kept, Events
<1>2. u \in {v, w} \/ u = Notify(h, p, "exit", kp)
  BY <1>1, TracedSteps
<1>3. /\ Right(v, p, Nobody, m) /\ Frame(s, v, p)
      /\ v.t[p].ptracer = r /\ ~v.keep
  BY <1>1, HoldRight
<1>4. Right(w, p, Nobody, m) /\ Frame(s, w, p) /\ ~w.keep
  BY <1>1, HoldRight
<1>5. r \in Pids /\ r # p /\ r # Nobody
  BY StatesTypes, TraceesAssumption DEF Right, Sound, Tracers
<1>6. kp \in BOOLEAN
  OBVIOUS
<1> HIDE DEF u, v, w, r, kp
<1>7. v.t[p].exe /\ v.t[p].list = "tracees" /\ v.k[p].proc = "held"
  BY <1>3 DEF Frame
<1>8. /\ Right(h, p, Nobody, m) /\ Frame(v, h, p)
      /\ h.t[p].ptracer = r /\ h.t[p].forProot = "none"
  BY <1>3, <1>5, <1>7, ExitEventRight
<1> HIDE DEF h
<1>9. CASE u \in {v, w}
  BY <1>3, <1>4, <1>9 DEF u
<1>10. CASE u = Notify(h, p, "exit", kp)
  <2>1. h.t[p].list # "zombie"
    BY <1>7, <1>8 DEF Frame
  <2>2. Right(u, p, Nobody, m) /\ Frame(h, u, p)
    BY <1>1, <1>5, <1>6, <1>8, <1>10, <2>1, NotifyRight
  <2>3. Knows(h, u, p)
    BY <1>1, <1>5, <1>6, <1>8, <1>10, NotifyFacts DEF Right
  <2>4. u.t[p].forProot \in Kept
    BY <1>1, <1>8, <2>3 DEF Knows
  <2>5. Frame(s, h, p)
    BY <1>3, <1>8, FrameTwice
  <2> QED
    BY <2>2, <2>4, <2>5, FrameTwice DEF u
<1> QED
  BY <1>2, <1>9, <1>10

(* The fork is left for later, or is handled and the tracer told.           *)
LEMMA TracedForkRight ==
  ASSUME NEW s, NEW p \in Pids, NEW m, Right(s, p, p, m), s.t[p].list = "tracees",
         s.k[p].proc = "held", s.k[p].event = "FORK", s.t[p].ptracer # Nobody
  PROVE  LET u == handle_ptracee_event(s, p, "FORK")
         IN  /\ Frame(s, u, p) /\ u.proot = s.proot
             /\ u.keep => u.t[p].forProot \in Kept
             /\ \/ Right(u, p, p, m) /\ ~u.keep
                \/ /\ Right(u, p, Nobody, m)
                   /\ u.t[s.k[p].child].exe
                   /\ m = "calm" => u.keep
<1> DEFINE v == Take(s, p, "FORK")
           w == Hold(s, p, "FORK")
           h == handle_tracee_event(v, p, "FORK")
           r == s.t[p].ptracer
           kp == "FORK" # "EXITED"
           c == s.k[p].child
           u == handle_ptracee_event(s, p, "FORK")
<1> s \in States
  BY DEF Right
<1>1. "FORK" \in Events /\ "none" \in Kept
  BY DEF Kept, Events
<1>2. u \in {v, w} \/ u = Notify(h, p, "FORK", kp)
  BY <1>1, TracedSteps
<1>3. /\ Right(v, p, p, m) /\ Frame(s, v, p) /\ v.proot = s.proot
      /\ v.t[p].ptracer = r /\ ~v.keep
  BY <1>1, HoldRight
<1>4. Right(w, p, p, m) /\ Frame(s, w, p) /\ w.proot = s.proot /\ ~w.keep
  BY <1>1, HoldRight
<1>5. r \in Pids /\ r # p /\ r # Nobody
  BY StatesTypes, TraceesAssumption DEF Right, Sound, Tracers
<1>6. kp \in BOOLEAN
  OBVIOUS
<1>7. kp
  OBVIOUS
<1>8. c \in Pids \ {p}
  BY UnbornChild
<1> HIDE DEF u, v, w, r, kp, c
<1>9. v.k[p].proc = "held" /\ v.k[p].event = "FORK" /\ v.k[p].child = c
  BY <1>3 DEF Frame, c
<1>10. /\ Right(h, p, Nobody, m) /\ Frame(v, h, p) /\ h.proot = v.proot
      /\ h.t[c].exe /\ h.t[p].ptracer = r /\ h.t[p].forProot = "none"
  BY <1>3, <1>9, ForkRight
<1> HIDE DEF h
<1>11. CASE u \in {v, w}
  BY <1>3, <1>4, <1>11 DEF u
<1>12. CASE u = Notify(h, p, "FORK", kp)
  <2>1. h.t[p].list = "tracees"
    BY <1>3, <1>10 DEF Frame
  <2>2. /\ Right(u, p, Nobody, m) /\ Frame(h, u, p) /\ u.proot = h.proot
        /\ m = "calm" => (kp => u.keep)
    BY <1>1, <1>5, <1>6, <1>10, <1>12, <2>1, NotifyRight
  <2>3. Knows(h, u, p)
    BY <1>1, <1>5, <1>6, <1>10, <1>12, NotifyFacts DEF Right
  <2>4. u.t[p].forProot \in Kept /\ u.t[c].exe
    BY <1>1, <1>8, <1>10, <2>3 DEF Knows
  <2>5. Frame(s, h, p)
    BY <1>3, <1>10, FrameTwice
  <2>6. Frame(s, u, p)
    BY <2>2, <2>5, FrameTwice
  <2> QED
    BY <1>3, <1>10, <1>7, <2>2, <2>4, <2>6 DEF u, c
<1> QED
  BY <1>2, <1>11, <1>12

-----------------------------------------------------------------------------
(* The guests of a tracer that has ended are free.                          *)

LEMMA FreedSteps ==
  ASSUME NEW s \in States, NEW e \in Pids
  PROVE  LET f == Put(s, e, [s.t[e] EXCEPT !.ptracer = Nobody])
             l == Released(f, e)
             h == Put(l, e, [NotTraced(l.t[e]) EXCEPT !.reported = s.t[e].reported])
             u == Freed(s, e)
         IN  /\ s.t[e].list = "zombie" => u = Put(s, e, Unknown)
             /\ s.t[e].list # "zombie" => u \in {h, restart_tracee(h, e)}
<1> DEFINE f == [s EXCEPT !.t[e].ptracer = Nobody]
           l == Released(f, e)
           h == [l EXCEPT !.t[e] = [NotTraced(l.t[e]) EXCEPT !.reported = s.t[e].reported]]
<1>1. f = Put(s, e, [s.t[e] EXCEPT !.ptracer = Nobody])
  BY DEF Put
<1> HIDE DEF f
<1>2. Freed(s, e) =
        IF s.t[e].list = "zombie" THEN [s EXCEPT !.t[e] = Unknown]
        ELSE IF h.keep \/ (s.t[e].forProot = "none" /\ s.t[e].forPtracer = "none") THEN h
        ELSE restart_tracee(h, e)
  BY DEF Freed, f
<1>3. h = Put(l, e, [NotTraced(l.t[e]) EXCEPT !.reported = s.t[e].reported])
  BY DEF Put
<1>4. [s EXCEPT !.t[e] = Unknown] = Put(s, e, Unknown)
  BY DEF Put
<1> HIDE DEF l, h
<1> QED
  BY <1>1, <1>2, <1>3, <1>4 DEF l

LEMMA SetReported ==
  ASSUME NEW x \in Tracee, NEW v \in BOOLEAN
  PROVE  Same(x, [x EXCEPT !.reported = v])
BY Zenon DEF Same, Alike, Tracee

LEMMA SetFreed ==
  ASSUME NEW x \in Tracee, NEW v \in BOOLEAN
  PROVE  LET y == [NotTraced(x) EXCEPT !.reported = v]
         IN  /\ y \in Tracee
             /\ y.list = x.list /\ y.exe = x.exe /\ y.parent = x.parent
             /\ y.ptracer = Nobody /\ y.ptracees = x.ptracees /\ y.terminated = x.terminated
             /\ y.forProot = "none" /\ y.waitPid = x.waitPid
<1> DEFINE n == NotTraced(x)
<1>1. /\ n \in Tracee
      /\ n.list = x.list /\ n.exe = x.exe /\ n.parent = x.parent
      /\ n.ptracer = Nobody /\ n.ptracees = x.ptracees /\ n.terminated = x.terminated
      /\ n.forProot = "none" /\ n.waitPid = x.waitPid
  BY SetNotTraced
<1> HIDE DEF n
<1> DEFINE y == [n EXCEPT !.reported = v]
<1>2. n \in Tracee
  BY <1>1
<1>3. Same(n, y)
  BY <1>2, SetReported
<1> HIDE DEF y
<1> QED
  BY <1>1, <1>3 DEF Same, Alike, y, n

LEMMA FreedFacts ==
  ASSUME NEW s \in States, NEW p \in Pids, NEW b, NEW m, Sound(s, p, b, m),
         NEW e \in Pids, s.t[e].ptracer = p
  PROVE  LET u == Freed(s, e)
         IN  /\ u.t[e] \in Tracee /\ u.k[e] \in Process
             /\ Loses(s, u, e)
             /\ u.t[e].ptracer = Nobody /\ u.t[e].forProot \in Kept
             /\ IF s.t[e].list = "zombie" THEN u.t[e].ptracees = 0
                                          ELSE u.t[e].ptracees = s.t[e].ptracees
             /\ \/ AlikeK(s.k[e], u.k[e]) /\ u.t[e].waitPid \in {s.t[e].waitPid, Nobody}
                \/ Restarted(s.k[e], u.k[e]) /\ s.t[e].exe /\ u.t[e].waitPid = Nobody
<1> DEFINE x == [s.t[e] EXCEPT !.ptracer = Nobody]
           f == Put(s, e, x)
           l == Released(f, e)
           y == [NotTraced(l.t[e]) EXCEPT !.reported = s.t[e].reported]
           h == Put(l, e, y)
           d == restart_tracee(h, e)
           u == Freed(s, e)
<1>1. /\ s.t[e].list = "zombie" => u = Put(s, e, Unknown)
      /\ s.t[e].list # "zombie" => u \in {h, d}
  BY FreedSteps
<1> HIDE DEF u
<1>2. "none" \in Kept
  BY DEF Kept
<1>3. CASE s.t[e].list = "zombie"
  <2>1. u \in States /\ u.k = s.k /\ u.t[e] = Unknown
    BY <1>1, <1>3, PutFacts, UnknownType
  <2>2. AlikeK(s.k[e], u.k[e])
    BY <2>1, SameSame
  <2> QED
    BY <1>2, <1>3, <2>1, <2>2, UnknownType, StatesFields DEF Loses, u
<1>4. CASE s.t[e].list # "zombie"
  <2>1. s.t[e].exe /\ e # p
    BY <1>4, TraceesAssumption DEF Sound, Tracers
  <2>2. s.t[e] \in Tracee /\ Nobody \in Pids \cup {Nobody} /\ s.t[e].reported \in BOOLEAN
    BY StatesFields, StatesTypes
  <2>3. /\ x \in Tracee
        /\ x.list = s.t[e].list /\ x.exe = s.t[e].exe /\ x.parent = s.t[e].parent
        /\ x.ptracer = Nobody /\ x.ptracees = s.t[e].ptracees
        /\ x.terminated = s.t[e].terminated
        /\ x.forProot = s.t[e].forProot /\ x.waitPid = s.t[e].waitPid
    BY <2>2, SetPtracer
  <2> HIDE DEF x
  <2>4. f \in States /\ f.k = s.k /\ f.t[e] = x
    BY <2>3, PutFacts
  <2> HIDE DEF f
  <2>5. f.t[e].forProot \in Kept
    BY <2>1, <2>3, <2>4 DEF Sound, Pending
  <2>6. /\ l \in States
        /\ Alike(f.t[e], l.t[e]) /\ AlikeK(f.k[e], l.k[e])
        /\ l.t[e].waitPid = f.t[e].waitPid
    BY <2>4, <2>5, ReleasedFacts
  <2> HIDE DEF l
  <2>7. l.t[e] \in Tracee
    BY <2>6, StatesFields
  <2>8. /\ y \in Tracee
        /\ y.list = l.t[e].list /\ y.exe = l.t[e].exe /\ y.parent = l.t[e].parent
        /\ y.ptracer = Nobody /\ y.ptracees = l.t[e].ptracees
        /\ y.terminated = l.t[e].terminated
        /\ y.forProot = "none" /\ y.waitPid = l.t[e].waitPid
    BY <2>2, <2>7, SetFreed
  <2> HIDE DEF y
  <2>9. h \in States /\ h.k = l.k /\ h.t[e] = y
    BY <2>6, <2>8, PutFacts
  <2> HIDE DEF h
  <2>10. /\ d \in States
         /\ Same(h.t[e], d.t[e])
         /\ \/ d.k[e] = h.k[e]
            \/ Restarted(h.k[e], d.k[e]) /\ d.t[e].waitPid = Nobody
    BY <2>9, RestartFacts
  <2> HIDE DEF d
  <2>11. AlikeK(s.k[e], h.k[e])
    BY <2>4, <2>6, <2>9
  <2>12. /\ u \in States /\ Same(h.t[e], u.t[e])
         /\ \/ u.k[e] = h.k[e]
            \/ Restarted(h.k[e], u.k[e]) /\ u.t[e].waitPid = Nobody
    BY <1>1, <1>4, <2>9, <2>10, SameSame
  <2>13. Restarted(h.k[e], u.k[e]) => Restarted(s.k[e], u.k[e])
    BY <2>11 DEF AlikeK, Restarted
  <2>14. u.k[e] \in Process /\ u.t[e] \in Tracee
    BY <2>12, StatesFields
  <2>15. /\ u.t[e].list = s.t[e].list /\ u.t[e].exe = s.t[e].exe
         /\ u.t[e].parent = s.t[e].parent /\ u.t[e].terminated = s.t[e].terminated
         /\ u.t[e].ptracer = Nobody /\ u.t[e].ptracees = s.t[e].ptracees
         /\ u.t[e].forProot = "none" /\ u.t[e].waitPid = s.t[e].waitPid
    BY <2>3, <2>4, <2>6, <2>8, <2>9, <2>12 DEF Same, Alike
  <2>16. Loses(s, u, e)
    BY <2>15 DEF Loses
  <2> QED
    BY <1>2, <1>4, <2>1, <2>11, <2>12, <2>13, <2>14, <2>15, <2>16 DEF u
<1> QED
  BY <1>3, <1>4

LEMMA AllFreedFacts ==
  ASSUME NEW s, NEW p \in Pids, NEW m, Right(s, p, Nobody, m)
  PROVE  LET u == AllFreed(s, Ptracees(s, p))
         IN  /\ u \in States /\ Sound(u, p, Nobody, m) /\ Counted(u, p)
             /\ Ptracees(u, p) = {}
             /\ \A q \in Pids : Ended(u, q) <=> Ended(s, q)
             /\ \A q \in Pids : Loses(s, u, q)
             /\ u.t[p] = s.t[p] /\ u.k[p] = s.k[p] /\ u.proot = s.proot /\ u.keep = s.keep
<1> DEFINE E == Ptracees(s, p)
           f(q) == IF q \in E THEN Freed(s, q) ELSE s
           u == AllFreed(s, E)
<1> s \in States
  BY DEF Right
<1>1. \A q \in E : q \in Pids /\ s.t[q].ptracer = p /\ q # p
  BY TraceesAssumption DEF Ptracees, Right, Sound, Tracers
<1>2. \A q \in Pids \ E : s.t[q].ptracer # p
  BY DEF Ptracees
<1> HIDE DEF E
<1>3. ASSUME NEW q \in Pids
      PROVE  /\ f(q).t[q] \in Tracee /\ f(q).k[q] \in Process
             /\ Loses(s, f(q), q)
             /\ f(q).t[q].ptracer = IF q \in E THEN Nobody ELSE s.t[q].ptracer
             /\ f(q).t[q].forProot = s.t[q].forProot \/ f(q).t[q].forProot \in Kept
             /\ IF q \in E /\ s.t[q].list = "zombie" THEN f(q).t[q].ptracees = 0
                ELSE f(q).t[q].ptracees = s.t[q].ptracees
             /\ \/ /\ AlikeK(s.k[q], f(q).k[q])
                   /\ f(q).t[q].waitPid \in {s.t[q].waitPid, Nobody}
                \/ /\ Restarted(s.k[q], f(q).k[q])
                   /\ s.t[q].exe /\ f(q).t[q].waitPid = Nobody
  <2>1. CASE q \in E
    <3>1. s.t[q].ptracer = p /\ Sound(s, p, Nobody, m)
      BY <1>1, <2>1 DEF Right
    <3>2. f(q) = Freed(s, q)
      BY <2>1
    <3> HIDE DEF f
    <3> QED
      BY <2>1, <3>1, <3>2, FreedFacts
  <2>2. CASE q \notin E
    <3>1. f(q) = s
      BY <2>2
    <3> HIDE DEF f
    <3> QED
      BY <2>2, <3>1, StatesFields, SameSame DEF Loses
  <2> QED
    BY <2>1, <2>2
<1>4. /\ u \in States /\ u.keep = s.keep /\ u.proot = s.proot
      /\ \A q \in Pids : u.t[q] = f(q).t[q] /\ u.k[q] = f(q).k[q]
  <2>1. u = [s EXCEPT !.t = [q \in Pids |-> f(q).t[q]], !.k = [q \in Pids |-> f(q).k[q]]]
    BY DEF AllFreed
  <2> DEFINE tt == [q \in Pids |-> f(q).t[q]]
             kk == [q \in Pids |-> f(q).k[q]]
  <2>2. tt \in [Pids -> Tracee] /\ kk \in [Pids -> Process]
    BY <1>3
  <2>3. \A q \in Pids : tt[q] = f(q).t[q] /\ kk[q] = f(q).k[q]
    OBVIOUS
  <2>4. u = [s EXCEPT !.t = tt, !.k = kk]
    BY <2>1
  <2> HIDE DEF u, tt, kk, f
  <2>5. u \in States /\ u.keep = s.keep /\ u.proot = s.proot /\ u.t = tt /\ u.k = kk
    BY <2>2, <2>4 DEF States
  <2> QED
    BY <2>3, <2>5
<1>5. u.t[p] = s.t[p] /\ u.k[p] = s.k[p]
  BY <1>1, <1>4
<1> HIDE DEF u, f
<1>6. \A q \in Pids : Loses(s, u, q)
  BY <1>3, <1>4 DEF Loses
<1>7. Moves(s, u, p, Nobody)
  <2>1. \A q \in Pids : u.t[q].forProot = s.t[q].forProot \/ u.t[q].forProot \in Kept
    BY <1>3, <1>4
  <2>2. \A q \in Pids :
          \/ AlikeK(s.k[q], u.k[q]) /\ u.t[q].waitPid \in {s.t[q].waitPid, Nobody}
          \/ Restarted(s.k[q], u.k[q]) /\ s.t[q].exe /\ u.t[q].waitPid = Nobody
    BY <1>3, <1>4
  <2> QED
    BY <1>4, <1>6, <2>1, <2>2, TraceesAssumption DEF Moves
<1>8. Sound(u, p, Nobody, m) /\ \A q \in Pids : Ended(u, q) <=> Ended(s, q)
  BY <1>7, MovesSound DEF Right
<1>9. \A q \in Pids : u.t[q].ptracer = IF q \in E THEN Nobody ELSE s.t[q].ptracer
  BY <1>3, <1>4
<1>10. Ptracees(u, p) = {}
  BY <1>2, <1>9, TraceesAssumption DEF Ptracees
<1>11. Counted(u, p)
  <2>1. ASSUME NEW r \in Pids \ {p}
        PROVE  u.t[r].ptracees = Cardinality(Ptracees(u, r))
    <3>1. Ptracees(u, r) = Ptracees(s, r)
      BY <1>1, <1>9, TraceesAssumption DEF Ptracees
    <3>2. s.t[r].ptracees = Cardinality(Ptracees(s, r))
      BY TraceesAssumption DEF Right, Counted
    <3>3. CASE s.t[r].list = "zombie" /\ r \in E
      <4>1. Ptracees(s, r) = {}
        BY <3>3, TraceesAssumption DEF Ptracees, Right, Sound, Tracers, Listed
      <4>2. u.t[r].ptracees = 0
        BY <1>3, <1>4, <3>3
      <4> QED
        BY <3>1, <4>1, <4>2, FS_EmptySet
    <3>4. CASE ~(s.t[r].list = "zombie" /\ r \in E)
      <4>1. u.t[r].ptracees = s.t[r].ptracees
        BY <1>3, <1>4, <3>4
      <4> QED
        BY <3>1, <3>2, <4>1
    <3> QED
      BY <3>3, <3>4
  <2> QED
    BY <2>1 DEF Counted
<1> QED
  BY <1>4, <1>5, <1>6, <1>8, <1>10, <1>11 DEF u, E

-----------------------------------------------------------------------------
(* A process that ended is removed.                                         *)

Orphans(s, p) ==
  [s EXCEPT !.t = [q \in Pids |->
     IF s.t[q].parent = p /\ s.t[q].list = "tracees"
       THEN [s.t[q] EXCEPT !.parent = Nobody] ELSE s.t[q]]]

LEMMA OrphansRight ==
  ASSUME NEW s, NEW p \in Pids, NEW b, NEW m, Right(s, p, b, m)
  PROVE  LET u == Orphans(s, p)
         IN  /\ Right(u, p, b, m) /\ Frame(s, u, p) /\ u.proot = s.proot
             /\ u.t[p].ptracer = s.t[p].ptracer /\ Ptracees(u, p) = Ptracees(s, p)
             /\ \A q \in Pids : u.t[q].list = "tracees" => u.t[q].parent # p
<1> DEFINE y(q) == [s.t[q] EXCEPT !.parent = Nobody]
           f == [q \in Pids |->
                   IF s.t[q].parent = p /\ s.t[q].list = "tracees" THEN y(q) ELSE s.t[q]]
           u == Orphans(s, p)
<1> s \in States
  BY DEF Right
<1>1. ASSUME NEW q \in Pids
      PROVE  /\ y(q) \in Tracee
             /\ y(q).list = s.t[q].list /\ y(q).exe = s.t[q].exe /\ y(q).parent = Nobody
             /\ y(q).ptracer = s.t[q].ptracer /\ y(q).ptracees = s.t[q].ptracees
             /\ y(q).terminated = s.t[q].terminated
             /\ y(q).forProot = s.t[q].forProot /\ y(q).waitPid = s.t[q].waitPid
  <2>1. s.t[q] \in Tracee /\ Nobody \in Pids \cup {Nobody}
    BY StatesFields
  <2> QED
    BY <2>1, SetParent
<1>2. u = [s EXCEPT !.t = f]
  BY DEF Orphans
<1> HIDE DEF y, u
<1>3. f \in [Pids -> Tracee]
  BY <1>1, StatesFields
<1>4. \A q \in Pids :
        /\ f[q].list = s.t[q].list /\ f[q].exe = s.t[q].exe
        /\ f[q].parent = IF s.t[q].parent = p /\ s.t[q].list = "tracees"
                           THEN Nobody ELSE s.t[q].parent
        /\ f[q].ptracer = s.t[q].ptracer /\ f[q].ptracees = s.t[q].ptracees
        /\ f[q].terminated = s.t[q].terminated
        /\ f[q].forProot = s.t[q].forProot /\ f[q].waitPid = s.t[q].waitPid
  BY <1>1
<1> HIDE DEF f
<1>5. u \in States /\ u.t = f /\ u.k = s.k /\ u.proot = s.proot
  BY <1>2, <1>3 DEF States
<1>6. \A q \in Pids : AlikeK(s.k[q], u.k[q])
  BY <1>5, StatesFields DEF AlikeK
<1>7. \A q \in Pids :
        /\ u.t[q].list = s.t[q].list /\ u.t[q].exe = s.t[q].exe
        /\ u.t[q].parent \in {s.t[q].parent, Nobody}
        /\ u.t[q].ptracer = s.t[q].ptracer /\ u.t[q].ptracees = s.t[q].ptracees
        /\ u.t[q].terminated = s.t[q].terminated
        /\ u.t[q].forProot = s.t[q].forProot /\ u.t[q].waitPid = s.t[q].waitPid
        /\ u.t[q].list = "tracees" => u.t[q].parent # p
  BY <1>4, <1>5, TraceesAssumption
<1>8. Moves(s, u, p, b)
  BY <1>5, <1>6, <1>7 DEF Moves, Loses
<1>9. Right(u, p, b, m)
  BY <1>7, <1>8, MovesRight
<1>10. Frame(s, u, p)
  BY <1>5, <1>7 DEF Frame, Ended
<1>11. Ptracees(u, p) = Ptracees(s, p)
  BY <1>7 DEF Ptracees
<1> QED
  BY <1>5, <1>7, <1>9, <1>10, <1>11 DEF u

(* What PRoot knows of the process itself goes last, when it traces nobody   *)
(* and is nobody's parent.  Its tracer will be told of a zombie.            *)
LEMMA ForgetRight ==
  ASSUME NEW s \in States, NEW p \in Pids, NEW m, Sound(s, p, Nobody, m), Counted(s, p),
         Ended(s, p), s.t[p].list = "tracees", Ptracees(s, p) = {},
         \A q \in Pids : s.t[q].list = "tracees" => s.t[q].parent # p,
         NEW x \in Tracee, ~x.exe, ~x.terminated, x.ptracees = 0, x.waitPid = Nobody,
         x.forProot \in Kept, x.ptracer = s.t[p].ptracer,
         \/ x.list = "zombie" /\ s.t[p].ptracer # Nobody
         \/ x.list = "none" /\ x.parent = Nobody /\ x.ptracer = Nobody
  PROVE  LET u == Put(s, p, x)
         IN  /\ Right(u, Nobody, Nobody, m)
             /\ \A q \in Pids : Ended(u, q) <=> Ended(s, q)
<1> DEFINE u == Put(s, p, x)
<1>1. /\ u \in States /\ u.k = s.k
      /\ \A q \in Pids : u.t[q] = IF q = p THEN x ELSE s.t[q]
  BY PutFacts
<1> HIDE DEF u
<1>2. \A q \in Pids : Ended(u, q) <=> Ended(s, q)
  BY <1>1 DEF Ended
<1>3. \A q \in Pids : s.t[q].ptracer # p
  BY DEF Ptracees
<1>4. u.t[p] = x /\ \A q \in Pids \ {p} : u.t[q] = s.t[q]
  BY <1>1
<1>5. Missing(u, p) /\ \A q \in Pids \ {p} : Missing(u, q) <=> Missing(s, q)
  BY <1>2, <1>4 DEF Missing
<1>6. Tracers(u)
  BY <1>3, <1>4, StatesTypes DEF Sound, Tracers
<1>7. Listed(u)
  BY <1>2, <1>4, StatesTypes DEF Sound, Listed
<1>8. Stops(u)
  BY <1>1, <1>4 DEF Sound, Stops, Halted, Ended
<1>9. Named(u)
  BY <1>1, <1>4, <1>5 DEF Sound, Named
<1>10. Births(u, Nobody)
  <2>1. \A q \in Pids : Forking(u, Nobody, q) <=> Forking(s, Nobody, q)
    BY <1>1 DEF Forking
  <2>2. \A q \in Pids : Forking(s, Nobody, q) => s.k[q].child \in Pids
    BY DEF Sound, Stops, Forking, Halted
  <2>3. ~s.t[p].exe => x.list = "none"
    BY DEF Sound, Listed
  <2> QED
    BY <1>1, <1>2, <1>4, <1>5, <2>1, <2>2, <2>3 DEF Sound, Births
<1>11. Woken(u, m)
  BY <1>1, <1>4 DEF Sound, Woken
<1>12. Pending(u, Nobody)
  BY <1>4 DEF Sound, Pending
<1>13. Counted(u, Nobody)
  <2>1. \A q \in Pids : Ptracees(u, q) = Ptracees(s, q)
    BY <1>4 DEF Ptracees
  <2>2. Cardinality(Ptracees(u, p)) = 0
    BY <2>1, FS_EmptySet
  <2> QED
    BY <1>4, <2>1, <2>2 DEF Counted
<1> QED
  BY <1>1, <1>2, <1>6, <1>7, <1>8, <1>9, <1>10, <1>11, <1>12, <1>13 DEF Right, Sound, u

LEMMA ZombieType ==
  ASSUME NEW q \in Pids \cup {Nobody}, NEW r \in Pids \cup {Nobody}
  PROVE  LET x == [Unknown EXCEPT !.list = "zombie", !.parent = q, !.ptracer = r,
                                  !.forPtracer = "EXITED"]
         IN  /\ x \in Tracee
             /\ x.list = "zombie" /\ ~x.exe /\ x.ptracer = r /\ x.ptracees = 0
             /\ ~x.terminated /\ x.forProot = "none" /\ x.waitPid = Nobody
<1>1. Unknown \in Tracee /\ "EXITED" \in Events
  BY UnknownType DEF Events
<1> DEFINE x == [Unknown EXCEPT !.list = "zombie", !.parent = q, !.ptracer = r,
                                !.forPtracer = "EXITED"]
<1>2. /\ x \in Tracee /\ x.list = "zombie" /\ x.ptracer = r
      /\ x.exe = Unknown.exe /\ x.ptracees = Unknown.ptracees
      /\ x.terminated = Unknown.terminated /\ x.forProot = Unknown.forProot
      /\ x.waitPid = Unknown.waitPid
  BY <1>1, Zenon DEF Tracee
<1> HIDE DEF x
<1> QED
  BY <1>2, UnknownType DEF x

(* Nothing is left to do for the process of the round.                      *)
LEMMA RoundOver ==
  ASSUME NEW s, NEW p \in Pids, NEW b, NEW m, Right(s, p, b, m),
         s.t[p].forProot \in Kept, ~s.t[p].terminated
  PROVE  Right(s, Nobody, b, m)
BY TraceesAssumption DEF Right, Sound, Pending

LEMMA RoundNotOver ==
  ASSUME NEW s, NEW p \in Pids, NEW b, NEW m, Right(s, Nobody, b, m)
  PROVE  Right(s, p, b, m) /\ s.t[p].forProot \in Kept /\ ~s.t[p].terminated
BY TraceesAssumption DEF Right, Sound, Pending

LEMMA RemoveSteps ==
  ASSUME NEW s \in States, NEW p \in Pids
  PROVE  LET r == s.t[p].ptracer
             free == AllFreed(Orphans(s, p), Ptracees(s, p))
             zombie == [Unknown EXCEPT !.list = "zombie", !.parent = free.t[p].parent,
                                       !.ptracer = r, !.forPtracer = "EXITED"]
             left == Put(detach_from_ptracer(free, p), p, Unknown)
             u == remove_tracee(s, p)
         IN  \/ r = Nobody /\ u = Put(free, p, Unknown)
             \/ r # Nobody /\ u = Put(free, p, zombie)
             \/ /\ r # Nobody
                /\ u \in {left, restart_tracee(Put(left, r, [left.t[r] EXCEPT !.waitPid = Nobody]), r)}
  BY DEF remove_tracee, Orphans, Put

LEMMA RemoveRight ==
  ASSUME NEW s, NEW p \in Pids, NEW m, Right(s, p, Nobody, m), Ended(s, p),
         s.t[p].list = "tracees"
  PROVE  LET u == remove_tracee(s, p)
         IN  /\ Right(u, Nobody, Nobody, m)
             /\ \A q \in Pids : Ended(u, q) <=> Ended(s, q)
             /\ u.proot = s.proot
<1> DEFINE r == s.t[p].ptracer
           o == Orphans(s, p)
           free == AllFreed(o, Ptracees(s, p))
           zombie == [Unknown EXCEPT !.list = "zombie", !.parent = free.t[p].parent,
                                     !.ptracer = r, !.forPtracer = "EXITED"]
           d == detach_from_ptracer(free, p)
           left == Put(d, p, Unknown)
           x == [left.t[r] EXCEPT !.waitPid = Nobody]
           w == Put(left, r, x)
           last == restart_tracee(w, r)
           u == remove_tracee(s, p)
<1> s \in States
  BY DEF Right
<1>1. \/ r = Nobody /\ u = Put(free, p, Unknown)
      \/ r # Nobody /\ u = Put(free, p, zombie)
      \/ r # Nobody /\ u \in {left, last}
  BY RemoveSteps
<1> HIDE DEF u
<1>2. /\ Right(o, p, Nobody, m) /\ Frame(s, o, p) /\ o.proot = s.proot
      /\ o.t[p].ptracer = r /\ Ptracees(o, p) = Ptracees(s, p)
      /\ \A q \in Pids : o.t[q].list = "tracees" => o.t[q].parent # p
  BY OrphansRight
<1> HIDE DEF o
<1>3. /\ free \in States /\ Sound(free, p, Nobody, m) /\ Counted(free, p)
      /\ Ptracees(free, p) = {}
      /\ \A q \in Pids : Ended(free, q) <=> Ended(o, q)
      /\ \A q \in Pids : Loses(o, free, q)
      /\ free.t[p] = o.t[p] /\ free.proot = o.proot
  BY <1>2, AllFreedFacts
<1> HIDE DEF free
<1>4. free.t[p].ptracer = r /\ free.t[p].list = "tracees"
  BY <1>2, <1>3 DEF Frame
<1>5. \A q \in Pids : free.t[q].list = "tracees" => free.t[q].parent # p
  BY <1>2, <1>3, UnknownType, TraceesAssumption DEF Loses
<1>6. \A q \in Pids : Ended(free, q) <=> Ended(s, q)
  BY <1>2, <1>3 DEF Frame
<1>7. "none" \in Kept
  BY DEF Kept
<1>8. CASE r = Nobody /\ u = Put(free, p, Unknown)
  <2>1. /\ Right(u, Nobody, Nobody, m)
        /\ \A q \in Pids : Ended(u, q) <=> Ended(free, q)
    BY <1>3, <1>4, <1>5, <1>6, <1>7, <1>8, UnknownType, ForgetRight
  <2>2. u.proot = free.proot
    BY <1>3, <1>8, UnknownType, PutFacts
  <2> QED
    BY <1>2, <1>3, <1>6, <2>1, <2>2 DEF u
<1>9. CASE r # Nobody /\ u = Put(free, p, zombie)
  <2>1. /\ zombie \in Tracee
        /\ zombie.list = "zombie" /\ ~zombie.exe /\ zombie.ptracer = r /\ zombie.ptracees = 0
        /\ ~zombie.terminated /\ zombie.forProot = "none" /\ zombie.waitPid = Nobody
    <3>1. free.t[p].parent \in Pids \cup {Nobody} /\ r \in Pids \cup {Nobody}
      BY <1>3, StatesTypes
    <3> QED
      BY <3>1, ZombieType
  <2> HIDE DEF zombie, r
  <2>2. /\ Right(u, Nobody, Nobody, m)
        /\ \A q \in Pids : Ended(u, q) <=> Ended(free, q)
    BY <1>3, <1>4, <1>5, <1>6, <1>7, <1>9, <2>1, ForgetRight
  <2>3. u.proot = free.proot
    BY <1>3, <1>9, <2>1, PutFacts
  <2> QED
    BY <1>2, <1>3, <1>6, <2>2, <2>3 DEF u
<1>10. CASE r # Nobody /\ u \in {left, last}
  <2>1. r \in Pids /\ r # p
    BY <1>10, StatesTypes DEF Right, Sound, Tracers
  <2>2. free.t[r].exe
    BY <1>3, <1>4, <1>10 DEF Sound, Tracers
  <2> HIDE DEF r
  <2>3. /\ d \in States /\ Sound(d, p, Nobody, m) /\ Counted(d, p)
        /\ Frame(free, d, p) /\ d.proot = free.proot
    BY <1>3, <1>4, <2>1, DetachSound
  <2>4. \A q \in Pids :
          /\ d.t[q].list = free.t[q].list /\ d.t[q].parent = free.t[q].parent
          /\ d.t[q].exe = free.t[q].exe
          /\ d.t[q].ptracer = IF q = p THEN Nobody ELSE free.t[q].ptracer
    BY <1>3, <1>4, <2>1, DetachFacts
  <2> HIDE DEF d
  <2>5. Ptracees(d, p) = {}
    BY <1>3, <2>4, TraceesAssumption DEF Ptracees
  <2>6. Ended(d, p) /\ \A q \in Pids : Ended(d, q) <=> Ended(s, q)
    BY <1>6, <2>3 DEF Frame
  <2>7. /\ Right(left, Nobody, Nobody, m)
        /\ \A q \in Pids : Ended(left, q) <=> Ended(d, q)
    BY <1>4, <1>5, <1>7, <2>3, <2>4, <2>5, <2>6, UnknownType, ForgetRight
  <2>8. /\ left \in States /\ left.proot = d.proot
        /\ \A q \in Pids : left.t[q] = IF q = p THEN Unknown ELSE d.t[q]
    BY <2>3, UnknownType, PutFacts
  <2> HIDE DEF left
  <2>9. Right(left, p, Nobody, m)
    BY <2>7, RoundNotOver
  <2>10. left.t[r] \in Tracee /\ left.t[r].exe /\ Nobody \in Pids \cup {Any, Nobody}
    BY <2>1, <2>2, <2>4, <2>8, StatesFields
  <2>11. Alike(left.t[r], x) /\ x.waitPid = Nobody /\ x.forProot = left.t[r].forProot
    BY <2>10, SetWaitPid
  <2> HIDE DEF x
  <2>12. Right(w, p, Nobody, m) /\ Frame(left, w, p)
    BY <2>1, <2>9, <2>11, PutRight
  <2>13. /\ w \in States /\ w.proot = left.proot
         /\ \A q \in Pids : w.t[q] = IF q = r THEN x ELSE left.t[q]
    BY <2>1, <2>8, <2>11, PutFacts DEF Alike
  <2> HIDE DEF w
  <2>14. w.t[r].exe /\ r # Nobody
    BY <1>10, <2>1, <2>10, <2>11, <2>13 DEF Alike
  <2>15. Right(last, p, Nobody, m) /\ Frame(w, last, p)
    BY <2>1, <2>12, <2>14, RestartRight
  <2>16. last.t[p] = w.t[p] /\ last.proot = w.proot
    BY <2>1, <2>13, RestartFacts
  <2> HIDE DEF last
  <2>17. last.t[p] = Unknown
    BY <2>1, <2>8, <2>13, <2>16
  <2>18. Right(last, Nobody, Nobody, m)
    BY <1>7, <2>15, <2>17, UnknownType, RoundOver
  <2>19. \A q \in Pids : Ended(last, q) <=> Ended(left, q)
    BY <2>12, <2>15 DEF Frame
  <2> QED
    BY <1>2, <1>3, <1>10, <2>3, <2>6, <2>7, <2>8, <2>13, <2>16, <2>18, <2>19 DEF u
<1> QED
  BY <1>1, <1>8, <1>9, <1>10

-----------------------------------------------------------------------------
(* A round of the loop, in the state p's stop or end has been collected in.  *)

Traced(s, p, event) ==
  IF s.t[p].ptracer = Nobody THEN s ELSE handle_ptracee_event(s, p, event)

Rest(s, p, event) ==
  LET h == handle_tracee_event(s, p, event)
  IN  free_terminated_tracees(IF h.keep THEN h ELSE restart_tracee(h, p), p)

After(s, p, event) ==
  LET e == Traced(s, p, event)
  IN  IF e.keep THEN e ELSE Rest(e, p, event)

(* A handler that has nothing to do with births need not know of them.      *)
LEMMA NoBirth ==
  ASSUME NEW s, NEW p \in Pids, NEW m, Right(s, p, p, m), s.k[p].event # "FORK" \/ Ended(s, p)
  PROVE  Right(s, p, Nobody, m)
<1>1. \A q \in Pids : Forking(s, p, q) <=> Forking(s, Nobody, q)
  BY TraceesAssumption DEF Forking, Ended
<1> QED
  BY <1>1 DEF Right, Sound, Births

(* The process of the round is restarted or stays stopped.                  *)
LEMMA TailRight ==
  ASSUME NEW h, NEW p \in Pids, NEW m, Right(h, p, Nobody, m), h.t[p].forProot \in Kept,
         ~h.t[p].terminated, h.keep \/ h.t[p].exe
  PROVE  LET u == free_terminated_tracees(IF h.keep THEN h ELSE restart_tracee(h, p), p)
         IN  /\ Right(u, Nobody, Nobody, m)
             /\ \A q \in Pids : Ended(u, q) <=> Ended(h, q)
             /\ u.proot = h.proot
<1> DEFINE d == restart_tracee(h, p)
           r == IF h.keep THEN h ELSE d
           u == free_terminated_tracees(r, p)
<1> h \in States
  BY DEF Right
<1>1. CASE h.keep
  <2>1. u = h
    BY <1>1 DEF free_terminated_tracees
  <2> HIDE DEF u
  <2> QED
    BY <2>1, RoundOver DEF u
<1>2. CASE ~h.keep
  <2>1. p # Nobody
    BY TraceesAssumption
  <2>2. Right(d, p, Nobody, m)
    BY <1>2, <2>1, RestartRight
  <2>3. /\ d.proot = h.proot
        /\ \A e \in Pids : Same(h.t[e], d.t[e])
        /\ \A e \in Pids \ {p} : d.k[e] = h.k[e]
        /\ d.k[p] = h.k[p] \/ Restarted(h.k[p], d.k[p])
    BY RestartFacts
  <2>4. \A q \in Pids : Ended(d, q) <=> Ended(h, q)
    BY <2>3 DEF Ended, Restarted
  <2>5. d.t[p].forProot \in Kept /\ ~d.t[p].terminated
    BY <2>3 DEF Same, Alike
  <2>6. u = d
    BY <1>2, <2>5 DEF free_terminated_tracees
  <2> HIDE DEF u, d
  <2>7. Right(u, Nobody, Nobody, m)
    BY <2>2, <2>5, <2>6, RoundOver
  <2> QED
    BY <2>3, <2>4, <2>6, <2>7 DEF u, d
<1> QED
  BY <1>1, <1>2

(* The event has been left to the tracer, which PRoot has told.             *)
LEMMA LeftRight ==
  ASSUME NEW s, NEW e, NEW p \in Pids, NEW m, Right(e, p, Nobody, m), Frame(s, e, p),
         ~s.t[p].terminated, e.t[p].forProot \in Kept
  PROVE  /\ Right(e, Nobody, Nobody, m)
         /\ \A q \in Pids : Ended(e, q) <=> Ended(s, q)
  BY RoundOver DEF Frame

LEMMA RestStopRight ==
  ASSUME NEW s, NEW p \in Pids, NEW m, Right(s, p, Nobody, m), ~s.t[p].terminated,
         NEW event \in Kept \ {"none"}, s.k[p].event = event, s.k[p].proc = "held"
  PROVE  LET u == Rest(s, p, event)
         IN  /\ Right(u, Nobody, Nobody, m)
             /\ \A q \in Pids : Ended(u, q) <=> Ended(s, q)
             /\ u.proot = s.proot
<1> DEFINE h == handle_tracee_event(s, p, event)
           u == Rest(s, p, event)
<1> s \in States
  BY DEF Right
<1>1. h = HandleStop(s, p, event)
  BY EventSteps
<1> HIDE DEF h
<1>2. Right(h, p, Nobody, m) /\ Frame(s, h, p) /\ h.proot = s.proot
  BY <1>1, StopRight
<1>3. /\ Alike(s.t[p], h.t[p]) /\ h.t[p].forProot = "none"
      /\ event = "SIGSTOP" => (h.keep <=> ~s.t[p].exe)
  BY <1>1, StopFacts
<1>4. event # "SIGSTOP" => s.t[p].exe
  BY DEF Right, Sound, Stops, Halted
<1>5. s.t[p].exe \in BOOLEAN /\ h.keep \in BOOLEAN
  BY <1>2, StatesTypes, StatesFields DEF Right
<1>6. h.keep \/ h.t[p].exe
  BY <1>3, <1>4, <1>5 DEF Alike
<1>7. h.t[p].forProot \in Kept /\ ~h.t[p].terminated
  BY <1>3 DEF Alike, Kept
<1>8. u = free_terminated_tracees(IF h.keep THEN h ELSE restart_tracee(h, p), p)
  BY DEF Rest, h
<1> HIDE DEF u
<1>9. /\ Right(u, Nobody, Nobody, m)
      /\ \A q \in Pids : Ended(u, q) <=> Ended(h, q)
      /\ u.proot = h.proot
  BY <1>2, <1>6, <1>7, <1>8, TailRight
<1> QED
  BY <1>2, <1>9 DEF u, Frame

LEMMA RestExitRight ==
  ASSUME NEW s, NEW p \in Pids, NEW m, Right(s, p, Nobody, m), ~s.t[p].terminated,
         s.t[p].exe, s.t[p].list = "tracees", s.k[p].proc = "held"
  PROVE  LET u == Rest(s, p, "exit")
         IN  /\ Right(u, Nobody, Nobody, m)
             /\ \A q \in Pids : Ended(u, q) <=> Ended(s, q)
             /\ u.proot \in {s.proot, "crashed"}
<1> DEFINE h == handle_tracee_event(s, p, "exit")
           u == Rest(s, p, "exit")
<1>1. Right(h, p, Nobody, m) /\ Frame(s, h, p) /\ ~h.keep /\ h.t[p].forProot = "none"
  BY ExitEventRight
<1>2. u = free_terminated_tracees(IF h.keep THEN h ELSE restart_tracee(h, p), p)
  BY DEF Rest
<1> HIDE DEF u, h
<1>3. h.t[p].forProot \in Kept /\ ~h.t[p].terminated /\ h.t[p].exe
  BY <1>1 DEF Frame, Kept
<1>4. /\ Right(u, Nobody, Nobody, m)
      /\ \A q \in Pids : Ended(u, q) <=> Ended(h, q)
      /\ u.proot = h.proot
  BY <1>1, <1>2, <1>3, TailRight
<1> QED
  BY <1>1, <1>4 DEF u, Frame

LEMMA RestForkRight ==
  ASSUME NEW s, NEW p \in Pids, NEW m, Right(s, p, p, m), ~s.t[p].terminated,
         s.k[p].proc = "held", s.k[p].event = "FORK"
  PROVE  LET u == Rest(s, p, "FORK")
         IN  /\ Right(u, Nobody, Nobody, m)
             /\ \A q \in Pids : Ended(u, q) <=> Ended(s, q)
             /\ u.proot = s.proot
<1> DEFINE h == handle_tracee_event(s, p, "FORK")
           u == Rest(s, p, "FORK")
<1>1. /\ Right(h, p, Nobody, m) /\ Frame(s, h, p) /\ h.proot = s.proot
      /\ ~h.keep /\ h.t[p].forProot = "none"
  BY ForkRight
<1>2. u = free_terminated_tracees(IF h.keep THEN h ELSE restart_tracee(h, p), p)
  BY DEF Rest
<1>3. s.t[p].exe
  BY UnbornChild
<1> HIDE DEF u, h
<1>4. h.t[p].forProot \in Kept /\ ~h.t[p].terminated /\ h.t[p].exe
  BY <1>1, <1>3 DEF Frame, Kept
<1>5. /\ Right(u, Nobody, Nobody, m)
      /\ \A q \in Pids : Ended(u, q) <=> Ended(h, q)
      /\ u.proot = h.proot
  BY <1>1, <1>2, <1>4, TailRight
<1> QED
  BY <1>1, <1>5 DEF u, Frame

LEMMA RestEndRight ==
  ASSUME NEW s, NEW p \in Pids, NEW m, Right(s, p, Nobody, m), Ended(s, p),
         s.t[p].list = "tracees"
  PROVE  LET u == Rest(s, p, "EXITED")
         IN  /\ Right(u, Nobody, Nobody, IF p = Main /\ KillOnExit THEN "over" ELSE m)
             /\ \A q \in Pids : Ended(u, q) <=> Ended(s, q)
             /\ u.proot = s.proot
<1> DEFINE h == handle_tracee_event(s, p, "EXITED")
           u == Rest(s, p, "EXITED")
           n == IF p = Main /\ KillOnExit THEN "over" ELSE m
<1> s \in States
  BY DEF Right
<1>1. h = HandleStop(s, p, "EXITED")
  BY EventSteps
<1> HIDE DEF h, n
<1>2. /\ Right(h, p, Nobody, n)
      /\ \A q \in Pids : Ended(h, q) <=> Ended(s, q)
      /\ h.t[p].list = s.t[p].list /\ h.t[p].terminated
      /\ h.proot = s.proot /\ h.keep = FALSE
  BY <1>1, EndRight DEF n
<1>3. Ended(h, p)
  BY <1>2
<1>4. restart_tracee(h, p) = h
  BY <1>3 DEF restart_tracee, CanRestart, Ended
<1>5. u = remove_tracee(h, p)
  BY <1>2, <1>4 DEF Rest, free_terminated_tracees, h
<1> HIDE DEF u
<1>6. /\ Right(u, Nobody, Nobody, n)
      /\ \A q \in Pids : Ended(u, q) <=> Ended(h, q)
      /\ u.proot = h.proot
  BY <1>2, <1>3, <1>5, RemoveRight
<1> QED
  BY <1>2, <1>6 DEF u, n

LEMMA RestAgain ==
  ASSUME NEW s, NEW p \in Pids, NEW m, Right(s, p, Nobody, m), ~s.t[p].terminated,
         NEW c \in Pids, c = s.k[p].child, c # p, s.t[c].exe
  PROVE  LET u == Rest(s, p, "FORK")
         IN  u \in States /\ u.proot = "aborted"
<1> DEFINE h == handle_tracee_event(s, p, "FORK")
           d == restart_tracee(h, p)
           u == Rest(s, p, "FORK")
<1>1. /\ h \in States /\ h.proot = "aborted" /\ ~h.keep
      /\ h.t[p].terminated => s.t[p].terminated
  BY ForkAgain
<1>2. u = free_terminated_tracees(IF h.keep THEN h ELSE d, p)
  BY DEF Rest
<1> HIDE DEF u, h
<1>3. d \in States /\ d.proot = h.proot /\ Same(h.t[p], d.t[p])
  BY <1>1, RestartFacts
<1> HIDE DEF d
<1>4. u = d
  BY <1>1, <1>2, <1>3 DEF Same, Alike, free_terminated_tracees
<1> QED
  BY <1>1, <1>3, <1>4 DEF u

(* The tracer is told of the end, and PRoot handles it at once.             *)
LEMMA TracedEndFacts ==
  ASSUME NEW s, NEW p \in Pids, NEW m, Right(s, p, Nobody, m), s.t[p].ptracer # Nobody
  PROVE  ~handle_ptracee_event(s, p, "EXITED").keep
<1> DEFINE v == Take(s, p, "EXITED")
           w == Hold(s, p, "EXITED")
           r == s.t[p].ptracer
           kp == "EXITED" # "EXITED"
           u == handle_ptracee_event(s, p, "EXITED")
<1> s \in States
  BY DEF Right
<1>1. "EXITED" \in Events
  BY DEF Events
<1>2. u \in {v, w} \/ u = Notify(v, p, "EXITED", kp)
  BY <1>1, TracedSteps
<1>3. Right(v, p, Nobody, m) /\ v.t[p].ptracer = r /\ ~v.keep
  BY <1>1, HoldRight
<1>4. ~w.keep
  BY <1>1, HoldRight
<1>5. r \in Pids
  BY StatesTypes
<1>6. kp \in BOOLEAN
  OBVIOUS
<1>7. ~kp
  OBVIOUS
<1> HIDE DEF u, v, w, r, kp
<1>8. u = Notify(v, p, "EXITED", kp) => (u.keep => kp)
  BY <1>1, <1>3, <1>5, <1>6, NotifyFacts DEF Right
<1> QED
  BY <1>2, <1>3, <1>4, <1>7, <1>8 DEF u

(* The rounds of an end, of a stop, of the exit of a call and of a fork.     *)
LEMMA AfterEndRight ==
  ASSUME NEW s, NEW p \in Pids, NEW m, Right(s, p, Nobody, m), ~s.t[p].terminated, ~s.keep,
         Ended(s, p), s.t[p].list = "tracees"
  PROVE  LET u == After(s, p, "EXITED")
         IN  /\ Right(u, Nobody, Nobody, IF p = Main /\ KillOnExit THEN "over" ELSE m)
             /\ \A q \in Pids : Ended(u, q) <=> Ended(s, q)
             /\ u.proot = s.proot
<1> DEFINE e == Traced(s, p, "EXITED")
           u == After(s, p, "EXITED")
           r == s.t[p].ptracer
<1> s \in States
  BY DEF Right
<1>1. Right(e, p, Nobody, m) /\ Frame(s, e, p) /\ e.proot = s.proot /\ ~e.keep
  <2>1. CASE r = Nobody
    BY <2>1 DEF Traced, Frame
  <2>2. CASE r # Nobody
    <3>1. "EXITED" \in (Kept \ {"none"}) \cup {"EXITED"} /\ "EXITED" \in Events
      BY DEF Events
    <3>2. e = handle_ptracee_event(s, p, "EXITED")
      BY <2>2 DEF Traced
    <3> HIDE DEF e
    <3>3. Right(e, p, Nobody, m) /\ Frame(s, e, p) /\ e.proot = s.proot
      BY <2>2, <3>1, <3>2, TracedStopRight
    <3>4. ~e.keep
      BY <2>2, <3>2, TracedEndFacts
    <3> QED
      BY <3>3, <3>4
  <2> QED
    BY <2>1, <2>2
<1>2. u = Rest(e, p, "EXITED")
  BY <1>1 DEF After
<1> HIDE DEF u, e
<1>3. Ended(e, p) /\ e.t[p].list = "tracees"
  BY <1>1 DEF Frame
<1>4. /\ Right(u, Nobody, Nobody, IF p = Main /\ KillOnExit THEN "over" ELSE m)
      /\ \A q \in Pids : Ended(u, q) <=> Ended(e, q)
      /\ u.proot = e.proot
  BY <1>1, <1>2, <1>3, RestEndRight
<1> QED
  BY <1>1, <1>4 DEF u, Frame

LEMMA AfterStopRight ==
  ASSUME NEW s, NEW p \in Pids, NEW m, Right(s, p, Nobody, m), ~s.t[p].terminated, ~s.keep,
         s.t[p].list = "tracees", s.k[p].proc = "held",
         NEW event \in Kept \ {"none"}, s.k[p].event = event
  PROVE  LET u == After(s, p, event)
         IN  /\ Right(u, Nobody, Nobody, m)
             /\ \A q \in Pids : Ended(u, q) <=> Ended(s, q)
             /\ u.proot = s.proot
<1> DEFINE e == Traced(s, p, event)
           u == After(s, p, event)
           r == s.t[p].ptracer
<1>1. /\ Right(e, p, Nobody, m) /\ Frame(s, e, p) /\ e.proot = s.proot
      /\ e.keep => e.t[p].forProot \in Kept
  <2>1. CASE r = Nobody
    BY <2>1 DEF Traced, Frame
  <2>2. CASE r # Nobody
    <3>1. event \in (Kept \ {"none"}) \cup {"EXITED"}
      OBVIOUS
    <3>2. e = handle_ptracee_event(s, p, event)
      BY <2>2 DEF Traced
    <3> HIDE DEF e
    <3> QED
      BY <2>2, <3>1, <3>2, TracedStopRight
  <2> QED
    BY <2>1, <2>2
<1>2. u = IF e.keep THEN e ELSE Rest(e, p, event)
  BY DEF After
<1> HIDE DEF u, e
<1>3. CASE e.keep
  BY <1>1, <1>2, <1>3, LeftRight DEF u
<1>4. CASE ~e.keep
  <2>1. e.k[p].proc = "held" /\ e.k[p].event = event /\ ~e.t[p].terminated
    BY <1>1 DEF Frame
  <2>2. u = Rest(e, p, event)
    BY <1>2, <1>4
  <2>3. /\ Right(u, Nobody, Nobody, m)
        /\ \A q \in Pids : Ended(u, q) <=> Ended(e, q)
        /\ u.proot = e.proot
    BY <1>1, <2>1, <2>2, RestStopRight
  <2> QED
    BY <1>1, <2>3 DEF u, Frame
<1> QED
  BY <1>3, <1>4

LEMMA AfterExitRight ==
  ASSUME NEW s, NEW p \in Pids, NEW m, Right(s, p, Nobody, m), ~s.t[p].terminated, ~s.keep,
         s.t[p].list = "tracees", s.k[p].proc = "held", s.k[p].event = "exit"
  PROVE  LET u == After(s, p, "exit")
         IN  /\ Right(u, Nobody, Nobody, m)
             /\ \A q \in Pids : Ended(u, q) <=> Ended(s, q)
             /\ u.proot \in {s.proot, "crashed"}
<1> DEFINE e == Traced(s, p, "exit")
           u == After(s, p, "exit")
           r == s.t[p].ptracer
<1>1. s.t[p].exe
  BY DEF Right, Sound, Stops, Halted
<1>2. /\ Right(e, p, Nobody, m) /\ Frame(s, e, p)
      /\ e.keep => e.t[p].forProot \in Kept
  <2>1. CASE r = Nobody
    BY <2>1 DEF Traced, Frame
  <2>2. CASE r # Nobody
    <3>1. e = handle_ptracee_event(s, p, "exit")
      BY <2>2 DEF Traced
    <3> HIDE DEF e
    <3> QED
      BY <1>1, <2>2, <3>1, TracedExitRight
  <2> QED
    BY <2>1, <2>2
<1>3. u = IF e.keep THEN e ELSE Rest(e, p, "exit")
  BY DEF After
<1> HIDE DEF u, e
<1>4. CASE e.keep
  BY <1>2, <1>3, <1>4, LeftRight DEF u, Frame
<1>5. CASE ~e.keep
  <2>1. /\ e.k[p].proc = "held" /\ ~e.t[p].terminated
        /\ e.t[p].exe /\ e.t[p].list = "tracees"
    BY <1>1, <1>2 DEF Frame
  <2>2. u = Rest(e, p, "exit")
    BY <1>3, <1>5
  <2>3. /\ Right(u, Nobody, Nobody, m)
        /\ \A q \in Pids : Ended(u, q) <=> Ended(e, q)
        /\ u.proot \in {e.proot, "crashed"}
    BY <1>2, <2>1, <2>2, RestExitRight
  <2> QED
    BY <1>2, <2>3 DEF u, Frame
<1> QED
  BY <1>4, <1>5

(* A fork is handled twice when the tracer that is told of it has died.      *)
LEMMA AfterForkRight ==
  ASSUME NEW s, NEW p \in Pids, NEW m \in {"calm", "killed", "over"}, Right(s, p, p, m),
         ~s.t[p].terminated, ~s.keep,
         s.t[p].list = "tracees", s.k[p].proc = "held", s.k[p].event = "FORK"
  PROVE  LET u == After(s, p, "FORK")
         IN  \/ /\ Right(u, Nobody, Nobody, m)
                /\ \A q \in Pids : Ended(u, q) <=> Ended(s, q)
                /\ u.proot = s.proot
             \/ u \in States /\ u.proot = "aborted" /\ m = "killed"
<1> DEFINE e == Traced(s, p, "FORK")
           u == After(s, p, "FORK")
           r == s.t[p].ptracer
           c == s.k[p].child
<1> s \in States
  BY DEF Right
<1>1. c \in Pids \ {p} /\ m # "over"
  BY UnbornChild
<1> HIDE DEF c
<1>2. /\ Frame(s, e, p) /\ e.proot = s.proot
      /\ e.keep => e.t[p].forProot \in Kept
      /\ \/ Right(e, p, p, m) /\ ~e.keep
         \/ /\ Right(e, p, Nobody, m)
            /\ e.t[c].exe
            /\ m = "calm" => e.keep
  <2>1. CASE r = Nobody
    BY <2>1 DEF Traced, Frame
  <2>2. CASE r # Nobody
    <3>1. e = handle_ptracee_event(s, p, "FORK")
      BY <2>2 DEF Traced
    <3> HIDE DEF e
    <3> QED
      BY <2>2, <3>1, TracedForkRight DEF c
  <2> QED
    BY <2>1, <2>2
<1>3. u = IF e.keep THEN e ELSE Rest(e, p, "FORK")
  BY DEF After
<1> HIDE DEF u, e
<1>4. /\ e.k[p].proc = "held" /\ e.k[p].event = "FORK" /\ e.k[p].child = c
      /\ ~e.t[p].terminated
  BY <1>2 DEF Frame, c
<1>5. CASE e.keep
  <2>1. Right(e, p, Nobody, m)
    BY <1>2, <1>5
  <2> QED
    BY <1>2, <1>3, <1>5, <2>1, LeftRight DEF u
<1>6. CASE ~e.keep /\ Right(e, p, p, m)
  <2>1. u = Rest(e, p, "FORK")
    BY <1>3, <1>6
  <2>2. /\ Right(u, Nobody, Nobody, m)
        /\ \A q \in Pids : Ended(u, q) <=> Ended(e, q)
        /\ u.proot = e.proot
    BY <1>4, <1>6, <2>1, RestForkRight
  <2> QED
    BY <1>2, <2>2 DEF u, Frame
<1>7. CASE ~e.keep /\ Right(e, p, Nobody, m) /\ e.t[c].exe /\ m # "calm"
  <2>1. u = Rest(e, p, "FORK")
    BY <1>3, <1>7
  <2>2. u \in States /\ u.proot = "aborted"
    BY <1>1, <1>4, <1>7, <2>1, RestAgain
  <2> QED
    BY <1>1, <1>7, <2>2 DEF u
<1> QED
  BY <1>2, <1>5, <1>6, <1>7

-----------------------------------------------------------------------------
(* The steps of the system.                                                 *)

Types ==
  /\ t \in [Pids -> Tracee]
  /\ k \in [Pids -> Process]
  /\ proot \in {"alive", "ended", "aborted", "crashed"}
  /\ kills \in 0 .. MaxKills

LEMMA StateFacts ==
  ASSUME Types
  PROVE  /\ State \in States
         /\ State.t = t /\ State.k = k /\ State.keep = FALSE /\ State.proot = proot
BY DEF Types, State, States

LEMMA SetProc ==
  ASSUME NEW x \in Process, NEW v \in Living \cup {"dead", "zombie", "gone"}
  PROVE  LET y == [x EXCEPT !.proc = v]
         IN  /\ y \in Process
             /\ y.proc = v /\ y.event = x.event /\ y.child = x.child
             /\ y.forker = x.forker /\ y.call = x.call
  BY Zenon DEF Process

(* What waitpid() returns.                                                  *)
LEMMA CollectedFacts ==
  ASSUME Types, NEW p \in Pids, k[p].proc \in {"stop", "dead"}
  PROVE  /\ Collected(p) \in [Pids -> Process]
         /\ \A q \in Pids :
              /\ Collected(p)[q].event = k[q].event /\ Collected(p)[q].child = k[q].child
              /\ Collected(p)[q].forker = k[q].forker /\ Collected(p)[q].call = k[q].call
         /\ k[p].proc = "stop" => Collected(p)[p].proc = "held"
         /\ k[p].proc = "dead" => Collected(p)[p].proc \in {"zombie", "gone"}
         /\ \A q \in Pids \ {p} :
              \/ Collected(p)[q].proc = k[q].proc
              \/ k[q].proc = "zombie" /\ Collected(p)[q].proc = "gone"
<1> DEFINE y(q, v) == [k[q] EXCEPT !.proc = v]
           w(q) == IF k[q].forker # Nobody /\ k[k[q].forker].proc \in Living THEN "zombie" ELSE "gone"
<1>1. \A q \in Pids : k[q] \in Process
  BY DEF Types
<1>2. ASSUME NEW q \in Pids, NEW v \in Living \cup {"dead", "zombie", "gone"}
      PROVE  /\ y(q, v) \in Process
             /\ y(q, v).proc = v /\ y(q, v).event = k[q].event /\ y(q, v).child = k[q].child
             /\ y(q, v).forker = k[q].forker /\ y(q, v).call = k[q].call
  BY <1>1, SetProc
<1>3. "held" \in Living
  BY DEF Living
<1>4. CASE k[p].proc = "stop"
  <2>1. Collected(p) = [k EXCEPT ![p] = y(p, "held")]
    BY <1>4 DEF Collected
  <2> HIDE DEF y
  <2>2. /\ Collected(p) \in [Pids -> Process]
        /\ \A q \in Pids : Collected(p)[q] = IF q = p THEN y(p, "held") ELSE k[q]
    BY <1>2, <1>3, <2>1 DEF Types
  <2> QED
    BY <1>2, <1>3, <1>4, <2>2
<1>5. CASE k[p].proc = "dead"
  <2>1. Collected(p) = [c \in Pids |->
          IF c = p THEN y(c, w(c))
          ELSE IF k[c].forker = p /\ k[c].proc = "zombie" THEN y(c, "gone") ELSE k[c]]
    BY <1>5 DEF Collected
  <2>2. \A c \in Pids : w(c) \in {"zombie", "gone"}
    OBVIOUS
  <2> HIDE DEF y, w
  <2>3. \A q \in Pids :
          \/ q = p /\ Collected(p)[q] = y(q, w(q))
          \/ q # p /\ k[q].proc = "zombie" /\ Collected(p)[q] = y(q, "gone")
          \/ q # p /\ Collected(p)[q] = k[q]
    BY <2>1
  <2>4. Collected(p) \in [Pids -> Process]
    BY <1>1, <1>2, <2>1, <2>2
  <2> QED
    BY <1>2, <1>5, <2>2, <2>3, <2>4
<1> QED
  BY <1>4, <1>5

(* The state in which a round handles what waitpid() returned.              *)
Returned(p) ==
  [State EXCEPT !.t[p] = [t[p] EXCEPT !.list = "tracees", !.running = FALSE],
                !.k = Collected(p)]

LEMMA ReturnedFacts ==
  ASSUME Types, NEW p \in Pids, k[p].proc \in {"stop", "dead"}
  PROVE  /\ Returned(p) \in States
         /\ Returned(p).keep = FALSE /\ Returned(p).proot = proot
         /\ Returned(p).k = Collected(p)
         /\ \A q \in Pids \ {p} : Returned(p).t[q] = t[q]
         /\ Returned(p).t[p].list = "tracees"
         /\ \A q \in Pids :
              /\ Returned(p).t[q].exe = t[q].exe /\ Returned(p).t[q].parent = t[q].parent
              /\ Returned(p).t[q].ptracer = t[q].ptracer
              /\ Returned(p).t[q].ptracees = t[q].ptracees
              /\ Returned(p).t[q].terminated = t[q].terminated
              /\ Returned(p).t[q].forProot = t[q].forProot
              /\ Returned(p).t[q].waitPid = t[q].waitPid
<1> DEFINE x == [t[p] EXCEPT !.list = "tracees", !.running = FALSE]
           f == [t EXCEPT ![p] = x]
<1>1. t[p] \in Tracee
  BY DEF Types
<1>2. /\ x \in Tracee
      /\ x.list = "tracees" /\ x.exe = t[p].exe /\ x.parent = t[p].parent
      /\ x.ptracer = t[p].ptracer /\ x.ptracees = t[p].ptracees
      /\ x.terminated = t[p].terminated
      /\ x.forProot = t[p].forProot /\ x.waitPid = t[p].waitPid
  BY <1>1, SetStopped
<1>3. Collected(p) \in [Pids -> Process]
  BY CollectedFacts
<1>4. Returned(p) = [State EXCEPT !.t = [State.t EXCEPT ![p] = x], !.k = Collected(p)]
  BY DEF Returned
<1> HIDE DEF x
<1>5. f \in [Pids -> Tracee] /\ \A q \in Pids : f[q] = IF q = p THEN x ELSE t[q]
  BY <1>2 DEF Types
<1>6. /\ State \in States /\ State.t = t
      /\ State.keep = FALSE /\ State.proot = proot
  BY StateFacts
<1>7. Returned(p) = [State EXCEPT !.t = f, !.k = Collected(p)]
  BY <1>4, <1>6
<1> HIDE DEF f
<1>8. /\ Returned(p) \in States
      /\ Returned(p).t = f /\ Returned(p).k = Collected(p)
      /\ Returned(p).keep = FALSE /\ Returned(p).proot = proot
  BY <1>3, <1>5, <1>6, <1>7 DEF States
<1> QED
  BY <1>2, <1>5, <1>8

(* The modes of the invariant.                                              *)
Modes == {"calm", "killed", "over"}

LEMMA ReturnedRight ==
  ASSUME Types, NEW m \in Modes, Right(State, Nobody, Nobody, m),
         NEW p \in Pids, k[p].proc \in {"stop", "dead"}
  PROVE  LET s == Returned(p)
         IN  /\ Right(s, p, p, m)
             /\ ~s.t[p].terminated /\ ~s.keep /\ s.t[p].list = "tracees" /\ s.proot = proot
             /\ s.k[p].event = k[p].event
             /\ k[p].proc = "stop" =>
                  /\ s.k[p].proc = "held"
                  /\ k[p].event \in {"SIGSTOP", "signal", "FORK", "enter", "exit"}
             /\ k[p].proc = "dead" => Ended(s, p)
             /\ \A q \in Pids \ {p} : Ended(s, q) <=> Ended(State, q)
             /\ k[p].proc = "stop" => ~Ended(s, p)
<1> DEFINE s == Returned(p)
<1>1. State \in States /\ State.t = t /\ State.k = k
  BY StateFacts
<1>2. /\ Tracers(State) /\ Listed(State) /\ Stops(State) /\ Named(State)
      /\ Births(State, Nobody) /\ Woken(State, m) /\ Pending(State, Nobody)
      /\ Counted(State, Nobody)
  BY DEF Right, Sound
<1>3. /\ s \in States /\ s.keep = FALSE /\ s.proot = proot
      /\ \A q \in Pids \ {p} : s.t[q] = t[q]
      /\ s.t[p].list = "tracees"
      /\ \A q \in Pids :
           /\ s.t[q].exe = t[q].exe /\ s.t[q].parent = t[q].parent
           /\ s.t[q].ptracer = t[q].ptracer /\ s.t[q].ptracees = t[q].ptracees
           /\ s.t[q].terminated = t[q].terminated
           /\ s.t[q].forProot = t[q].forProot /\ s.t[q].waitPid = t[q].waitPid
  BY ReturnedFacts
<1>4. /\ \A q \in Pids :
           /\ s.k[q].event = k[q].event /\ s.k[q].child = k[q].child
           /\ s.k[q].forker = k[q].forker /\ s.k[q].call = k[q].call
      /\ k[p].proc = "stop" => s.k[p].proc = "held"
      /\ k[p].proc = "dead" => s.k[p].proc \in {"zombie", "gone"}
      /\ \A q \in Pids \ {p} :
           \/ s.k[q].proc = k[q].proc
           \/ k[q].proc = "zombie" /\ s.k[q].proc = "gone"
  <2>1. s.k = Collected(p)
    BY ReturnedFacts
  <2> HIDE DEF s
  <2> QED
    BY <2>1, CollectedFacts
<1> HIDE DEF s
<1>5. ~Ended(State, p)
  BY <1>1 DEF Ended
<1>6. \A q \in Pids \ {p} : Ended(s, q) <=> Ended(State, q)
  BY <1>1, <1>4 DEF Ended
<1>7. /\ k[p].proc = "dead" => Ended(s, p)
      /\ k[p].proc = "stop" => ~Ended(s, p)
  BY <1>4 DEF Ended
<1>8. /\ t[p].list \in {"none", "tracees"} /\ ~t[p].terminated
      /\ t[p].list = "none" => ~t[p].exe /\ t[p].parent = Nobody /\ t[p].ptracer = Nobody
  BY <1>1, <1>2, <1>5, StatesTypes DEF Listed
<1>9. \A q \in Pids : Ended(State, q) => Ended(s, q)
  BY <1>5, <1>6
<1>10. Tracers(s)
  BY <1>1, <1>2, <1>3, <1>8, StatesTypes DEF Tracers
<1>11. Listed(s)
  BY <1>1, <1>2, <1>3, <1>8, <1>9, StatesTypes DEF Listed
<1>12. Stops(s)
  <2>1. ASSUME NEW q \in Pids
        PROVE  /\ s.k[q].proc \in {"run", "wait"} => s.t[q].exe
               /\ s.k[q].proc = "none" => s.t[q].list = "none" /\ s.k[q].forker = Nobody
    BY <1>1, <1>2, <1>3, <1>4, <1>7 DEF Stops, Ended
  <2>2. \A q \in Pids : Halted(s, q) => Halted(State, q)
    BY <1>1, <1>4, <1>7 DEF Halted, Ended
  <2>3. ASSUME NEW q \in Pids, Halted(s, q)
        PROVE  /\ s.k[q].event \in {"SIGSTOP", "signal", "FORK", "enter", "exit"}
               /\ s.k[q].event # "SIGSTOP" => s.t[q].exe
               /\ s.k[q].event = "FORK" =>
                    s.k[q].child \in Pids \ {q} /\ s.k[s.k[q].child].forker = q
    BY <1>1, <1>2, <1>3, <1>4, <2>2, <2>3 DEF Stops
  <2> QED
    BY <2>1, <2>3 DEF Stops
<1>13. \A c \in Pids : Missing(State, c) => Missing(s, c)
  BY <1>1, <1>3, <1>5, <1>9 DEF Missing
<1>14. Named(s)
  BY <1>1, <1>2, <1>3, <1>4, <1>13 DEF Named
<1>15. Births(s, p)
  <2>1. \A q \in Pids : Forking(s, p, q) <=> Forking(State, Nobody, q)
    BY <1>1, <1>4, <1>7, TraceesAssumption DEF Forking, Ended
  <2>2. \A q \in Pids : Forking(State, Nobody, q) => k[q].child \in Pids
    BY <1>1, <1>2, TraceesAssumption DEF Stops, Forking, Halted
  <2>3. ASSUME NEW q \in Pids, Forking(s, p, q)
        PROVE  ~s.t[s.k[q].child].exe /\ s.t[s.k[q].child].list # "zombie"
    BY <1>1, <1>2, <1>3, <1>4, <2>1, <2>2, <2>3 DEF Births
  <2>4. \A q \in Pids : k[q].proc = "dead" => s.k[q].proc = "dead" \/ Ended(s, q)
    BY <1>4, <1>7
  <2>5. ASSUME NEW q \in Pids, NEW c \in Pids, s.k[c].forker = q
        PROVE  \/ s.t[c].exe \/ Missing(s, c)
               \/ Forking(s, p, q) /\ s.k[q].child = c
               \/ s.k[q].proc = "dead" \/ Ended(s, q)
    BY <1>1, <1>2, <1>3, <1>4, <1>9, <1>13, <2>1, <2>4, <2>5 DEF Births
  <2> QED
    BY <2>3, <2>5 DEF Births
<1>16. Woken(s, m)
  <2>1. m = "calm" => \A r \in Pids : s.t[r].waitPid # Nobody => s.k[r].proc = "held"
    BY <1>1, <1>2, <1>3, <1>4 DEF Woken
  <2>2. \A q \in Pids : s.k[q].proc \in Living => k[q].proc \in Living
    BY <1>4 DEF Living
  <2>3. m = "over" => \A q \in Pids : s.k[q].proc \in Living => ~s.t[q].exe
    BY <1>1, <1>2, <1>3, <2>2 DEF Woken
  <2> QED
    BY <2>1, <2>3 DEF Woken
<1>17. Pending(s, p)
  BY <1>1, <1>2, <1>3, TraceesAssumption DEF Pending
<1>18. Counted(s, Nobody)
  BY <1>1, <1>2, <1>3, CountedSame
<1>19. k[p].proc = "stop" => k[p].event \in {"SIGSTOP", "signal", "FORK", "enter", "exit"}
  BY <1>1, <1>2 DEF Stops, Halted
<1> QED
  BY <1>3, <1>4, <1>6, <1>7, <1>8, <1>10, <1>11, <1>12, <1>14, <1>15, <1>16, <1>17, <1>18,
     <1>19 DEF Right, Sound, s

(* A round, whatever was returned.  PRoot may find that it handles a fork    *)
(* twice only when somebody was killed.                                     *)
Returns(p) == IF k[p].proc = "dead" THEN "EXITED" ELSE k[p].event

LEMMA RoundRight ==
  ASSUME Types, NEW m \in Modes, Right(State, Nobody, Nobody, m),
         NEW p \in Pids, k[p].proc \in {"stop", "dead"}
  PROVE  LET u == After(Returned(p), p, Returns(p))
             n == IF k[p].proc = "dead" /\ p = Main /\ KillOnExit THEN "over" ELSE m
         IN  \/ /\ Right(u, Nobody, Nobody, n)
                /\ \A q \in Pids \ {p} : Ended(u, q) <=> Ended(State, q)
                /\ Ended(u, p) <=> k[p].proc = "dead"
                /\ u.proot \in {proot, "crashed"}
             \/ u \in States /\ u.proot = "aborted" /\ m = "killed"
<1> DEFINE s == Returned(p)
           event == Returns(p)
           u == After(s, p, event)
<1>1. /\ Right(s, p, p, m)
      /\ ~s.t[p].terminated /\ ~s.keep /\ s.t[p].list = "tracees" /\ s.proot = proot
      /\ s.k[p].event = k[p].event
      /\ k[p].proc = "stop" =>
           /\ s.k[p].proc = "held"
           /\ k[p].event \in {"SIGSTOP", "signal", "FORK", "enter", "exit"}
      /\ k[p].proc = "dead" => Ended(s, p)
      /\ \A q \in Pids \ {p} : Ended(s, q) <=> Ended(State, q)
      /\ k[p].proc = "stop" => ~Ended(s, p)
  BY ReturnedRight
<1> HIDE DEF s
<1>2. CASE k[p].proc = "dead"
  <2>1. event = "EXITED"
    BY <1>2 DEF Returns
  <2>2. Ended(s, p) /\ Right(s, p, Nobody, m)
    BY <1>1, <1>2, NoBirth
  <2>3. u = After(s, p, "EXITED")
    BY <2>1
  <2> HIDE DEF u, event
  <2>4. /\ Right(u, Nobody, Nobody, IF p = Main /\ KillOnExit THEN "over" ELSE m)
        /\ \A q \in Pids : Ended(u, q) <=> Ended(s, q)
        /\ u.proot = s.proot
    BY <1>1, <2>2, <2>3, AfterEndRight
  <2> QED
    BY <1>1, <1>2, <2>2, <2>4 DEF u, event, s
<1>3. CASE k[p].proc = "stop"
  <2>1. event = k[p].event
    BY <1>3 DEF Returns
  <2>2. k[p].proc # "dead" /\ ~Ended(s, p) /\ s.k[p].proc = "held" /\ s.k[p].event = event
    BY <1>1, <1>3, <2>1
  <2> HIDE DEF u, event
  <2>3. SUFFICES \/ /\ Right(u, Nobody, Nobody, m)
                    /\ \A q \in Pids : Ended(u, q) <=> Ended(s, q)
                    /\ u.proot \in {s.proot, "crashed"}
                 \/ u \in States /\ u.proot = "aborted" /\ m = "killed"
    BY <1>1, <2>2 DEF u, event, s
  <2>4. CASE event \in {"SIGSTOP", "signal", "enter"}
    <3>1. event \in Kept \ {"none"} /\ event # "FORK"
      BY <2>4 DEF Kept
    <3>2. Right(s, p, Nobody, m)
      BY <1>1, <2>2, <3>1, NoBirth
    <3>3. /\ Right(u, Nobody, Nobody, m)
          /\ \A q \in Pids : Ended(u, q) <=> Ended(s, q)
          /\ u.proot = s.proot
      BY <1>1, <2>2, <3>1, <3>2, AfterStopRight DEF u
    <3> QED
      BY <3>3
  <2>5. CASE event = "exit"
    <3>1. Right(s, p, Nobody, m)
      BY <1>1, <2>2, <2>5, NoBirth
    <3>2. u = After(s, p, "exit") /\ s.k[p].event = "exit"
      BY <2>2, <2>5 DEF u
    <3>3. /\ Right(u, Nobody, Nobody, m)
          /\ \A q \in Pids : Ended(u, q) <=> Ended(s, q)
          /\ u.proot \in {s.proot, "crashed"}
      BY <1>1, <2>2, <3>1, <3>2, AfterExitRight
    <3> QED
      BY <3>3
  <2>6. CASE event = "FORK"
    <3>1. u = After(s, p, "FORK") /\ s.k[p].event = "FORK"
      BY <2>2, <2>6 DEF u
    <3>2. m \in {"calm", "killed", "over"}
      BY DEF Modes
    <3>3. \/ /\ Right(u, Nobody, Nobody, m)
             /\ \A q \in Pids : Ended(u, q) <=> Ended(s, q)
             /\ u.proot = s.proot
          \/ u \in States /\ u.proot = "aborted" /\ m = "killed"
      BY <1>1, <2>2, <3>1, <3>2, AfterForkRight
    <3> QED
      BY <3>3
  <2> QED
    BY <1>1, <1>3, <2>1, <2>4, <2>5, <2>6
<1> QED
  BY <1>2, <1>3

(* The invariant.  PRoot is in one of three modes, and its memory is right   *)
(* as long as it is alive.                                                  *)
Mode == IF KillOnExit /\ Ended(State, Main) THEN "over" ELSE IF kills = 0 THEN "calm" ELSE "killed"

IInv ==
  /\ Types
  /\ proot = "aborted" => kills > 0
  /\ proot = "alive" => Right(State, Nobody, Nobody, Mode)

LEMMA NextState ==
  ASSUME Types'
  PROVE  /\ State' \in States
         /\ State'.t = t' /\ State'.k = k' /\ State'.keep = FALSE /\ State'.proot = proot'
BY DEF Types, State, States

LEMMA ModeType == Mode \in Modes
BY DEF Mode, Modes

LEMMA RoundSteps ==
  ASSUME NEW p \in Pids, Round(p)
  PROVE  LET u == After(Returned(p), p, Returns(p))
         IN  /\ proot = "alive" /\ k[p].proc \in {"stop", "dead"}
             /\ t' = u.t /\ proot' = u.proot /\ kills' = kills
             /\ k' = IF u.proot = "alive" THEN u.k ELSE kill_all_tracees(u).k
BY DEF Round, After, Traced, Rest, Returned, Returns

LEMMA RoundInv ==
  ASSUME IInv, NEW p \in Pids, Round(p)
  PROVE  IInv'
<1> DEFINE u == After(Returned(p), p, Returns(p))
           d == kill_all_tracees(u)
           n == IF k[p].proc = "dead" /\ p = Main /\ KillOnExit THEN "over" ELSE Mode
<1>1. /\ proot = "alive" /\ k[p].proc \in {"stop", "dead"}
      /\ t' = u.t /\ proot' = u.proot /\ kills' = kills
      /\ k' = IF u.proot = "alive" THEN u.k ELSE d.k
  BY RoundSteps
<1>2. Types /\ Right(State, Nobody, Nobody, Mode)
  BY <1>1 DEF IInv
<1>3. \/ /\ Right(u, Nobody, Nobody, n)
         /\ \A q \in Pids \ {p} : Ended(u, q) <=> Ended(State, q)
         /\ Ended(u, p) <=> k[p].proc = "dead"
         /\ u.proot \in {proot, "crashed"}
      \/ u \in States /\ u.proot = "aborted" /\ Mode = "killed"
  BY <1>1, <1>2, ModeType, RoundRight
<1> HIDE DEF u, d, n
<1>4. u \in States
  BY <1>3 DEF Right
<1>5. d \in States
  BY <1>4, KillAllFacts DEF d
<1>6. Types'
  BY <1>1, <1>2, <1>4, <1>5 DEF Types, States
<1>7. proot' = "aborted" => kills' > 0
  <2>1. proot' = "aborted" => kills # 0
    BY <1>1, <1>3 DEF Mode
  <2> QED
    BY <1>1, <1>2, <2>1, TraceesAssumption DEF Types
<1>8. ASSUME proot' = "alive"
      PROVE  Right(State', Nobody, Nobody, Mode')
  <2>1. /\ State' \in States /\ State'.t = u.t /\ State'.k = u.k /\ State'.proot = u.proot
    BY <1>1, <1>6, <1>8, NextState
  <2>2. /\ Right(u, Nobody, Nobody, n)
        /\ \A q \in Pids \ {p} : Ended(u, q) <=> Ended(State, q)
        /\ Ended(u, p) <=> k[p].proc = "dead"
    BY <1>1, <1>3, <1>8
  <2>3. n = Mode'
    <3>1. Ended(State', Main) <=> Ended(u, Main)
      BY <2>1 DEF Ended
    <3>2. Ended(State, p) => FALSE
      BY <1>1, <1>2, StateFacts DEF Ended
    <3> QED
      BY <1>1, <2>2, <3>1, <3>2, TraceesAssumption DEF n, Mode
  <2>4. Right(u, Main, Nobody, n) /\ u.t[Main].forProot \in Kept /\ ~u.t[Main].terminated
    BY <2>2, RoundNotOver, TraceesAssumption
  <2>5. Right(State', Main, Nobody, n)
    BY <2>1, <2>4, LikeRight, TraceesAssumption
  <2> QED
    BY <2>1, <2>3, <2>4, <2>5, RoundOver, TraceesAssumption
<1> QED
  BY <1>6, <1>7, <1>8 DEF IInv

-----------------------------------------------------------------------------
(* Between the rounds, the kernel and the guests move.                      *)

(* A process stops, ends, is collected, or does nothing the invariant sees;  *)
(* one that PRoot has stopped ends only when somebody kills it.             *)
Acts(s, u, m) ==
  /\ u \in States
  /\ u.t = s.t
  /\ \A q \in Pids :
       /\ u.k[q].forker = s.k[q].forker
       /\ u.k[q].call.pid = s.k[q].call.pid
            \/ \A c \in Pids : u.k[q].call.pid = c => s.t[c].exe \/ Missing(s, c)
       /\ \/ /\ u.k[q].proc = s.k[q].proc
             /\ u.k[q].event = s.k[q].event /\ u.k[q].child = s.k[q].child
          \/ /\ s.k[q].proc \in {"run", "wait"} /\ u.k[q].proc = "stop"
             /\ u.k[q].event \in {"SIGSTOP", "signal", "enter", "exit"}
          \/ /\ s.k[q].proc \in Living /\ u.k[q].proc = "dead"
             /\ m = "calm" => s.k[q].proc # "held"
          \/ s.k[q].proc = "zombie" /\ u.k[q].proc = "gone"

LEMMA ActsRight ==
  ASSUME NEW s, NEW u, NEW m, Right(s, Nobody, Nobody, m), Acts(s, u, m)
  PROVE  /\ Right(u, Nobody, Nobody, m)
         /\ \A q \in Pids : Ended(u, q) <=> Ended(s, q)
<1>1. /\ Tracers(s) /\ Listed(s) /\ Stops(s) /\ Named(s)
      /\ Births(s, Nobody) /\ Woken(s, m) /\ Pending(s, Nobody)
      /\ Counted(s, Nobody) /\ s \in States
  BY DEF Right, Sound
<1>2. /\ u \in States /\ u.t = s.t
      /\ \A q \in Pids :
           /\ u.k[q].forker = s.k[q].forker
           /\ u.k[q].call.pid = s.k[q].call.pid
                \/ \A c \in Pids : u.k[q].call.pid = c => s.t[c].exe \/ Missing(s, c)
  BY DEF Acts
<1>3. \A q \in Pids :
        \/ /\ u.k[q].proc = s.k[q].proc
           /\ u.k[q].event = s.k[q].event /\ u.k[q].child = s.k[q].child
        \/ /\ s.k[q].proc \in {"run", "wait"} /\ u.k[q].proc = "stop"
           /\ u.k[q].event \in {"SIGSTOP", "signal", "enter", "exit"}
        \/ /\ s.k[q].proc \in Living /\ u.k[q].proc = "dead"
           /\ m = "calm" => s.k[q].proc # "held"
        \/ s.k[q].proc = "zombie" /\ u.k[q].proc = "gone"
  BY DEF Acts
<1>4. \A q \in Pids : Ended(u, q) <=> Ended(s, q)
  BY <1>3 DEF Ended, Living
<1>5. Tracers(u) /\ Pending(u, Nobody)
  BY <1>1, <1>2 DEF Tracers, Pending
<1>6. Listed(u)
  BY <1>1, <1>2, <1>4 DEF Listed
<1>7. Stops(u)
  <2>1. ASSUME NEW q \in Pids
        PROVE  /\ u.k[q].proc \in {"run", "wait"} => u.t[q].exe
               /\ u.k[q].proc = "none" => u.t[q].list = "none" /\ u.k[q].forker = Nobody
    BY <1>1, <1>2, <1>3 DEF Stops
  <2>2. ASSUME NEW q \in Pids, Halted(u, q)
        PROVE  /\ u.k[q].event \in {"SIGSTOP", "signal", "FORK", "enter", "exit"}
               /\ u.k[q].event # "SIGSTOP" => u.t[q].exe
               /\ u.k[q].event = "FORK" =>
                    u.k[q].child \in Pids \ {q} /\ u.k[u.k[q].child].forker = q
    BY <1>1, <1>2, <1>3, <2>2 DEF Stops, Halted
  <2> QED
    BY <2>1, <2>2 DEF Stops
<1>8. Named(u)
  BY <1>1, <1>2, <1>4 DEF Named, Missing
<1>9. Births(u, Nobody)
  <2>1. \A q \in Pids :
          Forking(u, Nobody, q) => Forking(s, Nobody, q) /\ u.k[q].child = s.k[q].child
    BY <1>3 DEF Forking
  <2>2. \A q \in Pids :
          Forking(s, Nobody, q) =>
            (Forking(u, Nobody, q) /\ u.k[q].child = s.k[q].child) \/ u.k[q].proc = "dead"
    BY <1>3, TraceesAssumption DEF Forking
  <2>3. \A q \in Pids : s.k[q].proc = "dead" => u.k[q].proc = "dead"
    BY <1>3 DEF Living
  <2> QED
    BY <1>1, <1>2, <1>4, <2>1, <2>2, <2>3 DEF Births, Missing
<1>10. Woken(u, m)
  <2>1. m = "calm" => \A r \in Pids : u.t[r].waitPid # Nobody => u.k[r].proc = "held"
    BY <1>1, <1>2, <1>3 DEF Woken
  <2>2. \A q \in Pids : u.k[q].proc \in Living => s.k[q].proc \in Living
    BY <1>3 DEF Living
  <2>3. m = "over" => \A q \in Pids : u.k[q].proc \in Living => ~u.t[q].exe
    BY <1>1, <1>2, <2>2 DEF Woken
  <2> QED
    BY <2>1, <2>3 DEF Woken
<1>11. Counted(u, Nobody)
  BY <1>1, <1>2, CountedSame
<1> QED
  BY <1>2, <1>4, <1>5, <1>6, <1>7, <1>8, <1>9, <1>10, <1>11 DEF Right, Sound

(* fork() makes a process that PRoot does not know yet.                     *)
Forks(s, u, p, c) ==
  /\ u \in States
  /\ u.t = s.t
  /\ s.k[p].proc = "run" /\ s.k[c].proc = "none"
  /\ u.k[p].proc = "stop" /\ u.k[p].event = "FORK" /\ u.k[p].child = c
  /\ u.k[p].forker = s.k[p].forker /\ u.k[p].call = s.k[p].call
  /\ u.k[c].proc = "stop" /\ u.k[c].event = "SIGSTOP" /\ u.k[c].forker = p
  /\ u.k[c].call = s.k[c].call
  /\ \A q \in Pids \ {p, c} : u.k[q] = s.k[q]

LEMMA ForksRight ==
  ASSUME NEW s, NEW u, NEW m, Right(s, Nobody, Nobody, m),
         NEW p \in Pids, NEW c \in Pids, Forks(s, u, p, c)
  PROVE  /\ Right(u, Nobody, Nobody, m)
         /\ \A q \in Pids : Ended(u, q) <=> Ended(s, q)
<1>1. /\ Tracers(s) /\ Listed(s) /\ Stops(s) /\ Named(s)
      /\ Births(s, Nobody) /\ Woken(s, m) /\ Pending(s, Nobody)
      /\ Counted(s, Nobody) /\ s \in States
  BY DEF Right, Sound
<1>2. u \in States /\ u.t = s.t /\ c # p
  BY DEF Forks
<1>3. /\ \A q \in Pids : u.k[q].call = s.k[q].call
      /\ \A q \in Pids \ {p, c} :
           /\ u.k[q].proc = s.k[q].proc /\ u.k[q].event = s.k[q].event
           /\ u.k[q].child = s.k[q].child
      /\ \A q \in Pids \ {c} : u.k[q].forker = s.k[q].forker
      /\ s.k[p].proc = "run" /\ s.k[c].proc = "none"
      /\ u.k[p].proc = "stop" /\ u.k[p].event = "FORK" /\ u.k[p].child = c
      /\ u.k[c].proc = "stop" /\ u.k[c].event = "SIGSTOP" /\ u.k[c].forker = p
  BY DEF Forks
<1>4. \A q \in Pids : Ended(u, q) <=> Ended(s, q)
  BY <1>3 DEF Ended
<1>5. Tracers(u) /\ Pending(u, Nobody)
  BY <1>1, <1>2 DEF Tracers, Pending
<1>6. Listed(u)
  BY <1>1, <1>2, <1>4 DEF Listed
<1>7. s.t[c].list = "none" /\ ~s.t[c].exe /\ s.k[c].forker = Nobody /\ s.t[p].exe
  BY <1>1, <1>3 DEF Stops, Listed
<1>8. Stops(u)
  <2>1. ASSUME NEW q \in Pids
        PROVE  /\ u.k[q].proc \in {"run", "wait"} => u.t[q].exe
               /\ u.k[q].proc = "none" => u.t[q].list = "none" /\ u.k[q].forker = Nobody
    BY <1>1, <1>2, <1>3 DEF Stops
  <2>2. ASSUME NEW q \in Pids \ {p, c}, Halted(u, q)
        PROVE  /\ u.k[q].event \in {"SIGSTOP", "signal", "FORK", "enter", "exit"}
               /\ u.k[q].event # "SIGSTOP" => u.t[q].exe
               /\ u.k[q].event = "FORK" =>
                    u.k[q].child \in Pids \ {q} /\ u.k[u.k[q].child].forker = q
    BY <1>1, <1>2, <1>3, <1>7, <2>2, TraceesAssumption DEF Stops, Halted
  <2>3. /\ u.k[p].event = "FORK" /\ u.t[p].exe
        /\ u.k[p].child \in Pids \ {p} /\ u.k[u.k[p].child].forker = p
    BY <1>2, <1>3, <1>7
  <2> QED
    BY <1>3, <2>1, <2>2, <2>3 DEF Stops
<1>9. Named(u)
  BY <1>1, <1>2, <1>3, <1>4 DEF Named, Missing
<1>10. Births(u, Nobody)
  <2>1. \A q \in Pids \ {p} :
          Forking(u, Nobody, q) <=> Forking(s, Nobody, q) /\ u.k[q].child = s.k[q].child
    BY <1>3, TraceesAssumption DEF Forking
  <2>2. Forking(u, Nobody, p) /\ ~Forking(s, Nobody, p)
    BY <1>3, TraceesAssumption DEF Forking
  <2>3. ASSUME NEW q \in Pids, Forking(u, Nobody, q)
        PROVE  ~u.t[u.k[q].child].exe /\ u.t[u.k[q].child].list # "zombie"
    BY <1>1, <1>2, <1>3, <1>7, <2>1, <2>3 DEF Births
  <2>4. ASSUME NEW q \in Pids, NEW d \in Pids, u.k[d].forker = q
        PROVE  \/ u.t[d].exe \/ Missing(u, d)
               \/ Forking(u, Nobody, q) /\ u.k[q].child = d
               \/ u.k[q].proc = "dead" \/ Ended(u, q)
    <3>1. CASE d = c
      BY <1>3, <2>2, <2>4, <3>1
    <3>2. CASE d # c
      <4>1. s.k[d].forker = q
        BY <1>3, <2>4, <3>2
      <4>2. \/ s.t[d].exe \/ Missing(s, d)
            \/ Forking(s, Nobody, q) /\ s.k[q].child = d
            \/ s.k[q].proc = "dead" \/ Ended(s, q)
        BY <1>1, <4>1 DEF Births
      <4>3. Forking(s, Nobody, q) => Forking(u, Nobody, q) /\ u.k[q].child = s.k[q].child
        BY <1>3, <2>2, TraceesAssumption DEF Forking
      <4>4. s.k[q].proc = "dead" => u.k[q].proc = "dead"
        BY <1>3
      <4> QED
        BY <1>2, <1>4, <4>2, <4>3, <4>4 DEF Missing
    <3> QED
      BY <3>1, <3>2
  <2> QED
    BY <2>3, <2>4 DEF Births
<1>11. Woken(u, m)
  <2>1. m = "calm" => \A r \in Pids : u.t[r].waitPid # Nobody => u.k[r].proc = "held"
    BY <1>1, <1>2, <1>3 DEF Woken
  <2>2. m = "over" => \A q \in Pids : u.k[q].proc \in Living => ~u.t[q].exe
    BY <1>1, <1>2, <1>3, <1>7 DEF Woken, Living
  <2> QED
    BY <2>1, <2>2 DEF Woken
<1>12. Counted(u, Nobody)
  BY <1>1, <1>2, CountedSame
<1> QED
  BY <1>2, <1>4, <1>5, <1>6, <1>8, <1>9, <1>10, <1>11, <1>12 DEF Right, Sound

LEMMA SetEvent ==
  ASSUME NEW x \in Process, NEW e \in Events
  PROVE  LET y == [x EXCEPT !.proc = "stop", !.event = e]
         IN  /\ y \in Process
             /\ y.proc = "stop" /\ y.event = e
             /\ y.forker = x.forker /\ y.call = x.call
<1> "stop" \in Living
  BY DEF Living
<1> QED
  BY Zenon DEF Process

LEMMA SetSignalled ==
  ASSUME NEW x \in Process, NEW e \in Events, NEW v \in BOOLEAN
  PROVE  LET y == [x EXCEPT !.proc = "stop", !.event = e, !.sigstop = v]
         IN  /\ y \in Process
             /\ y.proc = "stop" /\ y.event = e
             /\ y.forker = x.forker /\ y.call = x.call
<1> "stop" \in Living
  BY DEF Living
<1> QED
  BY Zenon DEF Process

LEMMA SetCall ==
  ASSUME NEW x \in Process, NEW c \in Calls
  PROVE  LET y == [x EXCEPT !.proc = "stop", !.event = "enter", !.call = c, !.void = FALSE]
         IN  /\ y \in Process
             /\ y.proc = "stop" /\ y.event = "enter"
             /\ y.forker = x.forker /\ y.call = c
<1> "stop" \in Living /\ "enter" \in Events
  BY DEF Living, Events
<1> QED
  BY Zenon DEF Process

LEMMA SetChild ==
  ASSUME NEW x \in Process, NEW c \in Pids
  PROVE  LET y == [x EXCEPT !.proc = "stop", !.event = "FORK", !.child = c]
         IN  /\ y \in Process
             /\ y.proc = "stop" /\ y.event = "FORK"
             /\ y.forker = x.forker /\ y.call = x.call /\ y.child = c
<1> "stop" \in Living /\ "FORK" \in Events
  BY DEF Living, Events
<1> QED
  BY Zenon DEF Process

LEMMA SetForker ==
  ASSUME NEW x \in Process, NEW q \in Pids
  PROVE  LET y == [x EXCEPT !.proc = "stop", !.event = "SIGSTOP", !.forker = q]
         IN  /\ y \in Process
             /\ y.proc = "stop" /\ y.event = "SIGSTOP"
             /\ y.forker = q /\ y.call = x.call
<1> "stop" \in Living /\ "SIGSTOP" \in Events
  BY DEF Living, Events
<1> QED
  BY Zenon DEF Process

LEMMA SetKnown ==
  ASSUME NEW x \in Tracee
  PROVE  LET y == [x EXCEPT !.list = "tracees", !.exe = TRUE]
         IN  /\ y \in Tracee
             /\ y.list = "tracees" /\ y.exe /\ y.parent = x.parent
             /\ y.ptracer = x.ptracer /\ y.ptracees = x.ptracees /\ y.terminated = x.terminated
             /\ y.forProot = x.forProot /\ y.waitPid = x.waitPid
  BY Zenon DEF Tracee

LEMMA OneProcess ==
  ASSUME Types, NEW p \in Pids, NEW y \in Process
  PROVE  LET f == [k EXCEPT ![p] = y]
         IN  f \in [Pids -> Process] /\ \A q \in Pids : f[q] = IF q = p THEN y ELSE k[q]
BY DEF Types

LEMMA GuestInv ==
  ASSUME IInv, Types', t' = t, proot' = proot, kills' = kills \/ kills' > 0,
         proot = "alive" =>
           \E m \in Modes : /\ Right(State, Nobody, Nobody, m)
                            /\ \/ Acts(State, State', m)
                               \/ \E p, c \in Pids : Forks(State, State', p, c)
                            /\ m = IF Mode = "over" THEN "over"
                                   ELSE IF kills' = 0 THEN "calm" ELSE "killed"
  PROVE  IInv'
<1>1. ASSUME proot = "alive"
      PROVE  Right(State', Nobody, Nobody, Mode')
  <2>1. PICK m \in Modes : /\ Right(State, Nobody, Nobody, m)
                           /\ \/ Acts(State, State', m)
                              \/ \E p, c \in Pids : Forks(State, State', p, c)
                           /\ m = IF Mode = "over" THEN "over"
                                  ELSE IF kills' = 0 THEN "calm" ELSE "killed"
    BY <1>1
  <2>2. /\ Right(State', Nobody, Nobody, m)
        /\ \A q \in Pids : Ended(State', q) <=> Ended(State, q)
    BY <2>1, ActsRight, ForksRight
  <2>3. Ended(State', Main) <=> Ended(State, Main)
    BY <2>2, TraceesAssumption
  <2>4. Mode' = m
    <3>1. Mode = "over" <=> KillOnExit /\ Ended(State, Main)
      BY DEF Mode
    <3>2. Mode' = IF KillOnExit /\ Ended(State', Main) THEN "over"
                  ELSE IF kills' = 0 THEN "calm" ELSE "killed"
      BY DEF Mode
    <3> QED
      BY <2>1, <2>3, <3>1, <3>2
  <2> QED
    BY <2>2, <2>4
<1>2. proot' = "aborted" => kills' > 0
  BY DEF IInv
<1> QED
  BY <1>1, <1>2 DEF IInv

(* The mode does not change unless somebody kills a process.                *)
LEMMA SameMode ==
  ASSUME IInv, Types', t' = t, proot' = proot, kills' = kills,
         proot = "alive" => \/ Acts(State, State', Mode)
                            \/ \E p, c \in Pids : Forks(State, State', p, c)
  PROVE  IInv'
<1>1. Mode = IF Mode = "over" THEN "over" ELSE IF kills' = 0 THEN "calm" ELSE "killed"
  BY DEF Mode
<1>2. proot = "alive" => Right(State, Nobody, Nobody, Mode)
  BY DEF IInv
<1> QED
  BY <1>1, <1>2, ModeType, GuestInv

LEMMA ForkInv ==
  ASSUME IInv, NEW p \in Pids, Fork(p)
  PROVE  IInv'
<1>1. PICK c \in Pids :
        /\ Free(p)
        /\ k[c].proc = "none"
        /\ k' = [k EXCEPT ![p].proc = "stop", ![p].event = "FORK", ![p].child = c,
                          ![c].proc = "stop", ![c].event = "SIGSTOP", ![c].forker = p]
  BY DEF Fork
<1> DEFINE y == [k[p] EXCEPT !.proc = "stop", !.event = "FORK", !.child = c]
           z == [k[c] EXCEPT !.proc = "stop", !.event = "SIGSTOP", !.forker = p]
<1>2. /\ Types /\ k[p].proc = "run" /\ c # p
      /\ t' = t /\ proot' = proot /\ kills' = kills
  BY <1>1 DEF IInv, Fork, Free
<1>3. k' = [k EXCEPT ![p] = y, ![c] = z]
  BY <1>1, <1>2 DEF Types, Process
<1>4. k[p] \in Process /\ k[c] \in Process
  BY <1>2 DEF Types
<1>6. /\ y \in Process /\ y.proc = "stop" /\ y.event = "FORK" /\ y.child = c
      /\ y.forker = k[p].forker /\ y.call = k[p].call
  BY <1>4, SetChild
<1>7. /\ z \in Process /\ z.proc = "stop" /\ z.event = "SIGSTOP" /\ z.forker = p
      /\ z.call = k[c].call
  BY <1>4, SetForker
<1> HIDE DEF y, z
<1>8. /\ k' \in [Pids -> Process]
      /\ \A q \in Pids : k'[q] = IF q = c THEN z ELSE IF q = p THEN y ELSE k[q]
  BY <1>2, <1>3, <1>6, <1>7 DEF Types
<1>9. Types'
  BY <1>2, <1>8 DEF Types
<1>10. Forks(State, State', p, c)
  <2>1. State.t = t /\ State.k = k /\ State' \in States /\ State'.t = t' /\ State'.k = k'
    BY <1>2, <1>9, StateFacts, NextState
  <2> QED
    BY <1>1, <1>2, <1>6, <1>7, <1>8, <2>1 DEF Forks
<1> QED
  BY <1>2, <1>9, <1>10, SameMode

(* What a step of one process has to show.                                  *)
LEMMA OneActs ==
  ASSUME IInv, NEW p \in Pids, NEW y \in Process, NEW m,
         k' = [k EXCEPT ![p] = y], t' = t, proot' = proot, kills' \in 0 .. MaxKills,
         y.forker = k[p].forker,
         y.call.pid = k[p].call.pid
           \/ \A c \in Pids : y.call.pid = c => t[c].exe \/ Missing(State, c),
         \/ /\ k[p].proc \in {"run", "wait"} /\ y.proc = "stop"
            /\ y.event \in {"SIGSTOP", "signal", "enter", "exit"}
         \/ k[p].proc \in Living /\ y.proc = "dead" /\ (m = "calm" => k[p].proc # "held")
  PROVE  Types' /\ Acts(State, State', m)
<1>1. Types
  BY DEF IInv
<1>2. /\ k' \in [Pids -> Process]
      /\ \A q \in Pids : k'[q] = IF q = p THEN y ELSE k[q]
  BY <1>1, OneProcess
<1>3. Types'
  BY <1>1, <1>2 DEF Types
<1>4. State.t = t /\ State.k = k /\ State' \in States /\ State'.t = t' /\ State'.k = k'
  BY <1>1, <1>3, StateFacts, NextState
<1> QED
  BY <1>2, <1>3, <1>4 DEF Acts

LEMMA ExitInv ==
  ASSUME IInv, NEW p \in Pids, Exit(p)
  PROVE  IInv'
<1> DEFINE y == [k[p] EXCEPT !.proc = "dead"]
<1>1. k[p] \in Process
  BY DEF IInv, Types
<1>2. /\ y \in Process
      /\ y.proc = "dead" /\ y.forker = k[p].forker /\ y.call = k[p].call
  BY <1>1, SetProc
<1>3. /\ k' = [k EXCEPT ![p] = y] /\ k[p].proc = "run"
      /\ t' = t /\ proot' = proot /\ kills' = kills /\ kills \in 0 .. MaxKills
  BY DEF Exit, Free, IInv, Types
<1> HIDE DEF y
<1>4. k[p].proc \in Living /\ k[p].proc # "held"
  BY <1>3 DEF Living
<1>5. Types' /\ Acts(State, State', Mode)
  BY <1>2, <1>3, <1>4, OneActs
<1> QED
  BY <1>3, <1>5, SameMode

LEMMA RaiseInv ==
  ASSUME IInv, NEW p \in Pids, Raise(p)
  PROVE  IInv'
<1> DEFINE y == [k[p] EXCEPT !.proc = "stop", !.event = "signal"]
<1>1. k[p] \in Process
  BY DEF IInv, Types
<1>2. "signal" \in Events
  BY DEF Events
<1>3. /\ y \in Process
      /\ y.proc = "stop" /\ y.event = "signal" /\ y.forker = k[p].forker /\ y.call = k[p].call
  BY <1>1, <1>2, SetEvent
<1>4. /\ k' = [k EXCEPT ![p] = y] /\ k[p].proc = "run"
      /\ t' = t /\ proot' = proot /\ kills' = kills /\ kills \in 0 .. MaxKills
  BY DEF Raise, Free, IInv, Types
<1> HIDE DEF y
<1>5. Types' /\ Acts(State, State', Mode)
  BY <1>3, <1>4, OneActs
<1> QED
  BY <1>4, <1>5, SameMode

LEMMA StopSignalInv ==
  ASSUME IInv, NEW p \in Pids, StopSignal(p)
  PROVE  IInv'
<1> DEFINE y == [k[p] EXCEPT !.proc = "stop", !.event = "SIGSTOP", !.sigstop = FALSE]
<1>1. k[p] \in Process
  BY DEF IInv, Types
<1>2. "SIGSTOP" \in Events
  BY DEF Events
<1>3. /\ y \in Process
      /\ y.proc = "stop" /\ y.event = "SIGSTOP" /\ y.forker = k[p].forker /\ y.call = k[p].call
  BY <1>1, <1>2, SetSignalled
<1>4. /\ k' = [k EXCEPT ![p] = y] /\ k[p].proc = "run"
      /\ t' = t /\ proot' = proot /\ kills' = kills /\ kills \in 0 .. MaxKills
  BY DEF StopSignal, IInv, Types
<1> HIDE DEF y
<1>5. Types' /\ Acts(State, State', Mode)
  BY <1>3, <1>4, OneActs
<1> QED
  BY <1>4, <1>5, SameMode

LEMMA KillInv ==
  ASSUME IInv, NEW p \in Pids, Kill(p)
  PROVE  IInv'
<1> DEFINE y == [k[p] EXCEPT !.proc = "dead", !.event = "none", !.child = Nobody]
           m == IF Mode = "over" THEN "over" ELSE "killed"
<1>1. k[p] \in Process
  BY DEF IInv, Types
<1>2. y \in Process /\ y.proc = "dead" /\ y.forker = k[p].forker /\ y.call = k[p].call
  BY <1>1, KilledFacts
<1>3. /\ k' = [k EXCEPT ![p] = y] /\ k[p].proc \in Living
      /\ t' = t /\ proot' = proot
  BY DEF Kill, IInv, Types
<1>4. kills' \in 0 .. MaxKills /\ kills' > 0
  BY TraceesAssumption DEF Kill, IInv, Types
<1> HIDE DEF y
<1>5. m # "calm" /\ m \in Modes
  BY DEF Modes
<1>6. m = IF Mode = "over" THEN "over" ELSE IF kills' = 0 THEN "calm" ELSE "killed"
  BY <1>4
<1>7. proot = "alive" => Right(State, Nobody, Nobody, m)
  BY <1>5, ModeType DEF IInv, Right, Sound, Woken, Modes
<1> HIDE DEF m
<1>8. Types' /\ Acts(State, State', m)
  BY <1>2, <1>3, <1>4, <1>5, OneActs
<1> QED
  BY <1>3, <1>4, <1>5, <1>6, <1>7, <1>8, GuestInv

(* The processes a guest may name are handled by PRoot, or gone.             *)
LEMMA CallInv ==
  ASSUME IInv, NEW p \in Pids, NEW call \in Menu[p], Call(p, call)
  PROVE  IInv'
<1> DEFINE y == [k[p] EXCEPT !.proc = "stop", !.event = "enter", !.call = call, !.void = FALSE]
<1>1. k[p] \in Process
  BY DEF IInv, Types
<1>2. call \in Calls
  BY TraceesAssumption
<1>3. /\ y \in Process
      /\ y.proc = "stop" /\ y.event = "enter" /\ y.forker = k[p].forker /\ y.call = call
  BY <1>1, <1>2, SetCall
<1>4. /\ k' = [k EXCEPT ![p] = y] /\ k[p].proc = "run"
      /\ t' = t /\ proot' = proot /\ kills' = kills /\ kills \in 0 .. MaxKills
  BY DEF Call, Free, IInv, Types
<1>5. call.pid \in Names(p) \cup {Nobody, Any}
  BY DEF Call
<1> HIDE DEF y
<1>6. CASE proot = "alive"
  <2>1. /\ Births(State, Nobody) /\ Tracers(State) /\ Listed(State)
        /\ State.t = t /\ State.k = k
    BY <1>6, StateFacts DEF IInv, Right, Sound
  <2>2. ASSUME NEW c \in Pids, y.call.pid = c
        PROVE  t[c].exe \/ Missing(State, c)
    <3>1. c \in Names(p)
      BY <1>3, <1>5, <2>2, TraceesAssumption
    <3>2. CASE k[c].forker = p
      BY <1>4, <2>1, <3>2 DEF Births, Forking, Ended
    <3>3. CASE t[c].ptracer = p
      <4>1. t[c].exe \/ t[c].list = "zombie"
        BY <2>1, <3>3, TraceesAssumption DEF Tracers
      <4> QED
        BY <2>1, <4>1 DEF Listed, Missing
    <3> QED
      BY <3>1, <3>2, <3>3 DEF Names
  <2>3. Types' /\ Acts(State, State', Mode)
    BY <1>3, <1>4, <2>2, OneActs
  <2> QED
    BY <1>4, <2>3, SameMode
<1>7. CASE proot # "alive"
  <2>1. /\ k' \in [Pids -> Process]
        /\ Types
    BY <1>3, <1>4, OneProcess DEF IInv
  <2>2. Types'
    BY <1>4, <2>1 DEF Types
  <2> QED
    BY <1>4, <1>7, <2>2, SameMode
<1> QED
  BY <1>6, <1>7

LEMMA WaitEndsInv ==
  ASSUME IInv, NEW p \in Pids, WaitEnds(p)
  PROVE  IInv'
<1> DEFINE y == [k[p] EXCEPT !.proc = "stop", !.event = "exit"]
           z(c) == [k[c] EXCEPT !.proc = "gone"]
<1>1. /\ Types /\ k[p] \in Process /\ \A c \in Pids : k[c] \in Process
  BY DEF IInv, Types
<1>2. "exit" \in Events
  BY DEF Events
<1>3. /\ y \in Process
      /\ y.proc = "stop" /\ y.event = "exit" /\ y.forker = k[p].forker /\ y.call = k[p].call
  BY <1>1, <1>2, SetEvent
<1>4. \A c \in Pids :
        /\ z(c) \in Process
        /\ z(c).proc = "gone" /\ z(c).event = k[c].event /\ z(c).child = k[c].child
        /\ z(c).forker = k[c].forker /\ z(c).call = k[c].call
  BY <1>1, SetProc
<1>5. k[p].proc = "wait" /\ t' = t /\ proot' = proot /\ kills' = kills /\ kills \in 0 .. MaxKills
  BY DEF WaitEnds, IInv, Types
<1>6. Answered(p) = [k EXCEPT ![p] = y]
  BY <1>1 DEF Answered, Types, Process
<1>7. CASE k' = Answered(p)
  <2>1. k' = [k EXCEPT ![p] = y]
    BY <1>6, <1>7
  <2> HIDE DEF y
  <2>2. Types' /\ Acts(State, State', Mode)
    BY <1>3, <1>5, <2>1, OneActs
  <2> QED
    BY <1>5, <2>2, SameMode
<1>8. CASE \E c \in Pids : k[c].proc = "zombie" /\ k' = [Answered(p) EXCEPT ![c].proc = "gone"]
  <2>1. PICK c \in Pids :
          k[c].proc = "zombie" /\ k' = [Answered(p) EXCEPT ![c].proc = "gone"]
    BY <1>8
  <2>2. c # p
    BY <1>5, <2>1
  <2>3. k' = [k EXCEPT ![p] = y, ![c] = z(c)]
    BY <1>1, <1>6, <2>1, <2>2 DEF Types
  <2> HIDE DEF y, z
  <2>4. /\ k' \in [Pids -> Process]
        /\ \A q \in Pids : k'[q] = IF q = c THEN z(c) ELSE IF q = p THEN y ELSE k[q]
    BY <1>1, <1>3, <1>4, <2>2, <2>3 DEF Types
  <2>5. Types'
    BY <1>1, <1>5, <2>4 DEF Types
  <2>6. State.t = t /\ State.k = k /\ State' \in States /\ State'.t = t' /\ State'.k = k'
    BY <1>1, <2>5, StateFacts, NextState
  <2>7. \A q \in Pids :
          /\ k'[q].forker = k[q].forker /\ k'[q].call = k[q].call
          /\ \/ /\ k'[q].proc = k[q].proc
                /\ k'[q].event = k[q].event /\ k'[q].child = k[q].child
             \/ k[q].proc = "wait" /\ k'[q].proc = "stop" /\ k'[q].event = "exit"
             \/ k[q].proc = "zombie" /\ k'[q].proc = "gone"
    BY <1>3, <1>4, <1>5, <2>1, <2>2, <2>4
  <2>8. Acts(State, State', Mode)
    BY <1>5, <2>6, <2>7 DEF Acts
  <2> QED
    BY <1>5, <2>5, <2>8, SameMode
<1> QED
  BY <1>7, <1>8 DEF WaitEnds, Children

LEMMA EndInv ==
  ASSUME IInv, End
  PROVE  IInv'
BY DEF End, IInv, Types

(* Init: PRoot knows the command it was started with, and nobody else.       *)
LEMMA InitInv ==
  ASSUME Init
  PROVE  IInv
<1> DEFINE x == [Unknown EXCEPT !.list = "tracees", !.exe = TRUE]
           y == [Unborn EXCEPT !.proc = "stop", !.event = "SIGSTOP"]
<1>1. /\ x \in Tracee
      /\ x.list = "tracees" /\ x.exe /\ x.parent = Nobody
      /\ x.ptracer = Nobody /\ x.ptracees = 0 /\ ~x.terminated
      /\ x.forProot = "none" /\ x.waitPid = Nobody
  BY UnknownType, SetKnown
<1>2. /\ Unborn \in Process
      /\ Unborn.proc = "none" /\ Unborn.event = "none" /\ Unborn.forker = Nobody
      /\ Unborn.call = NoCall
  BY DEF Unborn, Process, Events, NoCall, Calls
<1>3. /\ y \in Process
      /\ y.proc = "stop" /\ y.event = "SIGSTOP" /\ y.forker = Nobody /\ y.call = NoCall
  <2>1. "SIGSTOP" \in Events
    BY DEF Events
  <2> QED
    BY <1>2, <2>1, SetEvent
<1>4. /\ t = [p \in Pids |-> IF p # Main THEN Unknown ELSE x]
      /\ k = [p \in Pids |-> IF p # Main THEN Unborn ELSE y]
      /\ proot = "alive" /\ kills = 0
  BY DEF Init
<1> HIDE DEF x, y
<1>5. Types
  BY <1>1, <1>2, <1>3, <1>4, UnknownType, TraceesAssumption DEF Types
<1>6. State \in States /\ State.t = t /\ State.k = k
  BY <1>5, StateFacts
<1>7. ASSUME NEW q \in Pids
      PROVE  /\ t[q].ptracer = Nobody /\ t[q].parent = Nobody /\ t[q].ptracees = 0
             /\ ~t[q].terminated /\ t[q].forProot = "none" /\ t[q].waitPid = Nobody
             /\ t[q].list = IF q = Main THEN "tracees" ELSE "none"
             /\ t[q].exe <=> q = Main
             /\ k[q].proc = IF q = Main THEN "stop" ELSE "none"
             /\ k[q].event = IF q = Main THEN "SIGSTOP" ELSE "none"
             /\ k[q].forker = Nobody /\ k[q].call.pid = Nobody
  BY <1>1, <1>2, <1>3, <1>4, UnknownType DEF NoCall
<1>8. Tracers(State) /\ Listed(State) /\ Pending(State, Nobody)
  BY <1>6, <1>7 DEF Tracers, Listed, Pending, Kept
<1>9. Stops(State)
  BY <1>6, <1>7 DEF Stops, Halted
<1>10. Named(State) /\ Births(State, Nobody)
  BY <1>6, <1>7, TraceesAssumption DEF Named, Births, Forking
<1>11. Mode = "calm"
  BY <1>4, <1>6, <1>7, TraceesAssumption DEF Mode, Ended
<1>12. Woken(State, Mode)
  BY <1>6, <1>7, <1>11 DEF Woken
<1>13. Counted(State, Nobody)
  <2>1. \A r \in Pids : Ptracees(State, r) = {}
    BY <1>6, <1>7, TraceesAssumption DEF Ptracees
  <2>2. Cardinality({}) = 0
    BY FS_EmptySet
  <2> QED
    BY <1>6, <1>7, <2>1, <2>2 DEF Counted
<1> QED
  BY <1>4, <1>5, <1>6, <1>8, <1>9, <1>10, <1>12, <1>13 DEF IInv, Right, Sound

-----------------------------------------------------------------------------
(* The theorems.                                                            *)

LEMMA NextInv ==
  ASSUME IInv, [Next]_vars
  PROVE  IInv'
<1>1. CASE \E p \in Pids : Fork(p) \/ Exit(p) \/ Raise(p) \/ \E call \in Menu[p] : Call(p, call)
  BY <1>1, ForkInv, ExitInv, RaiseInv, CallInv
<1>2. CASE \E p \in Pids : WaitEnds(p) \/ StopSignal(p)
  BY <1>2, WaitEndsInv, StopSignalInv
<1>3. CASE \E p \in Pids : Kill(p) \/ Round(p)
  BY <1>3, KillInv, RoundInv
<1>4. CASE End
  BY <1>4, EndInv
<1>5. CASE UNCHANGED vars
  <2>1. State' = State /\ Mode' = Mode /\ Types' = Types
    BY <1>5 DEF vars, State, Mode, Ended, Types
  <2> QED
    BY <1>5, <2>1 DEF vars, IInv
<1> QED
  BY <1>1, <1>2, <1>3, <1>4, <1>5 DEF Next, GuestStep, Kernel

LEMMA Invariant == Spec => []IInv
<1>1. Init => IInv
  BY InitInv
<1>2. IInv /\ [Next]_vars => IInv'
  BY NextInv
<1> QED
  BY <1>1, <1>2, PTL DEF Spec

(* What PRoot and the kernel know of a process always has its type: above    *)
(* all, the count of those a guest traces is never negative and never more   *)
(* than there are processes, and each pending event is one of the events     *)
(* (tracee/tracee.h, ptrace/ptrace.c:108, tracee/event.c:320).               *)
THEOREM TypeCorrect == Spec => []TypeOK
<1>1. IInv => TypeOK
  BY DEF IInv, Types, TypeOK, Tracee, Process
<1> QED
  BY <1>1, Invariant, PTL

(* A guest that PRoot has not removed counts exactly the guests it traces,   *)
(* whatever the order in which they attach, end, and are told of, and no     *)
(* assertion of PRoot fails unless somebody kills a guest                    *)
(* (ptrace/ptrace.c:108, tracee/tracee.c:95-135, tracee/tracee.c:413).        *)
THEOREM CountCorrect == Spec => []TraceesCounted
<1>1. IInv => TraceesCounted
  <2>1. ASSUME IInv
        PROVE  TraceesCounted
    <3>1. proot = "alive" => Counted(State, Nobody) /\ State.t = t
      BY <2>1, StateFacts DEF IInv, Right
    <3> QED
      BY <2>1, <3>1, TraceesAssumption DEF IInv, TraceesCounted, Counted
  <2> QED
    BY <2>1
<1> QED
  BY <1>1, Invariant, PTL
=============================================================================
