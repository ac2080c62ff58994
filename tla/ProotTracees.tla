---------------------------- MODULE ProotTracees ----------------------------
(***************************************************************************)
(* The processes PRoot traces, its event loop, and the ptrace() it emulates *)
(* for a guest that traces another (proot/src/tracee, proot/src/ptrace).    *)
(*                                                                         *)
(* PRoot waits for a stop of any process, handles it and restarts the       *)
(* process, unless it is to be kept stopped: a new process is, until the    *)
(* event of the call that created it is handled; so is a guest that waits   *)
(* for those it traces, and one whose own tracer must be told first.        *)
(*                                                                         *)
(* One step of PRoot is one round of the loop: the kernel and the guests    *)
(* move between the rounds.  A process that is killed during a round is     *)
(* like one killed just after it.  External: the kernel, the guests.  Calls *)
(* that have nothing to do with ptrace() are one call, "other".             *)
(***************************************************************************)
EXTENDS Naturals, FiniteSets

CONSTANTS
  Pids,        \* the processes; numbers are not used again
  Main,        \* the command PRoot was started with
  KillOnExit,  \* the option --kill-on-exit
  Menu,        \* the calls each guest makes: [Pids -> SUBSET Calls]
  MaxKills,    \* bound: processes killed from outside
  Nobody,
  Any          \* the argument -1 of wait()

VARIABLES
  t,      \* what PRoot knows of each process: a Tracee
  k,      \* what the kernel knows of it
  proot,  \* PRoot itself: alive, ended, aborted (an assertion) or crashed
  kills   \* number of processes killed from outside

vars == <<t, k, proot, kills>>

-----------------------------------------------------------------------------
(* The Tracee.  "status" is the stage of the call, as_ptracee is the part   *)
(* with ptracer .. reported (the last is a ghost), as_ptracer the last one. *)

Unknown ==
  [list |-> "none", exe |-> FALSE, sigstop |-> "IGNORED", running |-> FALSE,
   terminated |-> FALSE, status |-> "enter", parent |-> Nobody, chain |-> FALSE,
   ptracer |-> Nobody, options |-> FALSE, started |-> FALSE, ignoreCalls |-> FALSE,
   forProot |-> "none", forPtracer |-> "none", reported |-> FALSE,
   ptracees |-> 0, waitsIn |-> "NOWHERE", waitPid |-> Nobody]

Requests == {"cont", "syscall", "detach", "setoptions", "attach"}
Calls ==
  [what : {"none", "other", "traceme"}, pid : {Nobody}, hang : {TRUE}]
  \cup [what : Requests, pid : Pids, hang : {TRUE}]
  \cup [what : {"wait"}, pid : Pids \cup {Any}, hang : BOOLEAN]
NoCall == [what |-> "none", pid |-> Nobody, hang |-> TRUE]

ASSUME TraceesAssumption ==
  /\ IsFiniteSet(Pids)
  /\ Main \in Pids
  /\ KillOnExit \in BOOLEAN
  /\ Menu \in [Pids -> SUBSET Calls]
  /\ MaxKills \in Nat
  /\ Nobody \notin Pids
  /\ Any \notin Pids \cup {Nobody}

Events == {"none", "SIGSTOP", "signal", "FORK", "enter", "exit", "EXITED"}

(* proc: none, run, wait (in the kernel), stop (an event PRoot has not seen *)
(* yet), held (one it has), dead (an end it has not seen), zombie, gone.    *)
Unborn ==
  [proc |-> "none", event |-> "none", child |-> Nobody, forker |-> Nobody,
   call |-> NoCall, void |-> FALSE, sigstop |-> FALSE]

Living == {"run", "wait", "stop", "held"}

(* The state a handler works on: what PRoot knows, the kernel, whether the  *)
(* process is to be kept stopped, and PRoot itself.                         *)
State == [t |-> t, k |-> k, keep |-> FALSE, proot |-> proot]

Asserted(s, condition) == IF condition THEN s ELSE [s EXCEPT !.proot = "aborted"]

Waiting(s, p) == s.t[p].waitPid # Nobody

Ptracees(s, p) == {e \in Pids : s.t[e].ptracer = p}

(* restart_tracee.  A process that has died is not restarted.               *)
Resumed(kp, chain) ==
  IF kp.event = "enter"
    THEN IF kp.call.what = "wait" /\ ~kp.void
           THEN [kp EXCEPT !.proc = "wait", !.event = "none"]
           ELSE [kp EXCEPT !.proc = "stop", !.event = "exit"]
  ELSE IF kp.event = "exit" /\ chain
    THEN [kp EXCEPT !.proc = "stop", !.event = "enter", !.void = FALSE]
  ELSE [kp EXCEPT !.proc = "run", !.event = "none", !.child = Nobody,
                  !.call = IF kp.event = "exit" THEN NoCall ELSE kp.call]

CanRestart(s, p) == ~Waiting(s, p) /\ s.k[p].proc = "held"

restart_tracee(s, p) ==
  IF CanRestart(s, p)
    THEN [s EXCEPT !.t[p] = [s.t[p] EXCEPT !.running = TRUE, !.reported = FALSE],
                   !.k[p] = Resumed(s.k[p], s.t[p].chain)]
    ELSE s

kill_all_tracees(s) ==
  [s EXCEPT !.k = [p \in Pids |->
     IF s.t[p].list = "tracees" /\ s.k[p].proc \in Living
       THEN [s.k[p] EXCEPT !.proc = "dead", !.event = "none", !.child = Nobody]
       ELSE s.k[p]]]

-----------------------------------------------------------------------------
(* Attaching a guest to the guest that traces it (ptrace/ptrace.c).         *)

NotTraced(tp) ==
  [tp EXCEPT !.ptracer = Nobody, !.options = FALSE, !.started = FALSE, !.ignoreCalls = FALSE,
             !.forProot = "none", !.forPtracer = "none", !.reported = FALSE]

attach_to_ptracer(s, e, r) ==
  [s EXCEPT !.t[e] = [NotTraced(s.t[e]) EXCEPT !.ptracer = r],
            !.t[r].ptracees = s.t[r].ptracees + 1]

(* Mutant: the tracer still counts the guest.                               *)
detach_from_ptracer_Counted(s, e) == [s EXCEPT !.t[e].ptracer = Nobody]

detach_from_ptracer(s, e) ==
  LET r == s.t[e].ptracer
  IN  [Asserted(s, s.t[r].ptracees > 0) EXCEPT
         !.t[r].ptracees = IF s.t[r].ptracees = 0 THEN 0 ELSE s.t[r].ptracees - 1,
         !.t[e].ptracer = Nobody]

-----------------------------------------------------------------------------
(* wait() of a guest that traces others (ptrace/wait.c).                    *)

(* The guests it traces whose event it has not been told.                   *)
Told(s, r, pid) ==
  {e \in Ptracees(s, r) :
     /\ pid \in {e, Any}
     /\ \/ s.t[e].list = "zombie"
        \/ s.t[e].list = "tracees" /\ ~s.t[e].running /\ s.t[e].forPtracer # "none"}

translate_wait_enter(s, r) ==
  LET pid == s.k[r].call.pid
      mine == pid = Any \/ (s.t[pid].list = "tracees" /\ s.t[pid].ptracer = r)
  IN  IF s.t[r].ptracees = 0 \/ ~mine
        THEN [s EXCEPT !.t[r].waitsIn = "KERNEL"]
        ELSE [s EXCEPT !.t[r].waitsIn = "PROOT", !.k[r].void = TRUE]

(* The end of a child is told by the kernel too: it is hidden, and the call *)
(* made again in the kernel.                                                *)
update_wait_status(s, r, e) ==
  LET gone == s.t[e].list = "zombie"
      d == detach_from_ptracer(s, e)
  IN  IF s.t[e].parent = r /\ s.t[e].forPtracer = "EXITED"
        THEN [d EXCEPT !.t[r].chain = TRUE, !.t[e] = IF gone THEN Unknown ELSE d.t[e]]
      ELSE IF gone THEN [d EXCEPT !.t[e] = Unknown]
      ELSE [s EXCEPT !.t[e] = [s.t[e] EXCEPT !.forPtracer = "none", !.reported = TRUE]]

translate_wait_exit(s, r) ==
  LET c == s.k[r].call
      told == Told(s, r, c.pid)
      zombies == {e \in told : s.t[e].list = "zombie"}
      w == [s EXCEPT !.t[r].waitsIn = "NOWHERE"]
  IN  IF told # {}
        THEN update_wait_status(w, r, CHOOSE e \in told : zombies # {} => e \in zombies)
      ELSE IF s.t[r].ptracees # 0 /\ c.hang THEN [w EXCEPT !.t[r].waitPid = c.pid]
      ELSE w

-----------------------------------------------------------------------------
(* Events (tracee/event.c, tracee/tracee.c, ptrace/wait.c).                 *)

(* The stops that are handled in the same way whoever traces the guest.     *)
terminate_tracee(s, p) ==
  LET e == [s EXCEPT !.t[p].terminated = TRUE]
  IN  IF p = Main /\ KillOnExit THEN kill_all_tracees(e) ELSE e

OnSigstop(s, p) ==
  LET tp == s.t[p]
  IN  [s EXCEPT !.keep = ~tp.exe,
                !.t[p].sigstop = IF ~tp.exe THEN "PENDING"
                                 ELSE IF tp.sigstop = "IGNORED" THEN "ALLOWED" ELSE tp.sigstop]

OnEnter(s, p) ==
  LET e == [s EXCEPT !.t[p].status = "exit"]
      what == s.k[p].call.what
  IN  IF s.t[p].chain THEN e
      ELSE IF what = "wait" THEN translate_wait_enter(e, p)
      ELSE [e EXCEPT !.k[p].void = what \notin {"none", "other"}]

HandleStop(s, p, event) ==
  LET h == [s EXCEPT !.t[p].forProot = "none", !.keep = FALSE]
  IN  CASE event = "SIGSTOP" -> OnSigstop(h, p)
        [] event = "enter"   -> OnEnter(h, p)
        [] event = "EXITED"  -> terminate_tracee(h, p)
        [] event = "signal"  -> h

(* The tracer is told, at once if it waits; it may have died, and then      *)
(* nothing is to wait for it.                                               *)
Notify(s, e, event, keep) ==
  LET r == s.t[e].ptracer
      n == [s EXCEPT !.t[e].forPtracer = event, !.keep = keep]
      u == [update_wait_status(n, r, e) EXCEPT !.t[r].waitPid = Nobody]
  IN  IF s.t[r].waitPid \in {Any, e}
        THEN [restart_tracee(u, r) EXCEPT !.keep = keep /\ CanRestart(u, r)]
        ELSE n

new_child(s, p) ==
  LET c == s.k[p].child
      r == s.t[p].ptracer
      b == [Asserted(s, ~s.t[c].exe /\ s.t[c].parent = Nobody /\ s.t[c].ptracer = Nobody)
              EXCEPT !.t[c] = [s.t[c] EXCEPT !.list = "tracees", !.exe = TRUE, !.parent = p]]
      a == IF r # Nobody /\ s.t[p].options
             THEN [attach_to_ptracer(b, c, r) EXCEPT !.t[c].options = TRUE] ELSE b
      w == [a EXCEPT !.t[c].sigstop = "ALLOWED"]
      n == [Notify([w EXCEPT !.t[c].started = TRUE], c, "SIGSTOP", TRUE)
              EXCEPT !.t[c].forProot = "none"]
  IN  IF a.t[c].sigstop # "PENDING" THEN a
      ELSE IF a.t[c].ptracer = Nobody THEN restart_tracee(w, c)
      ELSE IF n.keep THEN n
      ELSE restart_tracee(n, c)

(* The pending event of a guest that is restarted by its tracer.            *)
Released(s, e) ==
  LET h == HandleStop(s, e, s.t[e].forProot)
  IN  IF s.t[e].forProot # "none" THEN h ELSE [s EXCEPT !.keep = FALSE]

(* Requests of a tracer to a guest that is stopped for it.                  *)
Request(s, r, what, e) ==
  LET q == CASE what = "cont"    -> [s EXCEPT !.t[e].ignoreCalls = TRUE]
             [] what = "syscall" -> [s EXCEPT !.t[e].ignoreCalls = FALSE]
             [] what = "detach"  -> detach_from_ptracer(s, e)
             [] what = "setoptions" -> [s EXCEPT !.t[e].options = TRUE]
      h == Released(q, e)
  IN  IF s.t[e].list # "tracees" \/ s.t[e].ptracer # r \/ s.t[e].running THEN s
      ELSE IF what = "setoptions" THEN q
      ELSE IF what = "detach" /\ h.keep THEN h
      ELSE restart_tracee(h, e)

(* Mutant: a parent that waits in the kernel is left there.                 *)
TraceMe_NoWake(s, e) ==
  IF s.t[e].ptracer # Nobody THEN s
  ELSE IF s.t[e].parent = Nobody THEN [s EXCEPT !.proot = "crashed"]
  ELSE attach_to_ptracer(s, e, s.t[e].parent)

(* TRACEME: a parent that waits in the kernel is made to wait in PRoot.     *)
TraceMe(s, e) ==
  LET r == s.t[e].parent
      a == attach_to_ptracer(s, e, r)
  IN  IF s.t[e].ptracer # Nobody THEN s
      ELSE IF r = Nobody THEN [s EXCEPT !.proot = "crashed"]
      ELSE IF s.t[r].waitsIn = "KERNEL"
        THEN [a EXCEPT !.k[r].sigstop = s.k[r].proc \in Living,
                       !.t[r] = [a.t[r] EXCEPT !.sigstop = "IGNORED", !.waitsIn = "PROOT"]]
        ELSE a

translate_ptrace_exit(s, p) ==
  LET c == s.k[p].call
      target == s.t[c.pid]
  IN  CASE c.what = "traceme" -> TraceMe(s, p)
        [] c.what = "attach" ->
             IF target.list # "tracees" \/ target.ptracer # Nobody \/ c.pid = p THEN s
             ELSE [attach_to_ptracer(s, c.pid, p) EXCEPT
                     !.k[c.pid].sigstop = s.k[c.pid].proc \in Living]
        [] OTHER -> Request(s, p, c.what, c.pid)

OnExit(s, p) ==
  LET x == [s EXCEPT !.t[p].status = "enter"]
      what == s.k[p].call.what
  IN  IF s.t[p].chain THEN [x EXCEPT !.t[p].chain = FALSE]
      ELSE IF what = "wait" /\ s.t[p].waitsIn = "PROOT" THEN translate_wait_exit(x, p)
      ELSE IF what \in Requests \cup {"traceme"} THEN translate_ptrace_exit(x, p)
      ELSE x

handle_tracee_event(s, p, event) ==
  CASE event = "FORK" -> [new_child(s, p) EXCEPT !.t[p].forProot = "none", !.keep = FALSE]
    [] event = "exit" -> [OnExit(s, p) EXCEPT !.t[p].forProot = "none", !.keep = FALSE]
    [] OTHER -> HandleStop(s, p, event)

(* An event of a guest that another traces: PRoot handles some first, and   *)
(* keeps the others until the tracer restarts the guest.                    *)
Expected(te, event) ==
  CASE event \in {"enter", "exit"} -> ~te.ignoreCalls
    [] event = "FORK" -> te.options
    [] OTHER -> TRUE

handle_ptracee_event(s, e, event) ==
  LET te == s.t[e]
      started == te.started \/ event \notin {"enter", "exit"}
      p == [s EXCEPT !.t[e] = [te EXCEPT !.forProot = event, !.started = started], !.keep = FALSE]
      first == event \in {"FORK", "exit"}
      h == IF first THEN handle_tracee_event(p, e, event) ELSE p
  IN  IF ~Expected(te, event) THEN [s EXCEPT !.t[e].forProot = event, !.keep = FALSE]
      ELSE IF ~started THEN p
      ELSE Notify(h, e, event, event # "EXITED")

(* A guest whose tracer has ended: its pending event is handled.            *)
Freed(s, e) ==
  LET f == [s EXCEPT !.t[e].ptracer = Nobody]
      l == Released(f, e)
      h == [l EXCEPT !.t[e] = [NotTraced(l.t[e]) EXCEPT !.reported = s.t[e].reported]]
  IN  IF s.t[e].list = "zombie" THEN [s EXCEPT !.t[e] = Unknown]
      ELSE IF h.keep \/ (s.t[e].forProot = "none" /\ s.t[e].forPtracer = "none") THEN h
      ELSE restart_tracee(h, e)

(* The guests of E are freed one after the other, in any order: freeing one  *)
(* changes nothing that is read to free another.                            *)
AllFreed(s, E) ==
  LET f(q) == IF q \in E THEN Freed(s, q) ELSE s
  IN  [s EXCEPT !.t = [q \in Pids |-> f(q).t[q]], !.k = [q \in Pids |-> f(q).k[q]]]

(* Mutant: the tracer of the guest that ended is not told that it is gone.  *)
remove_tracee_Lost(s, p) == AllFreed([s EXCEPT !.t[p] = Unknown], Ptracees(s, p))

(* A tracee that ended is removed: its children are orphans, the guests it  *)
(* traced are free, and the one that traced it will be told.                *)
remove_tracee(s, p) ==
  LET r == s.t[p].ptracer
      orphans == [s EXCEPT !.t = [q \in Pids |->
                    IF s.t[q].parent = p /\ s.t[q].list = "tracees"
                      THEN [s.t[q] EXCEPT !.parent = Nobody] ELSE s.t[q]]]
      free == AllFreed(orphans, Ptracees(s, p))
      zombie == [Unknown EXCEPT !.list = "zombie", !.parent = free.t[p].parent, !.ptracer = r,
                                !.forPtracer = "EXITED"]
      left == [detach_from_ptracer(free, p) EXCEPT !.t[p] = Unknown]
  IN  IF r = Nobody THEN [free EXCEPT !.t[p] = Unknown]
      ELSE IF free.t[p].forPtracer = "EXITED" THEN [free EXCEPT !.t[p] = zombie]
      ELSE IF left.t[r].ptracees = 0 /\ Waiting(left, r)
        THEN restart_tracee([left EXCEPT !.t[r].waitPid = Nobody], r)
      ELSE left

free_terminated_tracees(s, p) == IF s.t[p].terminated THEN remove_tracee(s, p) ELSE s

-----------------------------------------------------------------------------
Init ==
  /\ t = [p \in Pids |-> IF p # Main THEN Unknown
                         ELSE [Unknown EXCEPT !.list = "tracees", !.exe = TRUE]]
  /\ k = [p \in Pids |-> IF p # Main THEN Unborn
                         ELSE [Unborn EXCEPT !.proc = "stop", !.event = "SIGSTOP"]]
  /\ proot = "alive"
  /\ kills = 0

(* The guests.  They name the processes they created and those whose events *)
(* they were told.                                                          *)
Free(p) == k[p].proc = "run" /\ ~k[p].sigstop

Names(p) == {c \in Pids : k[c].forker = p \/ (t[c].ptracer = p /\ t[c].reported)}

Fork(p) ==
  \E c \in Pids :
    /\ Free(p)
    /\ k[c].proc = "none"
    /\ k' = [k EXCEPT ![p].proc = "stop", ![p].event = "FORK", ![p].child = c,
                      ![c].proc = "stop", ![c].event = "SIGSTOP", ![c].forker = p]
    /\ UNCHANGED <<t, proot, kills>>

Exit(p) ==
  /\ Free(p)
  /\ k' = [k EXCEPT ![p].proc = "dead"]
  /\ UNCHANGED <<t, proot, kills>>

(* A signal, for example the one that starts the tracing after TRACEME.     *)
Raise(p) ==
  /\ Free(p)
  /\ t[p].ptracer # Nobody
  /\ k' = [k EXCEPT ![p].proc = "stop", ![p].event = "signal"]
  /\ UNCHANGED <<t, proot, kills>>

Call(p, call) ==
  /\ Free(p)
  /\ call.pid \in Names(p) \cup {Nobody, Any}
  /\ call.what \in Requests \ {"attach"} => t[call.pid].reported
  /\ k' = [k EXCEPT ![p].proc = "stop", ![p].event = "enter", ![p].call = call,
                    ![p].void = FALSE]
  /\ UNCHANGED <<t, proot, kills>>

-----------------------------------------------------------------------------
(* The kernel.                                                              *)

Children(p, pid) ==
  {c \in Pids : k[c].forker = p /\ k[c].proc \notin {"none", "gone"} /\ pid \in {c, Any}}

Answered(p) == [k EXCEPT ![p].proc = "stop", ![p].event = "exit"]

(* wait() ends with the end of a child, without one, or with SIGSTOP.       *)
WaitEnds(p) ==
  /\ k[p].proc = "wait"
  /\ \/ \E c \in Children(p, k[p].call.pid) :
          k[c].proc = "zombie" /\ k' = [Answered(p) EXCEPT ![c].proc = "gone"]
     \/ /\ \/ Children(p, k[p].call.pid) = {}
           \/ ~k[p].call.hang
           \/ k[p].sigstop
        /\ k' = Answered(p)
  /\ UNCHANGED <<t, proot, kills>>

StopSignal(p) ==
  /\ k[p].proc = "run"
  /\ k[p].sigstop
  /\ k' = [k EXCEPT ![p].proc = "stop", ![p].event = "SIGSTOP", ![p].sigstop = FALSE]
  /\ UNCHANGED <<t, proot, kills>>

(* Somebody kills a process.                                                *)
Kill(p) ==
  /\ k[p].proc \in Living
  /\ kills < MaxKills
  /\ kills' = kills + 1
  /\ k' = [k EXCEPT ![p].proc = "dead", ![p].event = "none", ![p].child = Nobody]
  /\ UNCHANGED <<t, proot>>

-----------------------------------------------------------------------------
(* PRoot.                                                                   *)

(* What waitpid() returns; an ended process is left to its parent.          *)
Collected(p) ==
  IF k[p].proc = "stop" THEN [k EXCEPT ![p].proc = "held"]
  ELSE [c \in Pids |->
          IF c = p
            THEN [k[c] EXCEPT !.proc = IF k[c].forker # Nobody /\ k[k[c].forker].proc \in Living
                                         THEN "zombie" ELSE "gone"]
          ELSE IF k[c].forker = p /\ k[c].proc = "zombie" THEN [k[c] EXCEPT !.proc = "gone"]
          ELSE k[c]]

(* A round of event_loop.                                                   *)
Round(p) ==
  LET event == IF k[p].proc = "dead" THEN "EXITED" ELSE k[p].event
      s == [State EXCEPT !.t[p] = [t[p] EXCEPT !.list = "tracees", !.running = FALSE],
                         !.k = Collected(p)]
      e == IF s.t[p].ptracer = Nobody THEN s ELSE handle_ptracee_event(s, p, event)
      h == handle_tracee_event(e, p, event)
      r == IF h.keep THEN h ELSE restart_tracee(h, p)
      u == IF e.keep THEN e ELSE free_terminated_tracees(r, p)
  IN  /\ proot = "alive"
      /\ k[p].proc \in {"stop", "dead"}
      /\ t' = u.t
      /\ k' = IF u.proot = "alive" THEN u.k ELSE kill_all_tracees(u).k
      /\ proot' = u.proot
      /\ UNCHANGED kills

End ==
  /\ proot = "alive"
  /\ \A p \in Pids : k[p].proc \in {"none", "zombie", "gone"}
  /\ proot' = "ended"
  /\ UNCHANGED <<t, k, kills>>

GuestStep ==
  \E p \in Pids : Fork(p) \/ Exit(p) \/ Raise(p) \/ \E call \in Menu[p] : Call(p, call)

Kernel == \E p \in Pids : WaitEnds(p) \/ StopSignal(p)

Next ==
  \/ GuestStep
  \/ Kernel
  \/ \E p \in Pids : Kill(p) \/ Round(p)
  \/ End

Spec == Init /\ [][Next]_vars

-----------------------------------------------------------------------------
TypeOK ==
  /\ \A p \in Pids :
       /\ t[p].list \in {"none", "tracees", "zombie"}
       /\ t[p].sigstop \in {"IGNORED", "ALLOWED", "PENDING"}
       /\ t[p].status \in {"enter", "exit"}
       /\ t[p].ptracer \in Pids \cup {Nobody}
       /\ t[p].waitPid \in Pids \cup {Any, Nobody}
       /\ t[p].waitsIn \in {"NOWHERE", "KERNEL", "PROOT"}
       /\ t[p].ptracees \in 0 .. Cardinality(Pids)
       /\ {t[p].forProot, t[p].forPtracer} \subseteq Events
       /\ k[p].event \in Events /\ k[p].call \in Calls
       /\ k[p].proc \in Living \cup {"none", "dead", "zombie", "gone"}
  /\ proot \in {"alive", "ended", "aborted", "crashed"}
  /\ kills \in 0 .. MaxKills

(* A guest counts those it traces: wait() of a guest with none is made in    *)
(* the kernel, and the assertion of detach_from_ptracer is about that count. *)
(* No assertion of PRoot fails, unless somebody kills a guest: when the one  *)
(* killed waits for those it traces, a fork is handled twice.                *)
TraceesCounted ==
  /\ proot = "aborted" => kills > 0
  /\ proot = "alive" => \A p \in Pids :
       t[p].list = "tracees" => t[p].ptracees = Cardinality(Ptracees(State, p))

HeldForParent(p) == ~t[p].exe /\ k[k[p].forker].event = "FORK" /\ k[k[p].forker].proc = "stop"

(* A guest that was killed before its parent's fork was handled stays in the *)
(* list for ever; it may be waited for.                                      *)
HeldForPtracees(p) ==
  /\ Waiting(State, p)
  /\ Told(State, p, t[p].waitPid) = {}
  /\ \E e \in Ptracees(State, p) :
       t[p].waitPid \in {e, Any} /\ (k[e].proc \in Living \cup {"dead"} \/ kills > 0)

(* The tracer did not go to sleep in the kernel, where it cannot be told.  A *)
(* wait() made again in the kernel may: the end it is for may have been      *)
(* collected already, by a wait() for that guest only.                       *)
HeldForPtracer(p) ==
  LET r == t[p].ptracer
      deaf == /\ k[r].proc = "wait" /\ k[r].call.pid \in {p, Any} /\ k[r].call.hang
              /\ t[r].waitsIn = "KERNEL" /\ ~k[r].sigstop
              /\ \A c \in Children(r, k[r].call.pid) : k[c].proc # "zombie"
  IN  /\ r # Nobody
      /\ t[r].list = "tracees"
      /\ t[p].reported \/ (t[p].forPtracer # "none" /\ ~deaf)

(* Its tracer was told of an event that PRoot had handled, then ended.       *)
Abandoned(p) ==
  t[p].reported /\ t[p].ptracer = Nobody /\ k[p].event \in {"FORK", "exit", "SIGSTOP"}

(* The process that created it was killed before PRoot saw its call.         *)
Bereaved(p) == ~t[p].exe /\ k[k[p].forker].proc \in {"dead", "zombie", "gone"}

(* It waited in the kernel for a guest it does not trace, and was made to    *)
(* wait in PRoot when another one asked to be traced.                        *)
Misled(p) ==
  t[p].waitPid \in Pids /\ p # t[t[p].waitPid].ptracer /\ Ptracees(State, p) # {}

(* A process that PRoot has stopped is waiting for something that can still  *)
(* happen: the fork of its parent, an event of a guest it traces, or its own *)
(* tracer.  The last three cases are those where the code forgets it.        *)
NobodyForgotten ==
  proot = "alive" => \A p \in Pids :
    k[p].proc = "held" =>
      \/ HeldForParent(p) \/ HeldForPtracees(p) \/ HeldForPtracer(p)
      \/ Abandoned(p) \/ Bereaved(p) \/ Misled(p)

(* "This option forces the immediate termination of all tracee processes     *)
(* when the main command exits" (cli/proot.h): none is left stopped.         *)
KilledOnExit ==
  (proot = "alive" /\ KillOnExit /\ k[Main].proc = "gone") => \A p \in Pids : k[p].proc # "held"
=============================================================================
