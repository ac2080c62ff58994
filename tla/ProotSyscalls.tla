---------------------------- MODULE ProotSyscalls ----------------------------
(***************************************************************************)
(* How PRoot (proot/src) translates the system calls of one thread of the  *)
(* guest: the thread, the kernel that stops it, and the handlers PRoot      *)
(* runs at each stop.                                                       *)
(*                                                                         *)
(* The kernel reports up to three stops for one call (a seccomp event, the  *)
(* entry, the exit), in an order that depends on its version, and SIGSYS    *)
(* instead of the call where the seccomp policy of Android forbids it.      *)
(* PRoot keeps in the Tracee which of the stops comes next, rewrites the    *)
(* registers at the entry, restores them at the exit, and re-executes the   *)
(* trap instruction to run a call of its own.                               *)
(*                                                                         *)
(* External: the kernel (which stops, in which order, what a call returns), *)
(* the policy and the guest.  They are modelled from what event.c expects   *)
(* of them.  A path is "guest" as the guest writes it and "host" once it is *)
(* translated; module ProotPaths says what the translation does.            *)
(***************************************************************************)
EXTENDS Naturals, Sequences

CONSTANTS
  Kinds,         \* the calls the guest makes first, a subset of AllKinds
  LaterKinds,    \* the calls it makes then
  HandlerKinds,  \* the calls a signal handler of the guest makes
  Hosts,         \* the kernels considered, a subset of AllHosts
  MaxCalls,      \* bound: calls of the guest outside of handlers
  MaxSignals,    \* bound: signals sent to the guest
  None

(* Calls the policy of Android answers with SIGSYS, calls of every kernel,  *)
(* and one that some kernels lack.                                          *)
Legacy ==
  {"open", "accept", "symlink", "link", "chmod", "chown", "lchown", "unlink", "rmdir",
   "send", "recv", "utimes", "stat", "lstat", "pipe", "dup2", "access", "mkdir",
   "rename", "select", "poll", "ftruncate", "setgroups", "getpgrp", "time", "statfs",
   "setresuid", "set_robust_list"}
AllKinds ==
  Legacy \cup {"getpid", "openat", "linkat", "readlinkat", "chdir", "getcwd", "accept4",
               "connect", "brk", "ptrace", "utime"}

(* order: what the kernel reports first; settable: ptrace() can change the  *)
(* number of the current call; policy: the seccomp policy of Android is in  *)
(* force; traced: the kernel has seccomp filters, so PRoot installs its own. *)
AllHosts ==
  {h \in [order : {"old", "new"}, settable : BOOLEAN, policy : BOOLEAN, traced : BOOLEAN,
         skipsExit : BOOLEAN] :
     (h.policy => h.traced) /\ (h.skipsExit => h.policy)}

VARIABLES
  host,      \* the kernel of this device
  s,         \* the Tracee, with the registers ptrace() reads and writes
  at,        \* where the thread is in the kernel; a stop is in Stops
  entryA,    \* the kernel's copy of the first argument (orig_x0)
  trace,     \* how the thread was last restarted
  sigsys,    \* number of the call SIGSYS is pending for, or None
  signals,   \* number of other signals to come, pending, delivered and overwritten
  call,      \* what the guest asked for, None between two calls
  frame,     \* while a signal handler runs: what it interrupted, its own call
  made,      \* number of calls the guest made outside of handlers
  mixed      \* a handler ran, or returned, between a rewritten call and its execution

vars == <<host, s, at, entryA, trace, sigsys, signals, call, frame, made, mixed>>

Stops == {"enter", "seccomp", "exit", "SIGSYS", "signal"}

-----------------------------------------------------------------------------
(* Register values: what the guest put there, paths PRoot translated        *)
(* (following a final symbolic link or not), constants and results.         *)

Guest(i)        == <<"guest", i>>
HostPath(i, follow) == <<"host", i, follow>>
Twice           == <<"twice">>          \* a translation of a host path
Scratch(i)      == <<"scratch", i>>     \* argument i, converted below the stack
Cwd             == <<"AT_FDCWD">>
Zero            == <<"0">>
Nofollow        == <<"AT_SYMLINK_NOFOLLOW">>
Removedir       == <<"AT_REMOVEDIR">>
Bad             == <<"-1">>
Value(name)     == <<name>>

Results == {"done", "failed", "errno", "enosys", "zero", "heap", "length", "pgid", "time", "size"}

Values ==
  {Guest(i) : i \in 1 .. 6} \cup {HostPath(i, follow) : i \in 1 .. 6, follow \in BOOLEAN}
  \cup {Scratch(i) : i \in 1 .. 6} \cup {Twice, Cwd, Zero, Nofollow, Removedir, Bad}
  \cup {Value(name) : name \in Results}

(* The calls a thread makes, for itself or because PRoot has it make them.   *)
Numbers ==
  AllKinds \cup
  {"faccessat", "fchmodat", "fchownat", "ftruncate64", "dup3", "mkdirat", "mmap", "mremap",
   "pipe2", "ppoll", "pselect6", "recvfrom", "renameat", "rt_sigreturn", "sendto",
   "symlinkat", "unlinkat", "utimensat", "void"}
Number  == Numbers \cup {None}
Request == [num : Number, args : [1 .. 6 -> Values]]

(* A call as the guest asked for it, and what was done for it.              *)
Effects == Seq(Number \cup Values \cup {"heap"})
Asking  == [kind : AllKinds, refused : BOOLEAN, effects : Seq(Effects), stops : Nat]

(* What a handler interrupted, and its own call.                            *)
Frames ==
  [regs : [num : Number, args : [1 .. 6 -> Values], sp : {"top", "handler", "scratch"},
           pc : {"after", "trap"}],
   call : Asking \cup {None}, called : BOOLEAN]

ASSUME SyscallsAssumption ==
  /\ Kinds \cup LaterKinds \subseteq AllKinds
  /\ HandlerKinds \subseteq AllKinds
  /\ Hosts \subseteq AllHosts
  /\ MaxCalls \in Nat
  /\ MaxSignals \in Nat
  /\ None \notin Numbers /\ None \notin Seq(Request)
  /\ None \notin Asking /\ None \notin Frames

GuestArgs == [i \in 1 .. 6 |-> Guest(i)]

NoCall(sp) == [num |-> None, args |-> GuestArgs, sp |-> sp, pc |-> "after"]

(* The call in progress: the handler's while one runs.                      *)
Current == IF frame = None THEN call ELSE frame.call

Trapped(num) == host.policy /\ num \in Legacy \cup {"void"}

(* proot_sysnums: the calls the filter of PRoot reports, and those whose    *)
(* exit is needed too.                                                      *)
FilterSysexit ==
  {"accept", "accept4", "brk", "chdir", "getcwd", "ptrace", "readlinkat", "rename",
   "renameat", "statfs", "utime"}
Filtered ==
  FilterSysexit \cup
  {"access", "chmod", "chown", "connect", "faccessat", "fchmodat", "fchownat", "lchown",
   "link", "linkat", "lstat", "mkdir", "mkdirat", "open", "openat", "rmdir", "stat",
   "symlink", "symlinkat", "unlink", "unlinkat", "utimensat", "utimes"}

(* The number of a call for the ABI of the guest: no table has newfstatat.  *)
detranslate_sysnum(num) == IF num = "newfstatat" THEN "void" ELSE num

-----------------------------------------------------------------------------
(* Registers: tracee/reg.c, tracee/mem.c.                                   *)

fetch_regs(x) == [x EXCEPT !.cur = x.regs]

poke_reg(x, regs) ==
  IF x.cur = regs THEN x ELSE [x EXCEPT !.cur = regs, !.regsChanged = TRUE]

poke_result(x, name) == poke_reg(x, [x.cur EXCEPT !.args[1] = Value(name)])

set_sysnum(x, num) == poke_reg(x, [x.cur EXCEPT !.num = detranslate_sysnum(num)])

save_original(x) == [x EXCEPT !.original = x.cur, !.regsChanged = FALSE]

Restored(x) ==
  LET bank == IF x.restoreRewrite THEN x.rewrite ELSE x.original
  IN  IF x.restore
        THEN [x EXCEPT !.cur.num = bank.num, !.cur.sp = bank.sp,
                       !.cur.args = [bank.args EXCEPT ![1] = x.cur.args[1]],
                       !.restoreRewrite = FALSE]
        ELSE x

NeedsPush(x) == x.regsChanged \/ (x.restore /\ x.restoreRewrite)

(* The number of the current call would change, and the kernel refuses.     *)
PushFails(x, withNum) ==
  /\ NeedsPush(x)
  /\ withNum
  /\ Restored(x).cur.num # x.original.num
  /\ ~host.settable

push_regs(x, withNum) ==
  IF ~NeedsPush(x) THEN x
  ELSE LET r == Restored(x)
       IN  IF PushFails(x, withNum) THEN r
           ELSE [r EXCEPT !.regs = r.cur,
                          !.nr = IF withNum /\ r.cur.num # r.original.num
                                   THEN r.cur.num ELSE r.nr]

(* alloc_mem: room for new data below the stack pointer, at the entry only. *)
alloc_mem(x) ==
  [poke_reg(x, [x.cur EXCEPT !.sp = "scratch"]) EXCEPT !.aborted = @ \/ x.status # "enter"]

-----------------------------------------------------------------------------
(* Chained calls: syscall/chain.c.                                          *)

Chaining(x) == x.chain # None

(* Mutant: the chain does not advance.                                      *)
chain_next_syscall_Stuck(x) ==
  IF x.chain = <<>> THEN [x EXCEPT !.chain = None]
  ELSE poke_reg([x EXCEPT !.restore = FALSE, !.how = "syscall"],
                [x.cur EXCEPT !.num = Head(x.chain).num, !.args = Head(x.chain).args,
                              !.pc = "trap"])

chain_next_syscall(x) ==
  IF x.chain = <<>> THEN [x EXCEPT !.chain = None]
  ELSE poke_reg([x EXCEPT !.restore = FALSE, !.chain = Tail(@), !.how = "syscall"],
                [x.cur EXCEPT !.num = Head(x.chain).num, !.args = Head(x.chain).args,
                              !.pc = "trap"])

restart_current_syscall_as_chained(x) ==
  [x EXCEPT !.aborted = @ \/ x.workaround # "inactive",
            !.workaround = "faulty",
            !.chain = <<[num |-> x.cur.num, args |-> x.cur.args]>>]

-----------------------------------------------------------------------------
(* SIGSYS: tracee/seccomp.c.  A forbidden call is replaced by one that is   *)
(* not, or answered by PRoot itself.                                        *)

(* The calls with a path and no directory become their *at variants.        *)
AtCall(num, a) ==
  CASE num = "open"     -> <<"openat", <<Cwd, a[1], a[2], a[3], a[5], a[6]>> >>
    [] num = "symlink"  -> <<"symlinkat", <<a[1], Cwd, a[2], a[4], a[5], a[6]>> >>
    [] num = "link"     -> <<"linkat", <<Cwd, a[1], Cwd, a[2], Zero, a[6]>> >>
    [] num = "chmod"    -> <<"fchmodat", <<Cwd, a[1], a[2], Zero, a[5], a[6]>> >>
    [] num = "chown"    -> <<"fchownat", <<Cwd, a[1], a[2], a[3], Zero, a[6]>> >>
    [] num = "lchown"   -> <<"fchownat", <<Cwd, a[1], a[2], a[3], Nofollow, a[6]>> >>
    [] num = "unlink"   -> <<"unlinkat", <<Cwd, a[1], Zero, a[4], a[5], a[6]>> >>
    [] num = "rmdir"    -> <<"unlinkat", <<Cwd, a[1], Removedir, a[4], a[5], a[6]>> >>
    [] num = "stat"     -> <<"newfstatat", <<Cwd, a[1], a[2], Zero, a[5], a[6]>> >>
    [] num = "lstat"    -> <<"newfstatat", <<Cwd, a[1], a[2], Nofollow, a[5], a[6]>> >>
    [] num = "access"   -> <<"faccessat", <<Cwd, a[1], a[2], Zero, a[5], a[6]>> >>
    [] num = "mkdir"    -> <<"mkdirat", <<Cwd, a[1], a[2], a[4], a[5], a[6]>> >>
    [] num = "rename"   -> <<"renameat", <<Cwd, a[1], Cwd, a[2], a[5], a[6]>> >>

(* Others gain arguments.                                                   *)
WiderCall(num, a) ==
  CASE num = "accept"    -> <<"accept4", <<a[1], a[2], a[3], Zero, a[5], a[6]>> >>
    [] num = "send"      -> <<"sendto", <<a[1], a[2], a[3], a[4], Zero, Zero>> >>
    [] num = "recv"      -> <<"recvfrom", <<a[1], a[2], a[3], a[4], Zero, Zero>> >>
    [] num = "pipe"      -> <<"pipe2", <<a[1], Zero, a[3], a[4], a[5], a[6]>> >>
    [] num = "dup2"      -> <<"dup3", <<a[1], a[2], Zero, a[4], a[5], a[6]>> >>
    [] num = "ftruncate" -> <<"ftruncate64", <<a[1], Zero, a[2], Zero, a[5], a[6]>> >>

(* In others a time is converted into memory below the stack.               *)
TimeCall(num, a) ==
  CASE num \in {"utime", "utimes"} ->
         <<"utimensat", <<Cwd, a[1], Scratch(2), Zero, a[5], a[6]>> >>
    [] num = "select" -> <<"pselect6", <<a[1], a[2], a[3], a[4], Scratch(5), Zero>> >>
    [] num = "poll"   -> <<"ppoll", <<a[1], a[2], Scratch(3), Zero, Zero, a[6]>> >>

AtCalls ==
  {"open", "symlink", "link", "chmod", "chown", "lchown", "unlink", "rmdir", "stat",
   "lstat", "access", "mkdir", "rename"}
WiderCalls == {"accept", "send", "recv", "pipe", "dup2", "ftruncate"}
TimeCalls  == {"utime", "utimes", "select", "poll"}

Rewritten(num, a) ==
  CASE num \in AtCalls    -> AtCall(num, a)
    [] num \in WiderCalls -> WiderCall(num, a)
    [] num \in TimeCalls  -> TimeCall(num, a)

(* What PRoot answers itself; statfs reads the path like an entry would.    *)
SigsysResult(num) ==
  CASE num \in {"setgroups", "setresuid"} -> "zero"
    [] num = "getpgrp" -> "pgid"
    [] num = "time"    -> "time"
    [] num = "statfs"  -> IF Current.refused THEN "errno" ELSE "zero"
    [] OTHER           -> "enosys"

restart_syscall_after_seccomp(x) ==
  push_regs(poke_reg([x EXCEPT !.restoreRewrite = TRUE, !.how = "syscall"],
                     [x.cur EXCEPT !.pc = "trap"]), FALSE)

set_result_after_seccomp(x, result) == push_regs(poke_result(x, result), FALSE)

handle_seccomp_event_common(x) ==
  LET num == x.cur.num
      new == Rewritten(num, x.cur.args)
      y == IF num \in TimeCalls THEN alloc_mem(x) ELSE x
  IN  IF num \in AtCalls \cup WiderCalls \cup TimeCalls
        THEN restart_syscall_after_seccomp(
               poke_reg(y, [y.cur EXCEPT !.num = detranslate_sysnum(new[1]), !.args = new[2]]))
        ELSE set_result_after_seccomp(x, SigsysResult(num))

handle_seccomp_event(x) ==
  LET y == fetch_regs([x EXCEPT !.status = "enter", !.restore = FALSE])
  IN  handle_seccomp_event_common([y EXCEPT !.rewrite = y.cur])

fix_and_restart_enosys_syscall(x) ==
  handle_seccomp_event_common(
    [x EXCEPT !.status = "enter", !.restore = FALSE, !.cur = x.original,
              !.rewrite = x.original])

-----------------------------------------------------------------------------
(* Entry and exit of a call: syscall/enter.c, exit.c, syscall.c.            *)

(* The arguments that are paths, and whether a final symbolic link is       *)
(* followed.  The guest asks open and openat to follow, linkat not to.      *)
PathArgs(num, a) ==
  CASE num \in {"access", "chmod", "chown", "open", "stat", "statfs", "utime", "utimes"} ->
         {<<1, TRUE>>}
    [] num \in {"lchown", "lstat", "mkdir", "rmdir", "unlink"} -> {<<1, FALSE>>}
    [] num \in {"link", "rename"} -> {<<1, FALSE>>, <<2, FALSE>>}
    [] num = "symlink" -> {<<2, FALSE>>}
    [] num = "symlinkat" -> {<<3, FALSE>>}
    [] num \in {"faccessat", "fchmodat", "openat"} -> {<<2, TRUE>>}
    [] num \in {"mkdirat", "readlinkat", "unlinkat"} -> {<<2, FALSE>>}
    [] num = "fchownat" -> {<<2, a[5] # Nofollow>>}
    [] num = "utimensat" -> {<<2, a[4] # Nofollow>>}
    [] num \in {"linkat", "renameat"} -> {<<2, FALSE>>, <<4, FALSE>>}
    [] num = "connect" -> {<<2, TRUE>>}
    [] OTHER -> {}

(* set_sysarg_path: each path is replaced by one below the stack pointer.   *)
Translated(paths, a) ==
  [i \in 1 .. 6 |->
     IF \A path \in paths : path[1] # i THEN a[i]
     ELSE IF a[i][1] # "guest" THEN Twice
     ELSE HostPath(a[i][2], <<i, TRUE>> \in paths)]

TakesPath(kind) == PathArgs(kind, GuestArgs) # {} \/ kind = "chdir"

translate_brk_enter(x) ==
  LET args == [i \in 1 .. 6 |-> Value("heap")]
  IN  poke_reg(x, [x.cur EXCEPT !.num = IF x.heap THEN "mremap" ELSE "mmap", !.args = args])

translate_syscall_enter(x) ==
  LET num == x.original.num
      paths == PathArgs(num, x.cur.args)
      y == alloc_mem(x)
  IN  CASE num \in {"chdir", "getcwd", "ptrace"} -> set_sysnum(x, "void")
        [] num = "brk" -> translate_brk_enter(x)
        [] num \in {"accept", "accept4"} -> poke_reg(x, [x.cur EXCEPT !.args[6] = Value("size")])
        [] paths # {} -> poke_reg(y, [y.cur EXCEPT !.args = Translated(paths, y.cur.args)])
        [] OTHER -> x

(* The path cannot be translated: the entry reports an error.               *)
Refused(x) ==
  /\ x.original.num = "chdir" \/ PathArgs(x.original.num, x.cur.args) # {}
  /\ Current # None
  /\ Current.refused

translate_brk_exit(x) ==
  IF x.modified.num = "mmap" /\ x.cur.args[1] # Value("done") THEN poke_result(x, "zero")
  ELSE poke_result([x EXCEPT !.heap = TRUE], "heap")

translate_syscall_exit(x) ==
  LET y == IF x.modified.num = "void" /\ x.original.num # "void"
             THEN poke_reg(x, [x.cur EXCEPT !.args[1] = x.modified.args[1]]) ELSE x
      num == x.original.num
      result == y.cur.args[1]
  IN  CASE x.status = "error" -> poke_result(x, "errno")
        [] x.status # "error" /\ num = "brk" -> translate_brk_exit(y)
        [] x.status # "error" /\ num = "getcwd" -> poke_result(y, "length")
        [] x.status # "error" /\ num = "chdir" -> poke_result(y, "zero")
        [] x.status # "error" /\ num \in {"rename", "renameat"} ->
             IF result = Value("done") THEN poke_result(y, "zero") ELSE y
        [] x.status # "error" /\ num = "readlinkat" ->
             IF result = Value("done") THEN poke_result(y, "length") ELSE y
        [] x.status # "error" /\ num = "ptrace" ->
             poke_result([y EXCEPT !.seccomp = IF @ = "enabled" THEN "disabling" ELSE @], "zero")
        [] x.status # "error" /\ num = "utime" ->
             IF result = Value("enosys") THEN fix_and_restart_enosys_syscall(y) ELSE y
        [] OTHER -> y

(* The entry, before the registers are written.                             *)
EnterStage(x) ==
  LET y == fetch_regs([x EXCEPT !.restore = FALSE])
      o == save_original(y)
      e == IF Refused(o) THEN o ELSE translate_syscall_enter(o)
      m == [e EXCEPT !.modified = e.cur]
      refused == ~Chaining(y) /\ Refused(o)
      z == IF Chaining(y) THEN [y EXCEPT !.how = "syscall", !.status = "ok"]
           ELSE IF refused
             THEN [poke_result(set_sysnum(m, "void"), "errno") EXCEPT !.status = "error"]
             ELSE [m EXCEPT !.status = "ok"]
      WithoutExit(w) ==
        IF w.how = "cont"
          THEN poke_reg([w EXCEPT !.status = "enter"], [w.cur EXCEPT !.sp = w.original.sp])
          ELSE w
  IN  WithoutExit(z)

(* The status EnterStage put aside when the exit is not going to be hit.    *)
SuppressedStatus(x) ==
  IF Refused(save_original(fetch_regs(x))) THEN "error" ELSE "ok"

(* The number could not be changed: let the call fail, and run the other    *)
(* one after it, or report the result at its exit.                          *)
SysnumWorkaround(x, suppressed) ==
  LET y == IF x.cur.num # "void" THEN restart_current_syscall_as_chained(x)
           ELSE IF suppressed # None THEN [x EXCEPT !.status = suppressed, !.how = "syscall"]
           ELSE x
      first == IF x.original.num = "brk" THEN Zero ELSE Bad
  IN  push_regs(poke_reg(y, [y.cur EXCEPT !.args = [i \in 1 .. 6 |-> IF i = 1 THEN first ELSE Bad]]),
                FALSE)

ExitStage(x) ==
  LET y == fetch_regs([x EXCEPT !.restore = TRUE])
      z == IF ~Chaining(y) \/ y.workaround = "replaced"
             THEN translate_syscall_exit([y EXCEPT !.workaround = "inactive"])
             ELSE IF y.workaround = "faulty" THEN [y EXCEPT !.workaround = "replaced"]
             ELSE y
      Chained(r) == IF Chaining(r) THEN chain_next_syscall(r) ELSE r
  IN  push_regs(Chained([z EXCEPT !.status = "enter"]), FALSE)

translate_syscall(x) ==
  IF x.status # "enter" THEN ExitStage(x)
  ELSE LET suppressed == IF x.how = "cont" /\ ~Chaining(x) THEN SuppressedStatus(x) ELSE None
           Written(y) ==
             IF ~Chaining(y) /\ PushFails(y, TRUE)
               THEN SysnumWorkaround(push_regs(y, TRUE), suppressed)
               ELSE push_regs(y, ~Chaining(y))
       IN  Written(EnterStage(x))

-----------------------------------------------------------------------------
(* The stops: handle_tracee_event, then restart_tracee (tracee/event.c).    *)

(* seccomp_after_ptrace_enter                                               *)
After == host.order = "new" /\ host.traced

(* Mutant: the exit of a re-executed call is not asked for.                 *)
Necessary_NotRewrite(x) == x.sysexitPending \/ Chaining(x)

Necessary(x) == x.sysexitPending \/ Chaining(x) \/ x.restoreRewrite

Begin(x) ==
  [x EXCEPT !.how = IF x.seccomp = "enabled" /\ ~Necessary(x) THEN "cont" ELSE "syscall"]

(* Mutant: the way to restart is kept for the next stop.                    *)
Restarted_Kept(x) == [x EXCEPT !.last = x.how]

Restarted(x) == [x EXCEPT !.last = x.how, !.how = None]

(* A stop at the entry or at the exit of a call.                            *)
OnSyscallStop(x) ==
  LET entry == x.status = "enter"
      Skipping(y) == IF entry THEN [y EXCEPT !.skip = After /\ y.cur.num = "void"] ELSE y
      Staged(y) ==
        IF y.handledEnter
          THEN [y EXCEPT !.aborted = @ \/ entry \/ After, !.handledEnter = FALSE, !.how = "syscall"]
          ELSE Skipping(translate_syscall(y))
      Disabled(y) ==
        IF y.seccomp = "disabling" THEN [y EXCEPT !.how = "syscall", !.seccomp = "disabled"] ELSE y
  IN  CASE x.seccomp = "disabling" ->
             [x EXCEPT !.seccomp = "disabled", !.status = IF entry THEN "ok" ELSE @]
        [] x.seccomp = "enabled" ->
             Disabled(Staged([x EXCEPT !.how = IF entry THEN "syscall" ELSE "cont",
                                       !.sysexitPending = entry]))
        [] x.seccomp = "disabled" -> Disabled(Staged(x))

(* Mutant: the chain is taken to be over before its last call is made.      *)
Redelivers_AtEntry(x) == x.suppressed /\ ~Chaining(x) /\ x.status # "enter"

(* A signal kept back during a chain is sent again once the chain is over.  *)
Redelivers(x) == x.suppressed /\ ~Chaining(x)

(* Mutant: the event is handled as on a kernel that reports it first.       *)
OnSeccompStop_AsFirst(x) ==
  LET c == translate_syscall([x EXCEPT !.skip = FALSE, !.how = "cont"])
  IN  IF x.seccomp # "enabled" THEN x
      ELSE IF x.nr \in FilterSysexit \/ Necessary(x) THEN [x EXCEPT !.how = "syscall"]
      ELSE c

OnSeccompStop(x) ==
  LET entry == x.status = "enter"
      y == [x EXCEPT !.skip = FALSE]
      Continued(z) ==
        LET how == IF z.seccomp = "disabling" THEN "syscall" ELSE z.how
        IN  [z EXCEPT !.how = how, !.aborted = @ \/ ~entry,
                      !.handledEnter = @ \/ (~After /\ how = "syscall")]
  IN  IF After /\ ~entry
        THEN [y EXCEPT !.how = y.last, !.aborted = @ \/ y.last = "cont"]
      ELSE IF y.seccomp # "enabled" THEN [y EXCEPT !.aborted = @ \/ ~entry]
      ELSE IF x.nr \in FilterSysexit \/ Necessary(x)
        THEN IF After THEN [translate_syscall([y EXCEPT !.how = "syscall"]) EXCEPT !.how = "syscall"]
             ELSE [y EXCEPT !.how = "syscall", !.aborted = @ \/ ~entry]
      ELSE Continued(translate_syscall([y EXCEPT !.how = "cont"]))

(* Mutant: the exit stop the kernel skipped is forgotten.                   *)
OnSigsys_NoExit(x) ==
  IF x.skip \/ (After /\ sigsys = "void") THEN [x EXCEPT !.skip = FALSE]
  ELSE handle_seccomp_event(x)

OnSigsys(x) ==
  LET Answered(y) ==
        IF y.skip \/ (After /\ sigsys = "void") THEN [y EXCEPT !.skip = FALSE]
        ELSE handle_seccomp_event(y)
  IN  Answered(IF x.status = "enter" THEN x ELSE translate_syscall(x))

-----------------------------------------------------------------------------
Init ==
  /\ host \in Hosts
  /\ s = LET regs == NoCall("top")
         IN  [status |-> "enter", how |-> None, last |-> IF host.traced THEN "cont" ELSE "syscall",
              seccomp |-> IF host.traced THEN "enabled" ELSE "disabled",
              sysexitPending |-> FALSE, handledEnter |-> FALSE, skip |-> FALSE,
              restore |-> TRUE, restoreRewrite |-> FALSE, regsChanged |-> FALSE,
              chain |-> None, workaround |-> "inactive", suppressed |-> FALSE,
              cur |-> regs, original |-> regs, modified |-> regs, rewrite |-> regs,
              regs |-> regs, nr |-> None, heap |-> FALSE, aborted |-> FALSE]
  /\ at = "user"
  /\ entryA = Guest(1)
  /\ trace = s.last
  /\ sigsys = None
  /\ signals = [toCome |-> MaxSignals, pending |-> 0, delivered |-> 0, overwritten |-> 0]
  /\ call = None
  /\ frame = None
  /\ made = 0
  /\ mixed = FALSE

(* The guest executes the trap instruction with these registers.            *)
Enters(regs) ==
  /\ s' = [s EXCEPT !.regs = [regs EXCEPT !.pc = "after",
                                         !.args[1] = IF regs.num = "void" THEN Value("enosys") ELSE @],
                     !.nr = regs.num]
  /\ entryA' = regs.args[1]
  /\ at' = "entry"

Asked(kind, refused) == [kind |-> kind, refused |-> refused, effects |-> <<>>, stops |-> 0]

Refusals(kind) == IF TakesPath(kind) THEN BOOLEAN ELSE {FALSE}

InUser == at = "user" /\ s.regs.pc = "after"

Call(kind) ==
  /\ InUser /\ frame = None /\ call = None
  /\ made < MaxCalls
  /\ kind \in IF made = 0 THEN Kinds ELSE LaterKinds
  /\ made' = made + 1
  /\ Enters([NoCall(s.regs.sp) EXCEPT !.num = kind])
  /\ \E refused \in Refusals(kind) : call' = Asked(kind, refused)
  /\ UNCHANGED <<host, trace, sigsys, signals, frame, mixed>>

HandlerCall(kind) ==
  /\ InUser /\ frame # None
  /\ frame.call = None /\ ~frame.called
  /\ Enters([NoCall(s.regs.sp) EXCEPT !.num = kind])
  /\ \E refused \in Refusals(kind) :
        frame' = [frame EXCEPT !.call = Asked(kind, refused), !.called = TRUE]
  /\ UNCHANGED <<host, trace, sigsys, signals, call, made, mixed>>

(* The guest goes on with the result of its call.                           *)
Return ==
  /\ InUser /\ Current # None
  /\ IF frame = None THEN call' = None /\ UNCHANGED frame
     ELSE frame' = [frame EXCEPT !.call = None] /\ UNCHANGED call
  /\ UNCHANGED <<host, s, at, entryA, trace, sigsys, signals, made, mixed>>

(* Registers that PRoot still has to put back are put back at this call.    *)
Sigreturn ==
  /\ InUser /\ frame # None /\ frame.call = None
  /\ Enters([s.regs EXCEPT !.num = "rt_sigreturn"])
  /\ mixed' = (mixed \/ s.restoreRewrite)
  /\ UNCHANGED <<host, trace, sigsys, signals, call, frame, made>>

(* PRoot moved the guest back to the trap instruction.                      *)
Retrap ==
  /\ at = "user" /\ s.regs.pc = "trap"
  /\ Enters(s.regs)
  /\ UNCHANGED <<host, trace, sigsys, signals, call, frame, made, mixed>>

-----------------------------------------------------------------------------
(* The kernel.                                                              *)

Entry ==
  /\ at = "entry"
  /\ at' = IF host.order = "new" /\ trace = "syscall" THEN "enter" ELSE "filter"
  /\ UNCHANGED <<host, s, entryA, trace, sigsys, signals, call, frame, made, mixed>>

AfterFilter == IF host.order = "old" /\ trace = "syscall" THEN "enter" ELSE "exec"

(* The policy first: it wins over the filter of PRoot.  The kernel may skip *)
(* the exit stop of the call it refuses.                                    *)
Filter ==
  /\ at = "filter"
  /\ IF Trapped(s.nr)
       THEN /\ sigsys' = s.nr
            /\ s' = [s EXCEPT !.regs.args[1] = entryA]
            /\ at' = IF host.skipsExit THEN "signals" ELSE "leave"
       ELSE /\ at' = IF host.traced /\ s.nr \in Filtered THEN "seccomp" ELSE AfterFilter
            /\ UNCHANGED <<s, sigsys>>
  /\ UNCHANGED <<host, entryA, trace, signals, call, frame, made, mixed>>

(* What the kernel answers.                                                 *)
Result ==
  CASE s.regs.args[2] = Bad -> "failed"
    [] s.regs.args[2] # Bad /\ s.nr = "utime" -> "enosys"
    [] OTHER -> "done"

(* What a call does, whichever of its variants is used.                     *)
Effect(num, a) ==
  CASE num = "open"      -> <<"openat", Cwd, a[1], a[2], a[3]>>
    [] num = "openat"    -> <<"openat", a[1], a[2], a[3], a[4]>>
    [] num = "symlink"   -> <<"symlinkat", a[1], Cwd, a[2]>>
    [] num = "symlinkat" -> <<"symlinkat", a[1], a[2], a[3]>>
    [] num = "link"      -> <<"linkat", Cwd, a[1], Cwd, a[2], Zero>>
    [] num = "linkat"    -> <<"linkat", a[1], a[2], a[3], a[4], a[5]>>
    [] num = "chmod"     -> <<"fchmodat", Cwd, a[1], a[2]>>
    [] num = "fchmodat"  -> <<"fchmodat", a[1], a[2], a[3]>>
    [] num = "chown"     -> <<"fchownat", Cwd, a[1], a[2], a[3], Zero>>
    [] num = "lchown"    -> <<"fchownat", Cwd, a[1], a[2], a[3], Nofollow>>
    [] num = "fchownat"  -> <<"fchownat", a[1], a[2], a[3], a[4], a[5]>>
    [] num = "unlink"    -> <<"unlinkat", Cwd, a[1], Zero>>
    [] num = "rmdir"     -> <<"unlinkat", Cwd, a[1], Removedir>>
    [] num = "unlinkat"  -> <<"unlinkat", a[1], a[2], a[3]>>
    [] num = "access"    -> <<"faccessat", Cwd, a[1], a[2]>>
    [] num = "faccessat" -> <<"faccessat", a[1], a[2], a[3]>>
    [] num = "mkdir"     -> <<"mkdirat", Cwd, a[1], a[2]>>
    [] num = "mkdirat"   -> <<"mkdirat", a[1], a[2], a[3]>>
    [] num = "rename"    -> <<"renameat", Cwd, a[1], Cwd, a[2]>>
    [] num = "renameat"  -> <<"renameat", a[1], a[2], a[3], a[4]>>
    [] num = "accept"    -> <<"accept4", a[1], a[2], a[3], Zero>>
    [] num = "accept4"   -> <<"accept4", a[1], a[2], a[3], a[4]>>
    [] num = "send"      -> <<"sendto", a[1], a[2], a[3], a[4], Zero, Zero>>
    [] num = "sendto"    -> <<"sendto", a[1], a[2], a[3], a[4], a[5], a[6]>>
    [] num = "recv"      -> <<"recvfrom", a[1], a[2], a[3], a[4], Zero, Zero>>
    [] num = "recvfrom"  -> <<"recvfrom", a[1], a[2], a[3], a[4], a[5], a[6]>>
    [] num = "pipe"      -> <<"pipe2", a[1], Zero>>
    [] num = "pipe2"     -> <<"pipe2", a[1], a[2]>>
    [] num = "dup2"      -> <<"dup3", a[1], a[2], Zero>>
    [] num = "dup3"      -> <<"dup3", a[1], a[2], a[3]>>
    [] num = "ftruncate" -> <<"ftruncate64", a[1], a[2], Zero>>
    [] num = "ftruncate64" -> <<"ftruncate64", a[1], a[3], a[4]>>
    [] num \in {"utime", "utimes"} -> <<"utimensat", Cwd, a[1], Scratch(2), Zero>>
    [] num = "utimensat" -> <<"utimensat", a[1], a[2], a[3], a[4]>>
    [] num = "select"    -> <<"pselect6", a[1], a[2], a[3], a[4], Scratch(5), Zero>>
    [] num = "pselect6"  -> <<"pselect6", a[1], a[2], a[3], a[4], a[5], a[6]>>
    [] num = "poll"      -> <<"ppoll", a[1], a[2], Scratch(3), Zero>>
    [] num = "ppoll"     -> <<"ppoll", a[1], a[2], a[3], a[4]>>
    [] num \in {"brk", "mmap", "mremap"} -> <<"heap">>
    [] OTHER -> <<num, a[1], a[2]>>

Asks(c) ==
  LET paths == PathArgs(c.kind, GuestArgs)
  IN  Effect(c.kind, Translated(paths, GuestArgs))

Counted(c) ==
  IF c = None \/ Result # "done" \/ s.nr = "brk" THEN c
  ELSE [c EXCEPT !.effects = Append(@, Effect(s.nr, s.regs.args))]

(* A thread that returns from a handler when none runs is killed: that a     *)
(* step is missing here is what AnsweredOnce excludes.                      *)
Exec ==
  /\ at = "exec"
  /\ at' = "leave"
  /\ CASE s.nr = "void" -> UNCHANGED <<s, call, frame>>
       [] s.nr = "rt_sigreturn" ->
            /\ frame # None
            /\ s' = [s EXCEPT !.regs = frame.regs] /\ frame' = None /\ UNCHANGED call
       [] OTHER ->
            /\ s' = [s EXCEPT !.regs.args[1] = Value(Result)]
            /\ IF frame = None THEN call' = Counted(call) /\ UNCHANGED frame
               ELSE frame' = [frame EXCEPT !.call = Counted(@)] /\ UNCHANGED call
  /\ UNCHANGED <<host, entryA, trace, sigsys, signals, made, mixed>>

Leave ==
  /\ at = "leave"
  /\ at' = IF trace = "syscall" THEN "exit" ELSE "signals"
  /\ UNCHANGED <<host, s, entryA, trace, sigsys, signals, call, frame, made, mixed>>

Signals ==
  /\ at = "signals"
  /\ at' = IF sigsys # None THEN "SIGSYS"
           ELSE IF signals.pending > 0 /\ frame = None THEN "signal" ELSE "user"
  /\ UNCHANGED <<host, s, entryA, trace, sigsys, signals, call, frame, made, mixed>>

(* Somebody sends a signal to the guest.                                    *)
Kill ==
  /\ signals.toCome > 0
  /\ signals' = [signals EXCEPT !.toCome = @ - 1, !.pending = @ + 1]
  /\ at' = IF at = "user" THEN "signals" ELSE at
  /\ UNCHANGED <<host, s, entryA, trace, sigsys, call, frame, made, mixed>>

-----------------------------------------------------------------------------
(* PRoot.                                                                   *)

Restart(x) == s' = Restarted(x) /\ trace' = x.how

(* A call is run at most twice, and each run is stopped at most three times. *)
MaxStops == 6

(* Counts the stops of the call in progress, up to one more than MaxStops.   *)
(* The exit of the return from a handler is no stop of the call that the     *)
(* handler interrupted.                                                     *)
CountStop ==
  LET Once(c) == IF c = None \/ s.nr = "rt_sigreturn" \/ c.stops > MaxStops THEN c
                 ELSE [c EXCEPT !.stops = @ + 1]
  IN  IF frame = None THEN call' = Once(call) /\ UNCHANGED frame
      ELSE frame' = [frame EXCEPT !.call = Once(@)] /\ UNCHANGED call

SyscallStop ==
  /\ at \in {"enter", "exit"}
  /\ \E x \in {OnSyscallStop(Begin(s))} :
       /\ Restart([x EXCEPT !.suppressed = @ /\ ~Redelivers(x)])
       /\ signals' = IF Redelivers(x) THEN [signals EXCEPT !.pending = @ + 1] ELSE signals
  /\ at' = IF at = "exit" THEN "signals"
           ELSE IF host.order = "new" THEN "filter" ELSE "exec"
  /\ CountStop
  /\ UNCHANGED <<host, entryA, sigsys, made, mixed>>

SeccompStop ==
  /\ at = "seccomp"
  /\ \E x \in {OnSeccompStop(Begin(s))} :
       /\ Restart(x)
       /\ at' = IF x.nr = "void" THEN "leave"
                ELSE IF host.order = "old" /\ x.how = "syscall" THEN "enter" ELSE "exec"
  /\ CountStop
  /\ UNCHANGED <<host, entryA, sigsys, signals, made, mixed>>

SigsysStop ==
  /\ at = "SIGSYS"
  /\ Restart(OnSigsys(Begin(s)))
  /\ sigsys' = None
  /\ at' = "signals"
  /\ CountStop
  /\ UNCHANGED <<host, entryA, signals, made, mixed>>

(* A signal is kept back while PRoot chains calls, else its handler runs.   *)
SignalStop ==
  LET x == Begin(s)
  IN  /\ at = "signal"
      /\ IF Chaining(x)
           THEN /\ Restart([x EXCEPT !.suppressed = TRUE])
                /\ signals' = [signals EXCEPT !.pending = @ - 1,
                                              !.overwritten = IF x.suppressed THEN @ + 1 ELSE @]
                /\ at' = "signals"
                /\ UNCHANGED <<frame, mixed>>
           ELSE /\ Restart([x EXCEPT !.regs = NoCall("handler")])
                /\ signals' = [signals EXCEPT !.pending = @ - 1, !.delivered = @ + 1]
                /\ at' = "user"
                /\ frame' = [regs |-> s.regs, call |-> None, called |-> FALSE]
                /\ mixed' = (mixed \/ s.restoreRewrite)
      /\ UNCHANGED <<host, entryA, sigsys, call, made>>

-----------------------------------------------------------------------------
GuestStep == (\E kind \in Kinds \cup LaterKinds : Call(kind)) \/ (\E kind \in HandlerKinds : HandlerCall(kind))
            \/ Return \/ Sigreturn \/ Retrap
Kernel == Entry \/ Filter \/ Exec \/ Leave \/ Signals
Proot  == SyscallStop \/ SeccompStop \/ SigsysStop \/ SignalStop

Next == GuestStep \/ Kernel \/ Proot \/ Kill

Spec == Init /\ [][Next]_vars

-----------------------------------------------------------------------------
(* What the guest is promised.                                              *)

(* Calls PRoot answers without running one.                                 *)
Emulated(kind) ==
  \/ kind \in {"chdir", "getcwd", "ptrace"}
  \/ host.policy /\ kind \in {"setgroups", "getpgrp", "time", "statfs", "setresuid",
                              "set_robust_list"}

Answer(c) ==
  CASE c.refused -> "errno"
    [] ~c.refused /\ c.kind = "brk" -> "heap"
    [] ~c.refused /\ c.kind \in {"readlinkat", "getcwd"} -> "length"
    [] ~c.refused /\ c.kind \in {"chdir", "ptrace", "rename"} -> "zero"
    [] ~c.refused /\ host.policy /\ c.kind \in {"setgroups", "setresuid", "statfs"} -> "zero"
    [] ~c.refused /\ host.policy /\ c.kind = "set_robust_list" -> "enosys"
    [] ~c.refused /\ host.policy /\ c.kind = "getpgrp" -> "pgid"
    [] ~c.refused /\ host.policy /\ c.kind = "time" -> "time"
    [] OTHER -> "done"

EffectsOf(c) == IF c.refused \/ Emulated(c.kind) THEN <<>> ELSE <<Asks(c)>>

(* The cases in which the code does not keep its promises, described in the *)
(* README: a handler ran between the rewriting of a call and its execution; *)
(* the acceleration was given up on a kernel that reports SIGSYS before the *)
(* entry, or instead of the exit; newfstatat, which no table of calls has.  *)
Unpaired == s.seccomp # "enabled" /\ host.policy /\ (host.order = "old" \/ host.skipsExit)
Regular == ~mixed /\ ~Unpaired
Known(c) == c.kind \in {"stat", "lstat"} => ~host.policy

Returning == InUser /\ Current # None /\ Regular

(* The Tracee and the ghosts keep their types.                              *)
TypeOK ==
  /\ host \in AllHosts
  /\ s.status \in {"enter", "ok", "error"}
  /\ s.how = None /\ s.last \in {"cont", "syscall"}
  /\ s.seccomp \in {"enabled", "disabling", "disabled"}
  /\ s.workaround \in {"inactive", "faulty", "replaced"}
  /\ \A bank \in {s.regs, s.cur, s.original, s.modified, s.rewrite} :
        /\ bank.sp \in {"top", "handler", "scratch"}
        /\ bank.pc \in {"after", "trap"}
        /\ bank.num \in Number /\ bank.args \in [1 .. 6 -> Values]
  /\ at \in Stops \cup {"user", "entry", "filter", "exec", "leave", "signals"}
  /\ trace = s.last
  /\ frame = None => made <= MaxCalls
  /\ sigsys # None => at \in {"leave", "exit", "signals", "SIGSYS"}

(* When the guest goes on it has the result it asked for, its stack pointer *)
(* is where it was, and what it asked for was done exactly once, on the     *)
(* translated paths: whatever was rewritten, chained or re-executed.  It     *)
(* returns from a handler once.                                             *)
AnsweredOnce ==
  /\ (Returning /\ Known(Current)) =>
        /\ s.regs.args[1] = Value(Answer(Current))
        /\ Current.effects = EffectsOf(Current)
  /\ (InUser /\ Regular) => s.regs.sp = IF frame = None THEN "top" ELSE "handler"
  /\ (at = "exec" /\ s.nr = "rt_sigreturn") => frame # None

(* The kernel never runs a call on a path as the guest wrote it, which      *)
(* would leave the guest's root, nor on one that was translated twice.      *)
HostPathsOnly ==
  (at = "exec" /\ s.nr # "void" /\ s.regs.args[2] # Bad /\ Regular)
    => \A path \in PathArgs(s.nr, s.regs.args) : s.regs.args[path[1]][1] = "host"

(* PRoot pairs entries with exits: between two calls it expects an entry,   *)
(* no chain is left, and no assertion of event.c or mem.c has failed.       *)
StagesInSync ==
  /\ (InUser /\ Regular) => s.status = "enter" /\ ~s.handledEnter /\ s.chain = None
  /\ Regular => ~s.aborted

(* A call is answered after a bounded number of stops: re-executing it,     *)
(* chaining another or repairing it does not go on for ever.                *)
AnsweredInTime ==
  (Current # None /\ Regular) => (Known(Current) => Current.stops <= MaxStops)

(* A signal kept back during a chain is sent again when the chain is over.  *)
(* PRoot remembers one: a second one overwrites it.                         *)
SignalKept ==
  /\ signals.toCome + signals.pending + signals.delivered + signals.overwritten
       + (IF s.suppressed THEN 1 ELSE 0) = MaxSignals
  /\ (InUser /\ Regular) => ~s.suppressed
=============================================================================
