------------------------- MODULE ProotSyscalls_proofs -------------------------
(***************************************************************************)
(* Proofs about ProotSyscalls, for any calls of the guest, any kernel among *)
(* AllHosts, any number of calls and of signals.                            *)
(*                                                                         *)
(* A stop composes handlers that take a Tracee and return one.  The first    *)
(* parts say what each of them keeps and what it changes, from the access    *)
(* to registers up to the three stops; then each step of the system is       *)
(* shown to keep the invariant.                                             *)
(***************************************************************************)
EXTENDS ProotSyscalls, TLAPS

-----------------------------------------------------------------------------
(* What PRoot knows of the thread, and the inductive invariant.             *)

Ways == {"cont", "syscall"}

Registers == [num : Number, args : [1 .. 6 -> Values], sp : {"top", "handler", "scratch"},
              pc : {"after", "trap"}]

Tracee ==
  [status : {"enter", "ok", "error"}, how : Ways \cup {None}, last : Ways,
   seccomp : {"enabled", "disabling", "disabled"}, sysexitPending : BOOLEAN,
   handledEnter : BOOLEAN, skip : BOOLEAN, restore : BOOLEAN, restoreRewrite : BOOLEAN,
   regsChanged : BOOLEAN, chain : Seq(Request) \cup {None},
   workaround : {"inactive", "faulty", "replaced"}, suppressed : BOOLEAN,
   cur : Registers, original : Registers, modified : Registers, rewrite : Registers,
   regs : Registers, nr : Number, heap : BOOLEAN, aborted : BOOLEAN]

Heap == {"mmap", "mremap"}

Expects(x) == x.status = "enter"

ChainRight(x) ==
  /\ x.chain = None <=> x.workaround = "inactive"
  /\ x.workaround = "replaced" => x.chain = <<>>
  /\ x.workaround = "faulty" => Head(x.chain).num \in Heap /\ x.chain = <<Head(x.chain)>>

Types ==
  /\ host \in AllHosts
  /\ s \in Tracee /\ s.how = None /\ s.last = trace
  /\ at \in Stops \cup {"user", "entry", "filter", "exec", "leave", "signals"}
  /\ entryA \in Values
  /\ sigsys \in Number
  /\ sigsys # None => at \in {"leave", "exit", "signals", "SIGSYS"}
  /\ at = "SIGSYS" => sigsys # None
  /\ signals \in [toCome : Nat, pending : Nat, delivered : Nat, overwritten : Nat]
  /\ at = "signal" => signals.pending > 0
  /\ frame # None => frame.regs \in Registers /\ DOMAIN frame = {"regs", "call", "called"}
  /\ made \in Nat /\ made <= MaxCalls
  /\ mixed \in BOOLEAN

Accounted ==
  signals.toCome + signals.pending + signals.delivered + signals.overwritten
       + (IF s.suppressed THEN 1 ELSE 0) = MaxSignals

InSyscall == {"entry", "enter", "filter", "seccomp"}
Late == sigsys # None /\ host.order = "old"

ChainSafe ==
  /\ ChainRight(s)
  /\ s.suppressed => s.chain # None
  /\ s.chain # None =>
       /\ trace = "syscall" /\ sigsys = None
       /\ at \in InSyscall => s.nr \in Heap \cup {"brk"}
       /\ at \in {"user", "signals", "signal"} => s.regs.pc = "trap" /\ s.regs.num \in Heap

Retrapped ==
  /\ s.regs.pc = "trap" =>
       /\ at \in {"user", "signals", "signal", "SIGSYS"}
       /\ Expects(s)
       /\ s.chain # None \/ s.restoreRewrite
  /\ frame # None => frame.regs.pc = "after"

Paired ==
  /\ at \in {"user", "entry", "signal"} => Expects(s)
  /\ at = "signals" /\ sigsys = None => Expects(s)
  /\ at = "enter" => trace = "syscall" /\ (Expects(s) \/ s.handledEnter)
  /\ at \in {"filter", "seccomp"} =>
       IF host.order = "new" THEN Expects(s) <=> trace = "cont" ELSE Expects(s)
  /\ at = "exec" => (Expects(s) <=> trace = "cont")
  /\ at = "leave" => (Expects(s) <=> trace = "cont") \/ (Expects(s) /\ Late)
  /\ at = "exit" => ~Expects(s) \/ Late
  /\ ~Expects(s) /\ at \in {"signals", "SIGSYS"} => host.order = "old" \/ host.skipsExit
  /\ s.handledEnter => at = "enter" /\ host.order = "old" /\ ~Expects(s)

Numbered ==
  /\ at = "seccomp" => host.traced /\ s.nr \in Filtered
  /\ Expects(s) /\ at \in InSyscall => s.regs.num = s.nr
  /\ sigsys # None => host.policy
  /\ Expects(s) /\ sigsys # None /\ at \in {"leave", "exit"} =>
       s.regs.num \in Legacy \cup {"void"}

Control ==
  /\ s.seccomp \in {"enabled", "disabled"}
  /\ s.seccomp = "disabled" => trace = "syscall"
  /\ ~s.aborted
  /\ ChainSafe /\ Retrapped /\ Paired /\ Numbered

IInv == Types /\ Accounted /\ (Regular => Control)

-----------------------------------------------------------------------------
(* Registers.                                                               *)

(* y is x but for its registers, and for what is known of them.             *)
Core(x, y) ==
  /\ y \in Tracee
  /\ y.status = x.status /\ y.how = x.how /\ y.last = x.last /\ y.seccomp = x.seccomp
  /\ y.handledEnter = x.handledEnter /\ y.restore = x.restore
  /\ y.chain = x.chain /\ y.workaround = x.workaround /\ y.suppressed = x.suppressed
  /\ y.aborted = x.aborted

(* y is x but for the current values of its registers.                      *)
Poked(x, y) ==
  /\ Core(x, y)
  /\ y.restoreRewrite = x.restoreRewrite /\ y.original = x.original
  /\ y.modified = x.modified /\ y.rewrite = x.rewrite
  /\ y.regs = x.regs /\ y.nr = x.nr

(* The current values are those of the thread, or known to differ.          *)
Tracked(x) == x.regsChanged \/ x.cur = x.regs

LEMMA SetCur ==
  ASSUME NEW x \in Tracee, NEW b \in Registers
  PROVE  LET y == [x EXCEPT !.cur = b]
         IN  Poked(x, y) /\ y.cur = b /\ y.regsChanged = x.regsChanged
BY Zenon DEF Poked, Core, Tracee

LEMMA ChangeCur ==
  ASSUME NEW x \in Tracee, NEW b \in Registers
  PROVE  LET y == [x EXCEPT !.cur = b, !.regsChanged = TRUE]
         IN  Poked(x, y) /\ y.cur = b /\ y.regsChanged
BY Zenon DEF Poked, Core, Tracee

LEMMA SetNum ==
  ASSUME NEW b \in Registers, NEW n \in Number
  PROVE  LET r == [b EXCEPT !.num = n]
         IN  r \in Registers /\ r.num = n /\ r.pc = b.pc
BY Zenon DEF Registers

LEMMA SetArgs ==
  ASSUME NEW b \in Registers, NEW a \in [1 .. 6 -> Values]
  PROVE  LET r == [b EXCEPT !.args = a]
         IN  r \in Registers /\ r.num = b.num /\ r.pc = b.pc
BY Zenon DEF Registers

LEMMA SetSp ==
  ASSUME NEW b \in Registers, NEW p \in {"top", "handler", "scratch"}
  PROVE  LET r == [b EXCEPT !.sp = p]
         IN  r \in Registers /\ r.num = b.num /\ r.pc = b.pc
BY Zenon DEF Registers

LEMMA SetPc ==
  ASSUME NEW b \in Registers, NEW c \in {"after", "trap"}
  PROVE  LET r == [b EXCEPT !.pc = c]
         IN  r \in Registers /\ r.num = b.num /\ r.pc = c
BY Zenon DEF Registers

LEMMA SetArg ==
  ASSUME NEW b \in Registers, NEW v \in Values, NEW i \in 1 .. 6
  PROVE  LET r == [b EXCEPT !.args[i] = v]
         IN  r \in Registers /\ r.num = b.num /\ r.pc = b.pc
<1>1. [b.args EXCEPT ![i] = v] \in [1 .. 6 -> Values]
  BY DEF Registers
<1>2. [b EXCEPT !.args[i] = v] = [b EXCEPT !.args = [b.args EXCEPT ![i] = v]]
  OBVIOUS
<1> QED
  BY <1>1, <1>2, SetArgs

LEMMA CoreTransitive ==
  ASSUME NEW x, NEW y, NEW z, Core(x, y), Core(y, z)
  PROVE  Core(x, z)
BY DEF Core

LEMMA PokedTransitive ==
  ASSUME NEW x, NEW y, NEW z, Poked(x, y), Poked(y, z)
  PROVE  Poked(x, z)
BY DEF Core, Poked

(* A register is written to the current values.                             *)
LEMMA PokeFacts ==
  ASSUME NEW x \in Tracee, NEW b \in Registers
  PROVE  LET y == poke_reg(x, b)
         IN  /\ Poked(x, y) /\ y.cur = b
             /\ Tracked(x) => Tracked(y)
<1>1. CASE x.cur = b
  BY <1>1 DEF poke_reg, Poked, Core
<1>2. CASE x.cur # b
  BY <1>2, ChangeCur DEF poke_reg, Tracked
<1> QED
  BY <1>1, <1>2

(* The program counter and the number of the call stay.                     *)
LEMMA ResultFacts ==
  ASSUME NEW x \in Tracee, NEW name \in Results
  PROVE  LET y == poke_result(x, name)
         IN  /\ Poked(x, y)
             /\ Tracked(x) => Tracked(y)
             /\ y.cur.pc = x.cur.pc /\ y.cur.num = x.cur.num
<1> DEFINE b == [x.cur EXCEPT !.args[1] = Value(name)]
<1>1. x.cur \in Registers
  BY DEF Tracee
<1>2. Value(name) \in Values /\ 1 \in 1 .. 6
  BY DEF Values
<1>3. b \in Registers /\ b.pc = x.cur.pc /\ b.num = x.cur.num
  BY <1>1, <1>2, SetArg
<1>4. poke_result(x, name) = poke_reg(x, b)
  BY DEF poke_result
<1> HIDE DEF b
<1> QED
  BY <1>3, <1>4, PokeFacts

LEMMA SetSysnumFacts ==
  ASSUME NEW x \in Tracee, NEW n \in Numbers \cup {"newfstatat"}
  PROVE  LET y == set_sysnum(x, n)
         IN  /\ Poked(x, y)
             /\ Tracked(x) => Tracked(y)
             /\ y.cur.pc = x.cur.pc /\ y.cur.num = detranslate_sysnum(n)
<1> DEFINE b == [x.cur EXCEPT !.num = detranslate_sysnum(n)]
<1>1. x.cur \in Registers
  BY DEF Tracee
<1>2. detranslate_sysnum(n) \in Number
  <2>1. "void" \in Number
    BY DEF Number, Numbers
  <2> QED
    BY <2>1 DEF detranslate_sysnum, Number
<1>3. b \in Registers /\ b.pc = x.cur.pc /\ b.num = detranslate_sysnum(n)
  BY <1>1, <1>2, SetNum
<1>4. set_sysnum(x, n) = poke_reg(x, b)
  BY DEF set_sysnum
<1> HIDE DEF b
<1> QED
  BY <1>3, <1>4, PokeFacts

LEMMA FetchFacts ==
  ASSUME NEW x \in Tracee
  PROVE  LET y == fetch_regs(x)
         IN  Poked(x, y) /\ y.cur = x.regs /\ Tracked(y)
<1>1. x.regs \in Registers
  BY DEF Tracee
<1>2. Poked(x, fetch_regs(x)) /\ fetch_regs(x).cur = x.regs
  BY <1>1, SetCur DEF fetch_regs
<1> QED
  BY <1>2 DEF Poked, Tracked

LEMMA SetOriginal ==
  ASSUME NEW x \in Tracee, NEW b \in Registers
  PROVE  /\ Core(x, [x EXCEPT !.original = b, !.regsChanged = FALSE])
         /\ [x EXCEPT !.original = b, !.regsChanged = FALSE].cur = x.cur
         /\ [x EXCEPT !.original = b, !.regsChanged = FALSE].regs = x.regs
         /\ [x EXCEPT !.original = b, !.regsChanged = FALSE].nr = x.nr
         /\ [x EXCEPT !.original = b, !.regsChanged = FALSE].original = b
         /\ [x EXCEPT !.original = b, !.regsChanged = FALSE].restoreRewrite = x.restoreRewrite
BY Zenon DEF Core, Tracee

LEMMA SaveFacts ==
  ASSUME NEW x \in Tracee
  PROVE  LET y == save_original(x)
         IN  /\ Core(x, y) /\ y.cur = x.cur /\ y.regs = x.regs /\ y.nr = x.nr
             /\ y.original = x.cur /\ y.restoreRewrite = x.restoreRewrite
<1>1. x.cur \in Registers
  BY DEF Tracee
<1> QED
  BY <1>1, SetOriginal DEF save_original

LEMMA SetModified ==
  ASSUME NEW x \in Tracee, NEW b \in Registers
  PROVE  LET y == [x EXCEPT !.modified = b]
         IN  /\ Core(x, y) /\ y.cur = x.cur /\ y.regs = x.regs /\ y.nr = x.nr
             /\ y.original = x.original /\ y.regsChanged = x.regsChanged
             /\ y.restoreRewrite = x.restoreRewrite
BY Zenon DEF Core, Tracee

LEMMA SetRewrite ==
  ASSUME NEW x \in Tracee, NEW b \in Registers
  PROVE  LET y == [x EXCEPT !.rewrite = b]
         IN  /\ Core(x, y) /\ y.cur = x.cur /\ y.regs = x.regs /\ y.nr = x.nr
             /\ y.original = x.original /\ y.regsChanged = x.regsChanged
             /\ y.restoreRewrite = x.restoreRewrite
BY Zenon DEF Core, Tracee

LEMMA SetRestored ==
  ASSUME NEW x \in Tracee, NEW b \in Registers
  PROVE  LET y == [x EXCEPT !.cur = b, !.restoreRewrite = FALSE]
         IN  /\ Core(x, y) /\ y.cur = b /\ y.regs = x.regs /\ y.nr = x.nr
             /\ y.original = x.original /\ ~y.restoreRewrite
BY Zenon DEF Core, Tracee

(* The registers of the thread are put back, the program counter excepted.  *)
LEMMA RestoredFacts ==
  ASSUME NEW x \in Tracee
  PROVE  LET y == Restored(x)
         IN  /\ Core(x, y) /\ y.regs = x.regs /\ y.nr = x.nr
             /\ y.original = x.original /\ y.cur.pc = x.cur.pc
             /\ ~x.restore => y = x
<1>1. CASE ~x.restore
  BY <1>1 DEF Restored, Core
<1>2. CASE x.restore
  <2> DEFINE bank == IF x.restoreRewrite THEN x.rewrite ELSE x.original
             a == [bank.args EXCEPT ![1] = x.cur.args[1]]
             c == [x.cur EXCEPT !.num = bank.num, !.sp = bank.sp, !.args = a]
  <2>1. bank \in Registers /\ x.cur \in Registers
    BY DEF Tracee
  <2>2. /\ bank.num \in Number /\ bank.sp \in {"top", "handler", "scratch"}
        /\ bank.args \in [1 .. 6 -> Values] /\ x.cur.args[1] \in Values
    <3> HIDE DEF bank
    <3> QED
      BY <2>1 DEF Registers
  <2>3. a \in [1 .. 6 -> Values]
    <3> HIDE DEF bank
    <3> QED
      BY <2>2
  <2>4. c \in Registers /\ c.pc = x.cur.pc
    <3> DEFINE n == bank.num
               p == bank.sp
    <3> HIDE DEF bank, a
    <3>1. n \in Number /\ p \in {"top", "handler", "scratch"}
      BY <2>2
    <3> HIDE DEF n, p
    <3> DEFINE b == x.cur
    <3>2. b \in Registers
      BY <2>1
    <3> HIDE DEF b
    <3>3. LET r == [b EXCEPT !.num = n, !.sp = p, !.args = a]
          IN  r \in Registers /\ r.pc = b.pc
      BY <2>3, <3>1, <3>2, Zenon DEF Registers
    <3> QED
      BY <3>3 DEF n, p, b
  <2>5. Restored(x) = [x EXCEPT !.cur = c, !.restoreRewrite = FALSE]
    BY <1>2 DEF Restored
  <2> HIDE DEF c
  <2> DEFINE y == [x EXCEPT !.cur = c, !.restoreRewrite = FALSE]
  <2>6. /\ Core(x, y) /\ y.cur = c /\ y.regs = x.regs /\ y.nr = x.nr
        /\ y.original = x.original /\ ~y.restoreRewrite
    BY <2>4, SetRestored, Zenon
  <2> HIDE DEF y
  <2>7. Restored(x) = y
    BY <2>5 DEF y
  <2> QED
    BY <1>2, <2>4, <2>6, <2>7
<1> QED
  BY <1>1, <1>2

(* The current values are written to the thread.                            *)
LEMMA PushFacts ==
  ASSUME NEW x \in Tracee, NEW w \in BOOLEAN
  PROVE  LET y == push_regs(x, w)
         IN  /\ Core(x, y) /\ y.original = x.original
             /\ y.nr \in {x.nr, y.cur.num} /\ (~w => y.nr = x.nr)
             /\ y.cur.pc = x.cur.pc
             /\ (Tracked(x) /\ ~PushFails(x, w)) => y.regs = y.cur
             /\ PushFails(x, w) => y.regs = x.regs /\ y.nr = x.nr
             /\ ~x.restore => y.cur = x.cur /\ y.restoreRewrite = x.restoreRewrite
<1> DEFINE r == Restored(x)
           n == IF w /\ r.cur.num # r.original.num THEN r.cur.num ELSE r.nr
<1>1. /\ Core(x, r) /\ r.regs = x.regs /\ r.nr = x.nr
      /\ r.original = x.original /\ r.cur.pc = x.cur.pc
      /\ ~x.restore => r = x
  BY RestoredFacts
<1>2. r.cur \in Registers /\ r.cur.num \in Number /\ r.nr \in Number /\ r \in Tracee
  BY <1>1 DEF Core, Tracee, Registers
<1>3. CASE ~NeedsPush(x)
  <2>1. push_regs(x, w) = x /\ ~x.regsChanged /\ ~PushFails(x, w)
    BY <1>3 DEF push_regs, NeedsPush, PushFails
  <2> QED
    BY <2>1 DEF Core, Tracked
<1>4. CASE NeedsPush(x) /\ PushFails(x, w)
  <2>1. push_regs(x, w) = r
    BY <1>4 DEF push_regs
  <2> HIDE DEF r
  <2> QED
    BY <2>1, <1>1, <1>4
<1>5. CASE NeedsPush(x) /\ ~PushFails(x, w)
  <2>1. push_regs(x, w) = [r EXCEPT !.regs = r.cur, !.nr = n]
    BY <1>5 DEF push_regs
  <2>2. n \in Number /\ n \in {r.nr, r.cur.num} /\ (~w => n = r.nr)
    BY <1>2
  <2> DEFINE b == r.cur
  <2> HIDE DEF r, n
  <2>3. LET y == [r EXCEPT !.regs = b, !.nr = n]
        IN  /\ Core(r, y) /\ y.cur = r.cur /\ y.regs = b /\ y.nr = n
            /\ y.original = r.original /\ y.restoreRewrite = r.restoreRewrite
    <3>1. r \in Tracee /\ b \in Registers /\ n \in Number
      BY <1>2, <2>2
    <3> HIDE DEF b
    <3> QED
      BY <3>1, Zenon DEF Core, Tracee
  <2>4. Core(x, push_regs(x, w))
    BY <2>1, <2>3, <1>1, CoreTransitive
  <2> QED
    BY <2>1, <2>2, <2>3, <2>4, <1>1, <1>5
<1> QED
  BY <1>3, <1>4, <1>5

LEMMA SetAborted ==
  ASSUME NEW x \in Tracee, NEW v \in BOOLEAN
  PROVE  LET y == [x EXCEPT !.aborted = v]
         IN  /\ v = x.aborted => Poked(x, y)
             /\ y \in Tracee /\ y.cur = x.cur /\ y.regsChanged = x.regsChanged
             /\ y.regs = x.regs
BY Zenon DEF Core, Poked, Tracee

(* At the entry of a call there is room below the stack pointer.            *)
LEMMA AllocFacts ==
  ASSUME NEW x \in Tracee, x.status = "enter"
  PROVE  LET y == alloc_mem(x)
         IN  /\ Poked(x, y)
             /\ Tracked(x) => Tracked(y)
             /\ y.cur.pc = x.cur.pc /\ y.cur.num = x.cur.num
<1> DEFINE b == [x.cur EXCEPT !.sp = "scratch"]
           z == poke_reg(x, b)
<1>1. b \in Registers /\ b.num = x.cur.num /\ b.pc = x.cur.pc
  <2>1. x.cur \in Registers /\ "scratch" \in {"top", "handler", "scratch"}
    BY DEF Tracee
  <2> QED
    BY <2>1, SetSp
<1> HIDE DEF b
<1>2. Poked(x, z) /\ z.cur = b /\ (Tracked(x) => Tracked(z))
  BY <1>1, PokeFacts
<1>3. z \in Tracee /\ z.aborted \in BOOLEAN
  BY <1>2 DEF Poked, Core, Tracee
<1>4. alloc_mem(x) = [z EXCEPT !.aborted = z.aborted]
  <2>1. alloc_mem(x) = [z EXCEPT !.aborted = z.aborted \/ x.status # "enter"]
    BY Zenon DEF alloc_mem, b
  <2>2. (z.aborted \/ x.status # "enter") = z.aborted
    <3> HIDE DEF z
    <3> QED
      BY <1>3, Zenon
  <2> HIDE DEF z
  <2> QED
    BY <2>1, <2>2, Zenon
<1> HIDE DEF z
<1>5. /\ Poked(z, alloc_mem(x)) /\ alloc_mem(x).cur = z.cur
      /\ alloc_mem(x).regsChanged = z.regsChanged /\ alloc_mem(x).regs = z.regs
  BY <1>3, <1>4, SetAborted, Zenon
<1> QED
  BY <1>1, <1>2, <1>5, PokedTransitive DEF Tracked

-----------------------------------------------------------------------------
(* Forbidden calls.                                                         *)

LEMMA SixValues ==
  ASSUME NEW a, NEW b, NEW c, NEW d, NEW e, NEW f,
         {a, b, c, d, e, f} \subseteq Values
  PROVE  <<a, b, c, d, e, f>> \in [1 .. 6 -> Values]
OBVIOUS

LEMMA Constants ==
  /\ Cwd \in Values /\ Zero \in Values /\ Nofollow \in Values /\ Removedir \in Values
  /\ Bad \in Values /\ Twice \in Values
  /\ \A i \in 1 .. 6 : Scratch(i) \in Values /\ Guest(i) \in Values
  /\ \A name \in Results : Value(name) \in Values
BY DEF Values

LEMMA AtCallFacts ==
  ASSUME NEW num \in AtCalls, NEW a \in [1 .. 6 -> Values]
  PROVE  /\ AtCall(num, a)[1] \in Numbers \cup {"newfstatat"}
         /\ AtCall(num, a)[2] \in [1 .. 6 -> Values]
<1>1. /\ a[1] \in Values /\ a[2] \in Values /\ a[3] \in Values /\ a[4] \in Values
      /\ a[5] \in Values /\ a[6] \in Values
  OBVIOUS
<1>2. AtCall(num, a)[2] \in [1 .. 6 -> Values]
  BY <1>1, Constants, SixValues DEF AtCall, AtCalls
<1>3. AtCall(num, a)[1] \in Numbers \cup {"newfstatat"}
  BY DEF AtCall, AtCalls, Numbers, AllKinds
<1> QED
  BY <1>2, <1>3

LEMMA WiderCallFacts ==
  ASSUME NEW num \in WiderCalls, NEW a \in [1 .. 6 -> Values]
  PROVE  /\ WiderCall(num, a)[1] \in Numbers \cup {"newfstatat"}
         /\ WiderCall(num, a)[2] \in [1 .. 6 -> Values]
<1>1. /\ a[1] \in Values /\ a[2] \in Values /\ a[3] \in Values /\ a[4] \in Values
      /\ a[5] \in Values /\ a[6] \in Values
  OBVIOUS
<1>2. WiderCall(num, a)[2] \in [1 .. 6 -> Values]
  BY <1>1, Constants, SixValues DEF WiderCall, WiderCalls
<1>3. WiderCall(num, a)[1] \in Numbers \cup {"newfstatat"}
  BY DEF WiderCall, WiderCalls, Numbers, AllKinds
<1> QED
  BY <1>2, <1>3

LEMMA TimeCallFacts ==
  ASSUME NEW num \in TimeCalls, NEW a \in [1 .. 6 -> Values]
  PROVE  /\ TimeCall(num, a)[1] \in Numbers \cup {"newfstatat"}
         /\ TimeCall(num, a)[2] \in [1 .. 6 -> Values]
<1>1. /\ a[1] \in Values /\ a[2] \in Values /\ a[3] \in Values /\ a[4] \in Values
      /\ a[5] \in Values /\ a[6] \in Values
  OBVIOUS
<1>2. TimeCall(num, a)[2] \in [1 .. 6 -> Values]
  BY <1>1, Constants, SixValues DEF TimeCall, TimeCalls
<1>3. TimeCall(num, a)[1] \in Numbers \cup {"newfstatat"}
  BY DEF TimeCall, TimeCalls, Numbers, AllKinds
<1> QED
  BY <1>2, <1>3

LEMMA RewrittenFacts ==
  ASSUME NEW num \in AtCalls \cup WiderCalls \cup TimeCalls, NEW a \in [1 .. 6 -> Values]
  PROVE  /\ detranslate_sysnum(Rewritten(num, a)[1]) \in Number
         /\ Rewritten(num, a)[2] \in [1 .. 6 -> Values]
<1> DEFINE r == Rewritten(num, a)
<1>1. r[1] \in Numbers \cup {"newfstatat"} /\ r[2] \in [1 .. 6 -> Values]
  <2>1. CASE num \in AtCalls
    <3>1. r = AtCall(num, a)
      BY <2>1 DEF Rewritten, AtCalls, WiderCalls, TimeCalls
    <3> QED
      BY <2>1, <3>1, AtCallFacts
  <2>2. CASE num \in WiderCalls
    <3>1. r = WiderCall(num, a)
      BY <2>2 DEF Rewritten, AtCalls, WiderCalls, TimeCalls
    <3> QED
      BY <2>2, <3>1, WiderCallFacts
  <2>3. CASE num \in TimeCalls
    <3>1. r = TimeCall(num, a)
      BY <2>3 DEF Rewritten, AtCalls, WiderCalls, TimeCalls
    <3> QED
      BY <2>3, <3>1, TimeCallFacts
  <2> QED
    BY <2>1, <2>2, <2>3
<1> HIDE DEF r
<1>2. "void" \in Number
  BY DEF Number, Numbers
<1>3. detranslate_sysnum(r[1]) \in Number
  BY <1>1, <1>2 DEF detranslate_sysnum, Number
<1> QED
  BY <1>1, <1>3 DEF r

(* Fields other than the registers.                                         *)

(* y is x but for its registers, and PRoot may have asked for the next stop *)
(* and for the rewritten registers to be put back.                          *)
Answered(x, y) ==
  /\ y \in Tracee
  /\ y.status = x.status /\ y.last = x.last /\ y.seccomp = x.seccomp
  /\ y.how \in {x.how, "syscall"}
  /\ y.handledEnter = x.handledEnter /\ y.restore = x.restore
  /\ y.chain = x.chain /\ y.workaround = x.workaround /\ y.suppressed = x.suppressed
  /\ y.aborted = x.aborted
  /\ y.nr = x.nr
  /\ x.restoreRewrite => y.restoreRewrite
  /\ y.regs = y.cur
  /\ y.regs.pc = "trap" => y.restoreRewrite \/ x.cur.pc = "trap"

LEMMA SetRetrap ==
  ASSUME NEW x \in Tracee
  PROVE  LET y == [x EXCEPT !.restoreRewrite = TRUE, !.how = "syscall"]
         IN  /\ y \in Tracee
             /\ y.status = x.status /\ y.last = x.last /\ y.seccomp = x.seccomp
             /\ y.how = "syscall"
             /\ y.handledEnter = x.handledEnter /\ y.restore = x.restore
             /\ y.chain = x.chain /\ y.workaround = x.workaround
             /\ y.suppressed = x.suppressed /\ y.aborted = x.aborted
             /\ y.nr = x.nr /\ y.restoreRewrite
             /\ y.cur = x.cur /\ y.regs = x.regs /\ y.regsChanged = x.regsChanged
<1> "syscall" \in Ways \cup {None}
  BY DEF Ways
<1> QED
  BY Zenon DEF Tracee

(* The thread is sent back to the trap instruction.                         *)
LEMMA RetrapFacts ==
  ASSUME NEW x \in Tracee, ~x.restore, Tracked(x)
  PROVE  /\ Answered(x, restart_syscall_after_seccomp(x))
         /\ restart_syscall_after_seccomp(x).restoreRewrite
<1> DEFINE y == [x EXCEPT !.restoreRewrite = TRUE, !.how = "syscall"]
           b == [x.cur EXCEPT !.pc = "trap"]
           z == poke_reg(y, b)
           w == push_regs(z, FALSE)
<1>1. restart_syscall_after_seccomp(x) = w
  BY DEF restart_syscall_after_seccomp
<1>2. b \in Registers
  <2>1. x.cur \in Registers /\ "trap" \in {"after", "trap"}
    BY DEF Tracee
  <2> QED
    BY <2>1, SetPc, Zenon
<1>3. /\ y \in Tracee
      /\ y.status = x.status /\ y.last = x.last /\ y.seccomp = x.seccomp
      /\ y.how = "syscall"
      /\ y.handledEnter = x.handledEnter /\ y.restore = x.restore
      /\ y.chain = x.chain /\ y.workaround = x.workaround
      /\ y.suppressed = x.suppressed /\ y.aborted = x.aborted
      /\ y.nr = x.nr /\ y.restoreRewrite
      /\ y.cur = x.cur /\ y.regs = x.regs /\ y.regsChanged = x.regsChanged
  BY SetRetrap
<1> HIDE DEF y, b
<1>4. Poked(y, z) /\ z.cur = b /\ (Tracked(y) => Tracked(z))
  BY <1>2, <1>3, PokeFacts
<1>5. Tracked(z) /\ z \in Tracee /\ ~z.restore /\ z.restoreRewrite
  BY <1>3, <1>4 DEF Tracked, Poked, Core
<1>6. ~PushFails(z, FALSE)
  BY DEF PushFails
<1> HIDE DEF z
<1>7. /\ Core(z, w) /\ w.nr = z.nr /\ w.regs = w.cur /\ w.cur = z.cur
      /\ w.restoreRewrite = z.restoreRewrite
  BY <1>5, <1>6, PushFacts
<1> HIDE DEF w
<1> QED
  BY <1>1, <1>3, <1>4, <1>5, <1>7 DEF Answered, Core, Poked

(* The thread goes on with a result.                                        *)
LEMMA SetResultFacts ==
  ASSUME NEW x \in Tracee, NEW name \in Results, ~x.restore, Tracked(x)
  PROVE  Answered(x, set_result_after_seccomp(x, name))
<1> DEFINE z == poke_result(x, name)
           w == push_regs(z, FALSE)
<1>1. set_result_after_seccomp(x, name) = w
  BY DEF set_result_after_seccomp
<1>2. Poked(x, z) /\ Tracked(z) /\ z.cur.pc = x.cur.pc
  BY ResultFacts
<1>3. z \in Tracee /\ ~z.restore
  BY <1>2 DEF Poked, Core
<1>4. ~PushFails(z, FALSE)
  BY DEF PushFails
<1> HIDE DEF z
<1>5. /\ Core(z, w) /\ w.nr = z.nr /\ w.regs = w.cur /\ w.cur = z.cur
      /\ w.restoreRewrite = z.restoreRewrite
  BY <1>2, <1>3, <1>4, PushFacts
<1> HIDE DEF w
<1> QED
  BY <1>1, <1>2, <1>5 DEF Answered, Core, Poked

LEMMA SigsysResultFacts ==
  ASSUME NEW num
  PROVE  SigsysResult(num) \in Results
BY DEF SigsysResult, Results

LEMMA AnsweredByPoke ==
  ASSUME NEW x, NEW y, NEW z, Poked(x, y), y.cur.pc = x.cur.pc, Answered(y, z)
  PROVE  Answered(x, z)
BY DEF Answered, Poked, Core

LEMMA HandleCommonFacts ==
  ASSUME NEW x \in Tracee, x.status = "enter", ~x.restore, Tracked(x)
  PROVE  Answered(x, handle_seccomp_event_common(x))
<1> DEFINE num == x.cur.num
           new == Rewritten(num, x.cur.args)
           y == IF num \in TimeCalls THEN alloc_mem(x) ELSE x
           n == detranslate_sysnum(new[1])
           b == [y.cur EXCEPT !.num = n, !.args = new[2]]
           z == poke_reg(y, b)
<1>1. CASE num \in AtCalls \cup WiderCalls \cup TimeCalls
  <2>1. x.cur.args \in [1 .. 6 -> Values]
    BY DEF Tracee, Registers
  <2>2. n \in Number /\ new[2] \in [1 .. 6 -> Values]
    BY <1>1, <2>1, RewrittenFacts
  <2>3. Poked(x, y) /\ Tracked(y) /\ y.cur.pc = x.cur.pc
    <3>1. CASE num \in TimeCalls
      BY <3>1, AllocFacts
    <3>2. CASE num \notin TimeCalls
      BY <3>2 DEF Poked, Core
    <3> QED
      BY <3>1, <3>2
  <2>4. handle_seccomp_event_common(x) = restart_syscall_after_seccomp(z)
    BY <1>1 DEF handle_seccomp_event_common
  <2>5. b \in Registers /\ b.pc = y.cur.pc
    <3> DEFINE c == y.cur
               a == new[2]
    <3>1. c \in Registers
      BY <2>3 DEF Poked, Core, Tracee
    <3> HIDE DEF n, new, y, c, a
    <3>2. n \in Number /\ a \in [1 .. 6 -> Values]
      BY <2>2 DEF a
    <3>3. [c EXCEPT !.num = n, !.args = a] \in Registers
      BY <3>1, <3>2, Zenon DEF Registers
    <3>4. [c EXCEPT !.num = n, !.args = a].pc = c.pc
      BY <3>1, <3>2, Zenon DEF Registers
    <3> QED
      BY <3>3, <3>4 DEF c, a
  <2> HIDE DEF y, b
  <2>6. Poked(y, z) /\ z.cur = b /\ Tracked(z)
    BY <2>3, <2>5, PokeFacts DEF Poked, Core
  <2>7. z \in Tracee /\ ~z.restore
    BY <2>3, <2>6 DEF Poked, Core
  <2> HIDE DEF z
  <2>8. Answered(z, restart_syscall_after_seccomp(z))
    BY <2>6, <2>7, RetrapFacts
  <2>9. Poked(x, z) /\ z.cur.pc = x.cur.pc
    BY <2>3, <2>5, <2>6, PokedTransitive
  <2> QED
    BY <2>4, <2>8, <2>9, AnsweredByPoke
<1>2. CASE num \notin AtCalls \cup WiderCalls \cup TimeCalls
  <2>1. handle_seccomp_event_common(x) = set_result_after_seccomp(x, SigsysResult(num))
    BY <1>2 DEF handle_seccomp_event_common
  <2> QED
    BY <2>1, SigsysResultFacts, SetResultFacts
<1> QED
  BY <1>1, <1>2

(* y is x but for its registers, after a call was answered at its end or in *)
(* the place of the kernel: PRoot expects an entry.                         *)
Ended(x, y) ==
  /\ y \in Tracee
  /\ y.status = "enter" /\ y.last = x.last /\ y.seccomp = x.seccomp
  /\ y.how \in {x.how, "syscall"}
  /\ y.handledEnter = x.handledEnter
  /\ y.chain = x.chain /\ y.workaround = x.workaround /\ y.suppressed = x.suppressed
  /\ y.aborted = x.aborted
  /\ y.nr = x.nr
  /\ ~y.restore
  /\ x.restoreRewrite => y.restoreRewrite
  /\ y.regs = y.cur

LEMMA SetExpecting ==
  ASSUME NEW x \in Tracee
  PROVE  LET y == [x EXCEPT !.status = "enter", !.restore = FALSE]
         IN  /\ y \in Tracee
             /\ y.status = "enter" /\ y.last = x.last /\ y.seccomp = x.seccomp
             /\ y.how = x.how /\ y.handledEnter = x.handledEnter /\ ~y.restore
             /\ y.chain = x.chain /\ y.workaround = x.workaround
             /\ y.suppressed = x.suppressed /\ y.aborted = x.aborted
             /\ y.nr = x.nr /\ y.restoreRewrite = x.restoreRewrite
             /\ y.regs = x.regs
BY Zenon DEF Tracee

(* SIGSYS: a forbidden call is rewritten or answered.                       *)
LEMMA HandleFacts ==
  ASSUME NEW x \in Tracee
  PROVE  LET y == handle_seccomp_event(x)
         IN  /\ Ended(x, y)
             /\ y.regs.pc = "trap" => y.restoreRewrite \/ x.regs.pc = "trap"
<1> DEFINE u == [x EXCEPT !.status = "enter", !.restore = FALSE]
           v == fetch_regs(u)
           b == v.cur
           w == [v EXCEPT !.rewrite = b]
           y == handle_seccomp_event_common(w)
<1>1. handle_seccomp_event(x) = y
  BY DEF handle_seccomp_event
<1>2. /\ u \in Tracee
      /\ u.status = "enter" /\ u.last = x.last /\ u.seccomp = x.seccomp
      /\ u.how = x.how /\ u.handledEnter = x.handledEnter /\ ~u.restore
      /\ u.chain = x.chain /\ u.workaround = x.workaround
      /\ u.suppressed = x.suppressed /\ u.aborted = x.aborted
      /\ u.nr = x.nr /\ u.restoreRewrite = x.restoreRewrite
      /\ u.regs = x.regs
  BY SetExpecting
<1> HIDE DEF u
<1>3. Poked(u, v) /\ v.cur = u.regs /\ Tracked(v)
  BY <1>2, FetchFacts
<1>4. v \in Tracee /\ b \in Registers
  BY <1>3 DEF Poked, Core, Tracee
<1> HIDE DEF v, b
<1>5. /\ Core(v, w) /\ w.cur = v.cur /\ w.regs = v.regs /\ w.nr = v.nr
      /\ w.original = v.original /\ w.regsChanged = v.regsChanged
      /\ w.restoreRewrite = v.restoreRewrite
  BY <1>4, SetRewrite, Zenon
<1>6. w \in Tracee /\ w.status = "enter" /\ ~w.restore /\ Tracked(w)
  BY <1>2, <1>3, <1>5 DEF Poked, Core, Tracked
<1> HIDE DEF w
<1>7. Answered(w, y)
  BY <1>6, HandleCommonFacts
<1> HIDE DEF y
<1> QED
  BY <1>1, <1>2, <1>3, <1>5, <1>6, <1>7 DEF Ended, Answered, Poked, Core

LEMMA SetEnosys ==
  ASSUME NEW x \in Tracee, NEW b \in Registers
  PROVE  LET y == [x EXCEPT !.status = "enter", !.restore = FALSE, !.cur = b, !.rewrite = b]
         IN  /\ y \in Tracee
             /\ y.status = "enter" /\ y.last = x.last /\ y.seccomp = x.seccomp
             /\ y.how = x.how /\ y.handledEnter = x.handledEnter /\ ~y.restore
             /\ y.chain = x.chain /\ y.workaround = x.workaround
             /\ y.suppressed = x.suppressed /\ y.aborted = x.aborted
             /\ y.nr = x.nr /\ y.restoreRewrite = x.restoreRewrite
             /\ y.regs = x.regs /\ y.cur = b
BY Zenon DEF Tracee

(* A call the kernel lacks is rewritten, at its end.                        *)
LEMMA FixFacts ==
  ASSUME NEW x \in Tracee, x.original.num = "utime"
  PROVE  LET y == fix_and_restart_enosys_syscall(x)
         IN  Ended(x, y) /\ y.restoreRewrite
<1> DEFINE o == x.original
           w == [x EXCEPT !.status = "enter", !.restore = FALSE, !.cur = o, !.rewrite = o]
           new == Rewritten("utime", w.cur.args)
           y == alloc_mem(w)
           a == new[2]
           b == [y.cur EXCEPT !.num = "utimensat", !.args = a]
           z == poke_reg(y, b)
           r == restart_syscall_after_seccomp(z)
<1>1. o \in Registers
  BY DEF Tracee
<1>2. /\ w \in Tracee
      /\ w.status = "enter" /\ w.last = x.last /\ w.seccomp = x.seccomp
      /\ w.how = x.how /\ w.handledEnter = x.handledEnter /\ ~w.restore
      /\ w.chain = x.chain /\ w.workaround = x.workaround
      /\ w.suppressed = x.suppressed /\ w.aborted = x.aborted
      /\ w.nr = x.nr /\ w.restoreRewrite = x.restoreRewrite
      /\ w.regs = x.regs /\ w.cur = o
  <2> HIDE DEF o
  <2> QED
    BY <1>1, SetEnosys, Zenon
<1>3. fix_and_restart_enosys_syscall(x) = handle_seccomp_event_common(w)
  BY DEF fix_and_restart_enosys_syscall
<1>4. w.cur.num = "utime"
  BY <1>2
<1> HIDE DEF w
<1>5. new[1] = "utimensat"
  BY DEF Rewritten, TimeCall, AtCalls, WiderCalls, TimeCalls
<1>6. handle_seccomp_event_common(w) = r
  <2>1. detranslate_sysnum(new[1]) = "utimensat"
    BY <1>5 DEF detranslate_sysnum
  <2>2. "utime" \in TimeCalls
    BY DEF TimeCalls
  <2> QED
    BY <1>4, <2>1, <2>2 DEF handle_seccomp_event_common
<1>7. a \in [1 .. 6 -> Values]
  <2>1. w.cur.args \in [1 .. 6 -> Values]
    BY <1>2 DEF Tracee, Registers
  <2>2. "utime" \in AtCalls \cup WiderCalls \cup TimeCalls
    BY DEF TimeCalls
  <2> QED
    BY <2>1, <2>2, RewrittenFacts
<1>8. Poked(w, y) /\ y.cur.num = "utime"
  BY <1>2, <1>4, AllocFacts
<1>9. b \in Registers /\ b.num = "utimensat"
  <2> DEFINE c == y.cur
             n == "utimensat"
  <2>1. c \in Registers /\ n \in Number
    BY <1>8 DEF Poked, Core, Tracee, Number, Numbers
  <2> HIDE DEF y, a, c, n
  <2>2. [c EXCEPT !.num = n, !.args = a] \in Registers
    BY <1>7, <2>1, Zenon DEF Registers
  <2>3. [c EXCEPT !.num = n, !.args = a].num = n
    BY <1>7, <2>1, Zenon DEF Registers
  <2> QED
    BY <2>2, <2>3 DEF c, n
<1> HIDE DEF y, b
<1>10. Poked(y, z) /\ z.cur = b /\ z.regsChanged
  <2>1. Poked(y, z) /\ z.cur = b
    BY <1>8, <1>9, PokeFacts DEF Poked, Core
  <2>2. z = [y EXCEPT !.cur = b, !.regsChanged = TRUE]
    BY <1>8, <1>9 DEF poke_reg
  <2>3. y \in Tracee
    BY <1>8 DEF Poked, Core
  <2>4. z.regsChanged
    BY <1>9, <2>2, <2>3, ChangeCur
  <2> QED
    BY <2>1, <2>4
<1>11. z \in Tracee /\ ~z.restore /\ Tracked(z)
  BY <1>2, <1>8, <1>10 DEF Poked, Core, Tracked
<1> HIDE DEF z
<1>12. Answered(z, r) /\ r.restoreRewrite
  BY <1>11, RetrapFacts
<1> HIDE DEF r
<1> QED
  BY <1>2, <1>3, <1>6, <1>8, <1>10, <1>12 DEF Ended, Answered, Poked, Core

-----------------------------------------------------------------------------
(* The entry of a call.                                                     *)

LEMMA TranslatedFacts ==
  ASSUME NEW paths, NEW a \in [1 .. 6 -> Values]
  PROVE  Translated(paths, a) \in [1 .. 6 -> Values]
<1> SUFFICES ASSUME NEW i \in 1 .. 6,
                    a[i][1] = "guest"
             PROVE  HostPath(a[i][2], <<i, TRUE>> \in paths) \in Values
  BY Constants DEF Translated
<1>1. a[i] \in Values
  OBVIOUS
<1>2. PICK j \in 1 .. 6 : a[i] = Guest(j)
  BY <1>1 DEF Values, Guest, HostPath, Scratch, Twice, Cwd, Zero, Nofollow, Removedir, Bad,
              Value, Results
<1>3. a[i][2] = j
  BY <1>2 DEF Guest
<1> DEFINE follow == <<i, TRUE>> \in paths
<1>4. follow \in BOOLEAN
  OBVIOUS
<1> HIDE DEF follow
<1>5. HostPath(j, follow) \in Values
  BY <1>4 DEF Values
<1> QED
  BY <1>3, <1>5 DEF follow

(* What the entry changes in the registers, with the number of the call.    *)
LEMMA TranslateEnterFacts ==
  ASSUME NEW x \in Tracee, x.status = "enter", Tracked(x), x.cur.num = x.original.num
  PROVE  LET y == translate_syscall_enter(x)
         IN  /\ Poked(x, y) /\ Tracked(y)
             /\ y.cur.pc = x.cur.pc
             /\ \/ y.cur.num \in {x.cur.num, "void"}
                \/ x.cur.num = "brk" /\ y.cur.num \in Heap
<1> DEFINE num == x.original.num
           paths == PathArgs(num, x.cur.args)
           y == alloc_mem(x)
           t == translate_syscall_enter(x)
<1>0. num \in {"chdir", "getcwd", "ptrace", "brk", "accept", "accept4"} => paths = {}
  BY DEF PathArgs
<1>1. CASE num \in {"chdir", "getcwd", "ptrace"}
  <2>1. t = set_sysnum(x, "void")
    BY <1>0, <1>1 DEF translate_syscall_enter
  <2>2. "void" \in Numbers /\ detranslate_sysnum("void") = "void"
    BY DEF Numbers, detranslate_sysnum
  <2> QED
    BY <2>1, <2>2, SetSysnumFacts
<1>2. CASE num = "brk"
  <2> DEFINE n == IF x.heap THEN "mremap" ELSE "mmap"
             a == [i \in 1 .. 6 |-> Value("heap")]
             b == [x.cur EXCEPT !.num = n, !.args = a]
             c == x.cur
  <2>1. t = poke_reg(x, b)
    BY <1>0, <1>2 DEF translate_syscall_enter, translate_brk_enter
  <2>2. n \in Heap /\ n \in Number /\ c \in Registers
    BY DEF Heap, Number, Numbers, Tracee
  <2>3. a \in [1 .. 6 -> Values]
    BY Constants DEF Results
  <2> HIDE DEF n, a, c
  <2>4. [c EXCEPT !.num = n, !.args = a] \in Registers
    BY <2>2, <2>3, Zenon DEF Registers
  <2>5. [c EXCEPT !.num = n, !.args = a].num = n
    BY <2>2, <2>3, Zenon DEF Registers
  <2>6. [c EXCEPT !.num = n, !.args = a].pc = c.pc
    BY <2>2, <2>3, Zenon DEF Registers
  <2>7. b \in Registers /\ b.num = n /\ b.pc = x.cur.pc
    BY <2>4, <2>5, <2>6 DEF c
  <2> HIDE DEF b
  <2> QED
    BY <1>2, <2>1, <2>2, <2>7, PokeFacts
<1>3. CASE num \in {"accept", "accept4"}
  <2> DEFINE v == Value("size")
             b == [x.cur EXCEPT !.args[6] = v]
             c == x.cur
  <2>1. t = poke_reg(x, b)
    BY <1>0, <1>3 DEF translate_syscall_enter
  <2>2. v \in Values /\ 6 \in 1 .. 6 /\ c \in Registers
    BY Constants DEF Results, Tracee
  <2> HIDE DEF v, c
  <2>3. [c EXCEPT !.args[6] = v] \in Registers /\ [c EXCEPT !.args[6] = v].num = c.num
        /\ [c EXCEPT !.args[6] = v].pc = c.pc
    BY <2>2, SetArg, Zenon
  <2>4. b \in Registers /\ b.num = x.cur.num /\ b.pc = x.cur.pc
    BY <2>3 DEF c
  <2> HIDE DEF b
  <2> QED
    BY <2>1, <2>4, PokeFacts
<1>4. CASE num \notin {"chdir", "getcwd", "ptrace", "brk", "accept", "accept4"} /\ paths # {}
  <2> DEFINE a == Translated(paths, y.cur.args)
             b == [y.cur EXCEPT !.args = a]
             c == y.cur
             z == poke_reg(y, b)
  <2>1. t = z
    BY <1>4 DEF translate_syscall_enter
  <2>2. Poked(x, y) /\ Tracked(y) /\ y.cur.pc = x.cur.pc /\ y.cur.num = x.cur.num
    BY AllocFacts
  <2>3. c \in Registers /\ y.cur.args \in [1 .. 6 -> Values] /\ y \in Tracee
    BY <2>2 DEF Poked, Core, Tracee, Registers
  <2>4. a \in [1 .. 6 -> Values]
    BY <2>3, TranslatedFacts
  <2> HIDE DEF y, a, c
  <2>5. [c EXCEPT !.args = a] \in Registers /\ [c EXCEPT !.args = a].num = c.num
        /\ [c EXCEPT !.args = a].pc = c.pc
    BY <2>3, <2>4, SetArgs, Zenon
  <2>6. b \in Registers /\ b.num = y.cur.num /\ b.pc = y.cur.pc
    BY <2>5 DEF c
  <2> HIDE DEF b
  <2>7. Poked(y, z) /\ z.cur = b /\ Tracked(z)
    BY <2>2, <2>3, <2>6, PokeFacts
  <2> HIDE DEF z
  <2>8. Poked(x, z)
    BY <2>2, <2>7, PokedTransitive
  <2> QED
    BY <2>1, <2>2, <2>6, <2>7, <2>8
<1>5. CASE num \notin {"chdir", "getcwd", "ptrace", "brk", "accept", "accept4"} /\ paths = {}
  <2>1. t = x
    BY <1>5 DEF translate_syscall_enter
  <2> QED
    BY <2>1 DEF Poked, Core
<1> QED
  BY <1>1, <1>2, <1>3, <1>4, <1>5

(* y is x but for the current registers, the original ones, and what PRoot  *)
(* expects next.                                                            *)
Staged(x, y) ==
  /\ y \in Tracee
  /\ y.last = x.last /\ y.seccomp = x.seccomp /\ y.handledEnter = x.handledEnter
  /\ y.chain = x.chain /\ y.workaround = x.workaround /\ y.suppressed = x.suppressed
  /\ y.aborted = x.aborted
  /\ y.restoreRewrite = x.restoreRewrite /\ y.regs = x.regs /\ y.nr = x.nr

LEMMA StagedTransitive ==
  ASSUME NEW x, NEW y, NEW z, Staged(x, y), Staged(y, z)
  PROVE  Staged(x, z)
BY DEF Staged

LEMMA PokedStaged ==
  ASSUME NEW x, NEW y, Poked(x, y)
  PROVE  Staged(x, y) /\ y.status = x.status /\ y.how = x.how /\ y.restore = x.restore
         /\ y.original = x.original
BY DEF Staged, Poked, Core

LEMMA SetStatus ==
  ASSUME NEW x \in Tracee, NEW v \in {"enter", "ok", "error"}
  PROVE  LET y == [x EXCEPT !.status = v]
         IN  /\ Staged(x, y) /\ y.status = v /\ y.how = x.how /\ y.restore = x.restore
             /\ y.original = x.original /\ y.cur = x.cur /\ y.regsChanged = x.regsChanged
BY Zenon DEF Staged, Tracee

LEMMA SetPassed ==
  ASSUME NEW x \in Tracee
  PROVE  LET y == [x EXCEPT !.how = "syscall", !.status = "ok"]
         IN  /\ Staged(x, y) /\ y.status = "ok" /\ y.how = "syscall" /\ y.restore = x.restore
             /\ y.original = x.original /\ y.cur = x.cur /\ y.regsChanged = x.regsChanged
<1> "syscall" \in Ways \cup {None}
  BY DEF Ways
<1> QED
  BY Zenon DEF Staged, Tracee

LEMMA SetRestore ==
  ASSUME NEW x \in Tracee, NEW v \in BOOLEAN
  PROVE  LET y == [x EXCEPT !.restore = v]
         IN  /\ Staged(x, y) /\ y.status = x.status /\ y.how = x.how /\ y.restore = v
             /\ y.original = x.original /\ y.cur = x.cur /\ y.regsChanged = x.regsChanged
BY Zenon DEF Staged, Tracee

(* The exit is not asked for: the stack pointer is put back at once.        *)
LEMMA WithoutExitFacts ==
  ASSUME NEW x \in Tracee, x.status # "enter", x.how \in Ways, Tracked(x)
  PROVE  LET y == IF x.how = "cont"
                    THEN poke_reg([x EXCEPT !.status = "enter"],
                                  [x.cur EXCEPT !.sp = x.original.sp])
                    ELSE x
         IN  /\ Staged(x, y) /\ Tracked(y) /\ y.how = x.how /\ y.restore = x.restore
             /\ y.status = "enter" <=> y.how = "cont"
             /\ y.original = x.original
             /\ y.cur.num = x.cur.num /\ y.cur.pc = x.cur.pc
<1>1. CASE x.how # "cont"
  BY <1>1 DEF Staged
<1>2. CASE x.how = "cont"
  <2> DEFINE w == [x EXCEPT !.status = "enter"]
             c == x.cur
             p == x.original.sp
             b == [x.cur EXCEPT !.sp = p]
             y == poke_reg(w, b)
  <2>1. c \in Registers /\ p \in {"top", "handler", "scratch"}
    BY DEF Tracee, Registers
  <2>2. /\ Staged(x, w) /\ w.status = "enter" /\ w.how = x.how /\ w.restore = x.restore
        /\ w.original = x.original /\ w.cur = x.cur /\ w.regsChanged = x.regsChanged
    BY SetStatus
  <2> HIDE DEF w, c, p
  <2>3. [c EXCEPT !.sp = p] \in Registers /\ [c EXCEPT !.sp = p].num = c.num
        /\ [c EXCEPT !.sp = p].pc = c.pc
    BY <2>1, SetSp, Zenon
  <2>4. b \in Registers /\ b.num = x.cur.num /\ b.pc = x.cur.pc
    BY <2>3 DEF c
  <2> HIDE DEF b
  <2>5. w \in Tracee /\ Tracked(w)
    BY <2>2 DEF Staged, Tracked
  <2>6. Poked(w, y) /\ y.cur = b /\ Tracked(y)
    BY <2>4, <2>5, PokeFacts
  <2> HIDE DEF y
  <2>7. /\ Staged(w, y) /\ y.status = w.status /\ y.how = w.how /\ y.restore = w.restore
        /\ y.original = w.original
    BY <2>6, PokedStaged
  <2>8. Staged(x, y)
    BY <2>2, <2>7, StagedTransitive
  <2>9. /\ Staged(x, y) /\ Tracked(y) /\ y.how = x.how /\ y.restore = x.restore
        /\ y.status = "enter" <=> y.how = "cont"
        /\ y.original = x.original
        /\ y.cur.num = x.cur.num /\ y.cur.pc = x.cur.pc
    BY <1>2, <2>2, <2>4, <2>6, <2>7, <2>8
  <2> QED
    BY <1>2, <2>9 DEF w, b, p, y
<1> QED
  BY <1>1, <1>2

LEMMA EnterStageFacts ==
  ASSUME NEW x \in Tracee, x.status = "enter", x.how \in Ways
  PROVE  LET y == EnterStage(x)
         IN  /\ Staged(x, y) /\ Tracked(y) /\ ~y.restore
             /\ y.status = "enter" <=> y.how = "cont"
             /\ y.how = (IF Chaining(x) THEN "syscall" ELSE x.how)
             /\ y.cur.pc = x.regs.pc
             /\ ~Chaining(x) =>
                  /\ y.original.num = x.regs.num
                  /\ \/ y.cur.num \in {x.regs.num, "void"}
                     \/ x.regs.num = "brk" /\ y.cur.num \in Heap
<1> DEFINE u == [x EXCEPT !.restore = FALSE]
           y == fetch_regs(u)
           o == save_original(y)
           e == IF Refused(o) THEN o ELSE translate_syscall_enter(o)
           c == e.cur
           m == [e EXCEPT !.modified = c]
           n == set_sysnum(m, "void")
           p == poke_result(n, "errno")
           refused == ~Chaining(y) /\ Refused(o)
           z == IF Chaining(y) THEN [y EXCEPT !.how = "syscall", !.status = "ok"]
                ELSE IF refused THEN [p EXCEPT !.status = "error"]
                ELSE [m EXCEPT !.status = "ok"]
           q == IF z.how = "cont"
                  THEN poke_reg([z EXCEPT !.status = "enter"],
                                [z.cur EXCEPT !.sp = z.original.sp])
                  ELSE z
<1>1. EnterStage(x) = q
  BY DEF EnterStage
<1>2. /\ Staged(x, u) /\ u.status = x.status /\ u.how = x.how /\ ~u.restore
  BY SetRestore
<1> HIDE DEF u
<1>3. /\ Staged(x, y) /\ y.status = "enter" /\ y.how = x.how /\ ~y.restore
      /\ y.cur = x.regs /\ y.regs = x.regs /\ Tracked(y)
  <2>1. u \in Tracee
    BY <1>2 DEF Staged
  <2>2. Poked(u, y) /\ y.cur = u.regs /\ Tracked(y)
    BY <2>1, FetchFacts
  <2> HIDE DEF y
  <2>3. Staged(u, y) /\ y.status = u.status /\ y.how = u.how /\ y.restore = u.restore
    BY <2>2, PokedStaged
  <2>4. Staged(x, y)
    BY <1>2, <2>3, StagedTransitive
  <2> QED
    BY <1>2, <2>2, <2>3, <2>4 DEF Staged
<1> HIDE DEF y
<1>4. /\ Staged(x, o) /\ o.status = "enter" /\ o.how = x.how /\ ~o.restore
      /\ o.cur = x.regs /\ o.original = x.regs /\ Tracked(o)
  <2>1. y \in Tracee
    BY <1>3 DEF Staged
  <2>2. /\ Core(y, o) /\ o.cur = y.cur /\ o.regs = y.regs /\ o.nr = y.nr
        /\ o.original = y.cur /\ o.restoreRewrite = y.restoreRewrite
    BY <2>1, SaveFacts
  <2> HIDE DEF o
  <2>3. Staged(y, o) /\ o.status = y.status /\ o.how = y.how /\ o.restore = y.restore
    BY <2>2 DEF Core, Staged
  <2>4. Staged(x, o)
    BY <1>3, <2>3, StagedTransitive
  <2> QED
    BY <1>3, <2>2, <2>3, <2>4 DEF Tracked
<1> HIDE DEF o
<1>5. /\ Staged(x, e) /\ e.status = "enter" /\ e.how = x.how /\ ~e.restore
      /\ e.original = x.regs /\ Tracked(e) /\ e.cur.pc = x.regs.pc
      /\ \/ e.cur.num \in {x.regs.num, "void"}
         \/ x.regs.num = "brk" /\ e.cur.num \in Heap
  <2>1. CASE Refused(o)
    <3>1. e = o
      BY <2>1
    <3> QED
      BY <1>4, <3>1
  <2>2. CASE ~Refused(o)
    <3> DEFINE t == translate_syscall_enter(o)
    <3>1. e = t
      BY <2>2
    <3>2. o \in Tracee /\ o.cur.num = o.original.num
      BY <1>4 DEF Staged
    <3>3. /\ Poked(o, t) /\ Tracked(t)
          /\ t.cur.pc = o.cur.pc
          /\ \/ t.cur.num \in {o.cur.num, "void"}
             \/ o.cur.num = "brk" /\ t.cur.num \in Heap
      BY <1>4, <3>2, TranslateEnterFacts
    <3> HIDE DEF e, t
    <3>4. /\ Staged(o, t) /\ t.status = o.status /\ t.how = o.how /\ t.restore = o.restore
          /\ t.original = o.original
      BY <3>3, PokedStaged
    <3>5. Staged(x, t)
      BY <1>4, <3>4, StagedTransitive
    <3> QED
      BY <1>4, <3>1, <3>3, <3>4, <3>5
  <2> QED
    BY <2>1, <2>2
<1> HIDE DEF e
<1>6. /\ Staged(x, m) /\ m.status = "enter" /\ m.how = x.how /\ ~m.restore
      /\ m.original = x.regs /\ Tracked(m) /\ m.cur = e.cur
  <2>1. e \in Tracee /\ c \in Registers
    BY <1>5 DEF Staged, Tracee
  <2> HIDE DEF c
  <2>2. /\ Core(e, m) /\ m.cur = e.cur /\ m.regs = e.regs /\ m.nr = e.nr
        /\ m.original = e.original /\ m.regsChanged = e.regsChanged
        /\ m.restoreRewrite = e.restoreRewrite
    BY <2>1, SetModified, Zenon
  <2> HIDE DEF m
  <2>3. Staged(e, m) /\ m.status = e.status /\ m.how = e.how /\ m.restore = e.restore
    BY <2>2 DEF Core, Staged
  <2>4. Staged(x, m)
    BY <1>5, <2>3, StagedTransitive
  <2> QED
    BY <1>5, <2>2, <2>3, <2>4 DEF Tracked
<1> HIDE DEF m
<1>7. /\ Staged(x, p) /\ p.status = "enter" /\ p.how = x.how /\ ~p.restore
      /\ p.original = x.regs /\ Tracked(p) /\ p.cur.pc = x.regs.pc /\ p.cur.num = "void"
  <2>1. m \in Tracee
    BY <1>6 DEF Staged
  <2>2. "void" \in Numbers /\ detranslate_sysnum("void") = "void"
    BY DEF Numbers, detranslate_sysnum
  <2>3. Poked(m, n) /\ Tracked(n) /\ n.cur.pc = m.cur.pc /\ n.cur.num = "void"
    BY <1>6, <2>1, <2>2, SetSysnumFacts
  <2> HIDE DEF n
  <2>4. n \in Tracee /\ "errno" \in Results
    BY <2>3 DEF Poked, Core, Results
  <2>5. Poked(n, p) /\ Tracked(p) /\ p.cur.pc = n.cur.pc /\ p.cur.num = n.cur.num
    BY <2>3, <2>4, ResultFacts
  <2> HIDE DEF p
  <2>6. Poked(m, p)
    BY <2>3, <2>5, PokedTransitive
  <2>7. /\ Staged(m, p) /\ p.status = m.status /\ p.how = m.how /\ p.restore = m.restore
        /\ p.original = m.original
    BY <2>6, PokedStaged
  <2>8. Staged(x, p)
    BY <1>6, <2>7, StagedTransitive
  <2> QED
    BY <1>5, <1>6, <2>3, <2>5, <2>7, <2>8
<1> HIDE DEF p
<1>8. Chaining(y) <=> Chaining(x)
  BY <1>3 DEF Chaining, Staged
<1>9. /\ Staged(x, z) /\ z.status # "enter" /\ ~z.restore /\ Tracked(z)
      /\ z.how = (IF Chaining(x) THEN "syscall" ELSE x.how)
      /\ z.cur.pc = x.regs.pc
      /\ ~Chaining(x) =>
           /\ z.original.num = x.regs.num
           /\ \/ z.cur.num \in {x.regs.num, "void"}
              \/ x.regs.num = "brk" /\ z.cur.num \in Heap
  <2>1. CASE Chaining(x)
    <3> DEFINE v == [y EXCEPT !.how = "syscall", !.status = "ok"]
    <3>1. z = v
      BY <1>8, <2>1
    <3>2. y \in Tracee
      BY <1>3 DEF Staged
    <3>3. /\ Staged(y, v) /\ v.status = "ok" /\ v.how = "syscall" /\ v.restore = y.restore
          /\ v.original = y.original /\ v.cur = y.cur /\ v.regsChanged = y.regsChanged
      BY <3>2, SetPassed
    <3> HIDE DEF v, z
    <3>4. Staged(x, v)
      BY <1>3, <3>3, StagedTransitive
    <3> QED
      BY <1>3, <2>1, <3>1, <3>3, <3>4 DEF Tracked, Staged
  <2>2. CASE ~Chaining(x) /\ Refused(o)
    <3> DEFINE v == [p EXCEPT !.status = "error"]
    <3>1. z = v
      BY <1>8, <2>2
    <3>2. p \in Tracee
      BY <1>7 DEF Staged
    <3>3. /\ Staged(p, v) /\ v.status = "error" /\ v.how = p.how /\ v.restore = p.restore
          /\ v.original = p.original /\ v.cur = p.cur /\ v.regsChanged = p.regsChanged
      BY <3>2, SetStatus
    <3> HIDE DEF v, z
    <3>4. Staged(x, v)
      BY <1>7, <3>3, StagedTransitive
    <3> QED
      BY <1>7, <2>2, <3>1, <3>3, <3>4 DEF Tracked, Staged
  <2>3. CASE ~Chaining(x) /\ ~Refused(o)
    <3> DEFINE v == [m EXCEPT !.status = "ok"]
    <3>1. z = v
      BY <1>8, <2>3
    <3>2. m \in Tracee
      BY <1>6 DEF Staged
    <3>3. /\ Staged(m, v) /\ v.status = "ok" /\ v.how = m.how /\ v.restore = m.restore
          /\ v.original = m.original /\ v.cur = m.cur /\ v.regsChanged = m.regsChanged
      BY <3>2, SetStatus
    <3> HIDE DEF v, z
    <3>4. Staged(x, v)
      BY <1>6, <3>3, StagedTransitive
    <3> QED
      BY <1>5, <1>6, <2>3, <3>1, <3>3, <3>4 DEF Tracked, Staged
  <2> QED
    BY <2>1, <2>2, <2>3
<1> HIDE DEF z
<1>10. /\ Staged(z, q) /\ Tracked(q) /\ q.how = z.how /\ q.restore = z.restore
       /\ q.status = "enter" <=> q.how = "cont"
       /\ q.original = z.original
       /\ q.cur.num = z.cur.num /\ q.cur.pc = z.cur.pc
  <2>1. z \in Tracee /\ z.how \in Ways
    BY <1>9 DEF Staged, Ways
  <2> QED
    BY <1>9, <2>1, WithoutExitFacts
<1> HIDE DEF q
<1>11. Staged(x, q)
  BY <1>9, <1>10, StagedTransitive
<1> QED
  BY <1>1, <1>9, <1>10, <1>11

(* What the entry of a call with these registers leaves to do: nothing, or  *)
(* the call to make once this one has failed.                               *)
Continued(x, y) ==
  /\ y \in Tracee
  /\ y.last = x.last /\ y.seccomp = x.seccomp /\ y.handledEnter = x.handledEnter
  /\ y.suppressed = x.suppressed /\ y.restoreRewrite = x.restoreRewrite
  /\ \/ y.chain = x.chain /\ y.workaround = x.workaround /\ y.aborted = x.aborted
     \/ /\ ~Chaining(x) /\ x.regs.num = "brk"
        /\ y.workaround = "faulty" /\ y.chain = <<Head(y.chain)>> /\ y.chain # None
        /\ Head(y.chain).num \in Heap
        /\ y.nr = x.nr
        /\ y.aborted = (x.aborted \/ x.workaround # "inactive")

LEMMA RestartChainedFacts ==
  ASSUME NEW x \in Tracee
  PROVE  LET y == restart_current_syscall_as_chained(x)
         IN  /\ y \in Tracee
             /\ y.status = x.status /\ y.how = x.how /\ y.last = x.last
             /\ y.seccomp = x.seccomp /\ y.handledEnter = x.handledEnter
             /\ y.restore = x.restore /\ y.suppressed = x.suppressed
             /\ y.restoreRewrite = x.restoreRewrite /\ y.regs = x.regs /\ y.nr = x.nr
             /\ y.cur = x.cur /\ y.regsChanged = x.regsChanged /\ y.original = x.original
             /\ y.workaround = "faulty" /\ y.chain = <<Head(y.chain)>> /\ y.chain # None
             /\ Head(y.chain).num = x.cur.num
             /\ y.aborted = (x.aborted \/ x.workaround # "inactive")
<1> DEFINE c == [num |-> x.cur.num, args |-> x.cur.args]
           q == <<c>>
           v == x.aborted \/ x.workaround # "inactive"
           y == [x EXCEPT !.aborted = v, !.workaround = "faulty", !.chain = q]
<1>1. restart_current_syscall_as_chained(x) = y
  BY Zenon DEF restart_current_syscall_as_chained
<1>2. c \in Request
  <2>1. x.cur.num \in Number /\ x.cur.args \in [1 .. 6 -> Values]
    BY DEF Tracee, Registers
  <2> QED
    BY <2>1 DEF Request
<1>3. v \in BOOLEAN
  OBVIOUS
<1>4. c.num = x.cur.num
  OBVIOUS
<1> HIDE DEF c, v
<1>5. q \in Seq(Request) /\ q = <<Head(q)>> /\ Head(q) = c
  BY <1>2
<1>6. q # None
  BY <1>5, SyscallsAssumption
<1> HIDE DEF q
<1>7. /\ y \in Tracee
      /\ y.status = x.status /\ y.how = x.how /\ y.last = x.last
      /\ y.seccomp = x.seccomp /\ y.handledEnter = x.handledEnter
      /\ y.restore = x.restore /\ y.suppressed = x.suppressed
      /\ y.restoreRewrite = x.restoreRewrite /\ y.regs = x.regs /\ y.nr = x.nr
      /\ y.cur = x.cur /\ y.regsChanged = x.regsChanged /\ y.original = x.original
      /\ y.chain = q /\ y.workaround = "faulty" /\ y.aborted = v
  <2>1. q \in Seq(Request) \cup {None}
    BY <1>5
  <2> QED
    BY <1>3, <2>1, Zenon DEF Tracee
<1> HIDE DEF y
<1> QED
  BY <1>1, <1>4, <1>5, <1>6, <1>7, Zenon DEF v

(* The number of the call could not be changed.                             *)
LEMMA WorkaroundFacts ==
  ASSUME NEW x \in Tracee, NEW t, t \in {"ok", "error"} \/ t = None,
         x.how \in Ways, ~x.restore, Tracked(x), ~Chaining(x),
         (x.status = "enter") <=> (x.how = "cont"),
         x.cur.num = "void" \/ (x.regs.num = "brk" /\ x.cur.num \in Heap)
  PROVE  LET y == SysnumWorkaround(x, t)
         IN  /\ Continued(x, y)
             /\ y.how \in {x.how, "syscall"}
             /\ y.status = "enter" <=> y.how = "cont"
             /\ y.regs.pc = x.cur.pc
             /\ y.nr = x.nr
<1> DEFINE r == restart_current_syscall_as_chained(x)
           w == [x EXCEPT !.status = t, !.how = "syscall"]
           y == IF x.cur.num # "void" THEN r ELSE IF t # None THEN w ELSE x
           first == IF x.original.num = "brk" THEN Zero ELSE Bad
           a == [i \in 1 .. 6 |-> IF i = 1 THEN first ELSE Bad]
           c == y.cur
           b == [y.cur EXCEPT !.args = a]
           z == poke_reg(y, b)
           q == push_regs(z, FALSE)
<1>1. SysnumWorkaround(x, t) = q
  BY DEF SysnumWorkaround
<1>2. /\ Continued(x, y)
      /\ y.how \in {x.how, "syscall"}
      /\ y.status = "enter" <=> y.how = "cont"
      /\ y.nr = x.nr /\ y.regs = x.regs /\ y.cur = x.cur
      /\ y.regsChanged = x.regsChanged /\ ~y.restore
  <2>1. CASE x.cur.num # "void"
    <3>1. y = r
      BY <2>1
    <3>2. /\ r \in Tracee
          /\ r.status = x.status /\ r.how = x.how /\ r.last = x.last
          /\ r.seccomp = x.seccomp /\ r.handledEnter = x.handledEnter
          /\ r.restore = x.restore /\ r.suppressed = x.suppressed
          /\ r.restoreRewrite = x.restoreRewrite /\ r.regs = x.regs /\ r.nr = x.nr
          /\ r.cur = x.cur /\ r.regsChanged = x.regsChanged /\ r.original = x.original
          /\ r.workaround = "faulty" /\ r.chain = <<Head(r.chain)>> /\ r.chain # None
          /\ Head(r.chain).num = x.cur.num
          /\ r.aborted = (x.aborted \/ x.workaround # "inactive")
      BY RestartChainedFacts
    <3> HIDE DEF r, y
    <3>3. Continued(x, r)
      BY <2>1, <3>2 DEF Continued
    <3> QED
      BY <3>1, <3>2, <3>3
  <2>2. CASE x.cur.num = "void" /\ t # None
    <3>1. y = w
      BY <2>2
    <3>2. t \in {"enter", "ok", "error"} /\ t # "enter" /\ "syscall" \in Ways \cup {None}
      BY <2>2 DEF Ways
    <3>3. /\ w \in Tracee /\ w.status = t /\ w.how = "syscall"
          /\ w.last = x.last /\ w.seccomp = x.seccomp /\ w.handledEnter = x.handledEnter
          /\ w.suppressed = x.suppressed /\ w.restoreRewrite = x.restoreRewrite
          /\ w.chain = x.chain /\ w.workaround = x.workaround /\ w.aborted = x.aborted
          /\ w.nr = x.nr /\ w.regs = x.regs /\ w.cur = x.cur
          /\ w.regsChanged = x.regsChanged /\ w.restore = x.restore
      BY <3>2, Zenon DEF Tracee
    <3> HIDE DEF w, y
    <3> QED
      BY <3>1, <3>2, <3>3 DEF Continued
  <2>3. CASE x.cur.num = "void" /\ t = None
    <3>1. y = x
      BY <2>3
    <3> QED
      BY <3>1 DEF Continued
  <2> QED
    BY <2>1, <2>2, <2>3
<1>3. c \in Registers /\ a \in [1 .. 6 -> Values]
  <2>1. y \in Tracee
    BY <1>2 DEF Continued
  <2> HIDE DEF y
  <2>2. c \in Registers
    BY <2>1 DEF Tracee
  <2>3. first \in Values
    BY Constants
  <2> HIDE DEF first
  <2> QED
    BY <2>2, <2>3, Constants
<1> HIDE DEF y, a, c
<1>4. [c EXCEPT !.args = a] \in Registers /\ [c EXCEPT !.args = a].num = c.num
      /\ [c EXCEPT !.args = a].pc = c.pc
  BY <1>3, SetArgs, Zenon
<1>5. b \in Registers /\ b.pc = y.cur.pc
  BY <1>4 DEF c
<1> HIDE DEF b
<1>6. y \in Tracee /\ Tracked(y)
  BY <1>2 DEF Continued, Tracked
<1>7. Poked(y, z) /\ z.cur = b /\ Tracked(z)
  BY <1>5, <1>6, PokeFacts
<1>8. z \in Tracee /\ ~PushFails(z, FALSE)
  BY <1>7 DEF Poked, Core, PushFails
<1> HIDE DEF z
<1>9. /\ Core(z, q) /\ q.nr = z.nr /\ q.regs = q.cur /\ q.cur.pc = z.cur.pc
      /\ q.restoreRewrite = z.restoreRewrite
  <2>1. ~z.restore
    BY <1>2, <1>7 DEF Poked, Core
  <2> QED
    BY <1>7, <1>8, <2>1, PushFacts
<1> HIDE DEF q
<1>10. Continued(x, q)
  BY <1>2, <1>7, <1>9 DEF Continued, Poked, Core
<1>11. q.how = y.how /\ q.status = y.status /\ q.nr = y.nr /\ q.regs.pc = y.cur.pc
  BY <1>5, <1>7, <1>9 DEF Poked, Core
<1> QED
  BY <1>1, <1>2, <1>10, <1>11

(* The entry of a call.                                                     *)
LEMMA EntryFacts ==
  ASSUME NEW x \in Tracee, x.status = "enter", x.how \in Ways
  PROVE  LET y == translate_syscall(x)
         IN  /\ Continued(x, y)
             /\ y.how \in {x.how, "syscall"}
             /\ y.status = "enter" <=> y.how = "cont"
             /\ Chaining(x) => y.how = "syscall" /\ y.nr = x.nr
             /\ y.how # x.how => y.nr = x.nr
             /\ y.regs.pc = x.regs.pc
<1> DEFINE t == IF x.how = "cont" /\ ~Chaining(x) THEN SuppressedStatus(x) ELSE None
           q == EnterStage(x)
           p == push_regs(q, TRUE)
           w == SysnumWorkaround(p, t)
           n == push_regs(q, ~Chaining(q))
           y == IF ~Chaining(q) /\ PushFails(q, TRUE) THEN w ELSE n
<1>1. translate_syscall(x) = y
  BY DEF translate_syscall
<1>2. t \in {"ok", "error"} \/ t = None
  BY DEF SuppressedStatus
<1>3. /\ Staged(x, q) /\ Tracked(q) /\ ~q.restore
      /\ q.status = "enter" <=> q.how = "cont"
      /\ q.how = (IF Chaining(x) THEN "syscall" ELSE x.how)
      /\ q.cur.pc = x.regs.pc
      /\ ~Chaining(x) =>
           /\ q.original.num = x.regs.num
           /\ \/ q.cur.num \in {x.regs.num, "void"}
              \/ x.regs.num = "brk" /\ q.cur.num \in Heap
  BY EnterStageFacts
<1>4. Chaining(q) <=> Chaining(x)
  BY <1>3 DEF Chaining, Staged
<1>5. q \in Tracee /\ Continued(x, q)
  BY <1>3 DEF Staged, Continued
<1> HIDE DEF q, t
<1>6. CASE ~Chaining(q) /\ PushFails(q, TRUE)
  <2>1. /\ Core(q, p) /\ p.original = q.original /\ p.regs = q.regs /\ p.nr = q.nr
        /\ p.cur = q.cur /\ p.restoreRewrite = q.restoreRewrite
    BY <1>3, <1>5, <1>6, PushFacts
  <2>2. q.cur.num # q.original.num
    BY <1>3, <1>6 DEF PushFails, Restored
  <2>3. p = q
    BY <1>3, <1>6 DEF push_regs, PushFails, Restored
  <2> HIDE DEF p
  <2>4. q.cur.num = "void" \/ (x.regs.num = "brk" /\ q.cur.num \in Heap)
    BY <1>3, <1>4, <1>6, <2>2
  <2>5. q.regs = x.regs /\ q.nr = x.nr /\ q.how \in Ways
    BY <1>3 DEF Staged, Ways
  <2>6. /\ Continued(q, w)
        /\ w.how \in {q.how, "syscall"}
        /\ w.status = "enter" <=> w.how = "cont"
        /\ w.regs.pc = q.cur.pc
        /\ w.nr = q.nr
    BY <1>2, <1>3, <1>5, <1>6, <2>3, <2>4, <2>5, WorkaroundFacts
  <2>7. y = w
    BY <1>6
  <2> HIDE DEF w
  <2>8. Continued(x, w)
    BY <1>3, <2>6 DEF Continued, Staged, Chaining
  <2> QED
    BY <1>1, <1>3, <1>4, <1>6, <2>5, <2>6, <2>7, <2>8
<1>7. CASE Chaining(q) \/ ~PushFails(q, TRUE)
  <2> DEFINE v == ~Chaining(q)
  <2>1. v \in BOOLEAN /\ ~PushFails(q, v)
    BY <1>7 DEF PushFails
  <2> HIDE DEF v
  <2>2. y = push_regs(q, v)
    BY <1>7 DEF v
  <2>3. LET z == push_regs(q, v)
        IN  /\ Core(q, z)
            /\ z.nr \in {q.nr, z.cur.num} /\ (~v => z.nr = q.nr)
            /\ z.cur.pc = q.cur.pc
            /\ z.regs = z.cur
            /\ z.cur = q.cur /\ z.restoreRewrite = q.restoreRewrite
    BY <1>3, <1>5, <2>1, PushFacts
  <2> HIDE DEF y
  <2>4. Continued(x, y)
    BY <1>3, <2>2, <2>3 DEF Continued, Staged, Core
  <2>5. y.how = q.how /\ y.status = q.status /\ y.regs.pc = q.cur.pc
    BY <2>2, <2>3 DEF Core
  <2>6. Chaining(x) => y.nr = x.nr
    BY <1>3, <1>4, <2>2, <2>3 DEF v, Staged
  <2> QED
    BY <1>1, <1>3, <2>4, <2>5, <2>6
<1> QED
  BY <1>6, <1>7

-----------------------------------------------------------------------------
(* The exit of a call.                                                      *)

(* y is x but for its registers and for what PRoot asks of the next stop.   *)
Left(x, y) ==
  /\ y \in Tracee
  /\ y.last = x.last /\ y.handledEnter = x.handledEnter
  /\ y.suppressed = x.suppressed /\ y.aborted = x.aborted /\ y.nr = x.nr
  /\ y.how \in {x.how, "syscall"}
  /\ y.seccomp = x.seccomp \/ (x.seccomp = "enabled" /\ y.seccomp = "disabling")

LEMMA LeftTransitive ==
  ASSUME NEW x, NEW y, NEW z, Left(x, y), Left(y, z)
  PROVE  Left(x, z)
BY DEF Left

(* Its chain stays, and so does the instruction it is at, unless its call is *)
(* made again with other registers.                                         *)
Finished(x, y) ==
  /\ Left(x, y)
  /\ y.chain = x.chain /\ y.workaround = x.workaround
  /\ \/ y.cur.pc = x.cur.pc /\ (Tracked(x) => Tracked(y))
     \/ y.restoreRewrite /\ ~y.restore /\ Tracked(y)

LEMMA PokedFinished ==
  ASSUME NEW x \in Tracee, NEW y, Poked(x, y), y.cur.pc = x.cur.pc, Tracked(x) => Tracked(y)
  PROVE  Finished(x, y)
BY DEF Poked, Core, Finished, Left

LEMMA PokedThenFinished ==
  ASSUME NEW x \in Tracee, NEW y, NEW z,
         Poked(x, y), y.cur.pc = x.cur.pc, Tracked(x) => Tracked(y), Finished(y, z)
  PROVE  Finished(x, z)
BY DEF Poked, Core, Finished, Left

LEMMA PokeResultFinished ==
  ASSUME NEW x \in Tracee, NEW name \in Results
  PROVE  Finished(x, poke_result(x, name))
BY ResultFacts, PokedFinished

LEMMA SetHeap ==
  ASSUME NEW x \in Tracee
  PROVE  LET y == [x EXCEPT !.heap = TRUE]
         IN  /\ Poked(x, y) /\ y.cur = x.cur /\ y.regsChanged = x.regsChanged
BY Zenon DEF Poked, Core, Tracee

LEMMA SetSeccomp ==
  ASSUME NEW x \in Tracee, NEW v \in {"enabled", "disabling", "disabled"}
  PROVE  LET y == [x EXCEPT !.seccomp = v]
         IN  /\ y \in Tracee
             /\ y.seccomp = v /\ y.status = x.status /\ y.how = x.how /\ y.last = x.last
             /\ y.handledEnter = x.handledEnter /\ y.restore = x.restore
             /\ y.chain = x.chain /\ y.workaround = x.workaround
             /\ y.suppressed = x.suppressed /\ y.aborted = x.aborted
             /\ y.restoreRewrite = x.restoreRewrite /\ y.regs = x.regs /\ y.nr = x.nr
             /\ y.cur = x.cur /\ y.regsChanged = x.regsChanged
BY Zenon DEF Tracee

LEMMA BrkExitFacts ==
  ASSUME NEW x \in Tracee
  PROVE  Finished(x, translate_brk_exit(x))
<1> DEFINE y == [x EXCEPT !.heap = TRUE]
<1>1. "zero" \in Results
  BY DEF Results
<1>2. "heap" \in Results
  BY DEF Results
<1>3. /\ Poked(x, y) /\ y.cur = x.cur /\ y.regsChanged = x.regsChanged
  BY SetHeap
<1>4. translate_brk_exit(x) = poke_result(x, "zero") \/ translate_brk_exit(x) = poke_result(y, "heap")
  BY DEF translate_brk_exit
<1> HIDE DEF y
<1>5. Finished(x, poke_result(x, "zero"))
  BY <1>1, PokeResultFinished
<1>6. y \in Tracee /\ (Tracked(x) => Tracked(y))
  BY <1>3 DEF Poked, Core, Tracked
<1>7. Finished(y, poke_result(y, "heap"))
  BY <1>2, <1>6, PokeResultFinished
<1>8. Finished(x, poke_result(y, "heap"))
  BY <1>3, <1>6, <1>7, PokedThenFinished
<1> QED
  BY <1>4, <1>5, <1>8

(* ptrace: the seccomp filter is given up.                                  *)
LEMMA PtraceExitFacts ==
  ASSUME NEW x \in Tracee, x.how \in Ways
  PROVE  Finished(x, poke_result([x EXCEPT !.seccomp = IF @ = "enabled" THEN "disabling" ELSE @],
                                 "zero"))
<1> DEFINE v == IF x.seccomp = "enabled" THEN "disabling" ELSE x.seccomp
           y == [x EXCEPT !.seccomp = v]
           z == poke_result(y, "zero")
<1>1. v \in {"enabled", "disabling", "disabled"}
  BY DEF Tracee
<1>2. v = x.seccomp \/ (x.seccomp = "enabled" /\ v = "disabling")
  OBVIOUS
<1> HIDE DEF v
<1>3. /\ y \in Tracee
      /\ y.seccomp = v /\ y.status = x.status /\ y.how = x.how /\ y.last = x.last
      /\ y.handledEnter = x.handledEnter /\ y.restore = x.restore
      /\ y.chain = x.chain /\ y.workaround = x.workaround
      /\ y.suppressed = x.suppressed /\ y.aborted = x.aborted
      /\ y.restoreRewrite = x.restoreRewrite /\ y.regs = x.regs /\ y.nr = x.nr
      /\ y.cur = x.cur /\ y.regsChanged = x.regsChanged
  BY <1>1, SetSeccomp, Zenon
<1> HIDE DEF y
<1>4. "zero" \in Results
  BY DEF Results
<1>5. Finished(y, z)
  BY <1>3, <1>4, PokeResultFinished
<1> HIDE DEF z
<1>6. Finished(x, z)
  BY <1>2, <1>3, <1>5 DEF Finished, Left, Tracked
<1> QED
  BY <1>6 DEF z, y, v

LEMMA TranslateExitFacts ==
  ASSUME NEW x \in Tracee, x.how \in Ways
  PROVE  Finished(x, translate_syscall_exit(x))
<1> DEFINE v == x.modified.args[1]
           b == [x.cur EXCEPT !.args[1] = v]
           y == IF x.modified.num = "void" /\ x.original.num # "void"
                  THEN poke_reg(x, b) ELSE x
           num == x.original.num
           f == fix_and_restart_enosys_syscall(y)
           g == poke_result([y EXCEPT !.seccomp = IF @ = "enabled" THEN "disabling" ELSE @],
                            "zero")
           t == translate_syscall_exit(x)
<1>1. /\ "errno" \in Results /\ "length" \in Results /\ "zero" \in Results
  BY DEF Results
<1>2. /\ Poked(x, y) /\ y.cur.pc = x.cur.pc /\ (Tracked(x) => Tracked(y))
  <2>1. CASE x.modified.num = "void" /\ x.original.num # "void"
    <3> DEFINE c == x.cur
    <3>1. c \in Registers /\ v \in Values /\ 1 \in 1 .. 6
      BY DEF Tracee, Registers
    <3>2. y = poke_reg(x, b)
      BY <2>1
    <3> HIDE DEF c, v, y
    <3>3. [c EXCEPT !.args[1] = v] \in Registers /\ [c EXCEPT !.args[1] = v].pc = c.pc
      BY <3>1, SetArg, Zenon
    <3>4. b \in Registers /\ b.pc = x.cur.pc
      BY <3>3 DEF c
    <3> HIDE DEF b
    <3> QED
      BY <3>2, <3>4, PokeFacts
  <2>2. CASE ~(x.modified.num = "void" /\ x.original.num # "void")
    <3>1. y = x
      BY <2>2
    <3> HIDE DEF y
    <3> QED
      BY <3>1 DEF Poked, Core
  <2> QED
    BY <2>1, <2>2
<1>3. \/ t = poke_result(x, "errno") \/ t = translate_brk_exit(y)
      \/ t = poke_result(y, "length") \/ t = poke_result(y, "zero")
      \/ t = y \/ (num = "utime" /\ t = f) \/ t = g
  BY DEF translate_syscall_exit
<1> HIDE DEF y, t
<1>4. y \in Tracee /\ y.original = x.original /\ y.how \in Ways
  BY <1>2 DEF Poked, Core, Ways
<1>5. Finished(x, poke_result(x, "errno"))
  BY <1>1, PokeResultFinished
<1>6. Finished(y, poke_result(y, "length"))
  BY <1>1, <1>4, PokeResultFinished
<1>7. Finished(y, poke_result(y, "zero"))
  BY <1>1, <1>4, PokeResultFinished
<1>8. Finished(y, translate_brk_exit(y))
  BY <1>4, BrkExitFacts
<1>9. Finished(y, g)
  BY <1>4, PtraceExitFacts
<1>10. Finished(y, y)
  BY <1>4 DEF Finished, Left
<1>11. num = "utime" => Finished(y, f)
  <2>1. num = "utime" => Ended(y, f) /\ f.restoreRewrite
    BY <1>4, FixFacts
  <2> HIDE DEF f
  <2> QED
    BY <2>1 DEF Ended, Finished, Left, Tracked
<1> HIDE DEF f, g
<1>12. t = poke_result(x, "errno") \/ Finished(y, t)
  BY <1>3, <1>6, <1>7, <1>8, <1>9, <1>10, <1>11
<1>13. Finished(x, t)
  BY <1>2, <1>5, <1>12, PokedThenFinished
<1> QED
  BY <1>13 DEF t

LEMMA TailOfOne ==
  ASSUME NEW h \in Request
  PROVE  Tail(<<h>>) = <<>>
OBVIOUS

(* A chain holds nothing more, or the one call that replaces a failed one.  *)
LEMMA SetChain ==
  ASSUME NEW x \in Tracee, NEW q \in Seq(Request) \cup {None}
  PROVE  LET y == [x EXCEPT !.chain = q]
         IN  /\ Left(x, y) /\ y.seccomp = x.seccomp /\ y.how = x.how
             /\ y.status = x.status /\ y.chain = q /\ y.workaround = x.workaround
             /\ y.cur = x.cur /\ y.regs = x.regs /\ y.regsChanged = x.regsChanged
             /\ y.restore = x.restore /\ y.restoreRewrite = x.restoreRewrite
BY Zenon DEF Left, Tracee

LEMMA SetNext ==
  ASSUME NEW x \in Tracee, NEW q \in Seq(Request)
  PROVE  LET y == [x EXCEPT !.restore = FALSE, !.chain = q, !.how = "syscall"]
         IN  /\ Left(x, y) /\ y.how = "syscall" /\ ~y.restore
             /\ y.status = x.status /\ y.chain = q /\ y.workaround = x.workaround
             /\ y.cur = x.cur /\ y.regs = x.regs /\ y.regsChanged = x.regsChanged
             /\ y.restoreRewrite = x.restoreRewrite
<1>1. q \in Seq(Request) \cup {None}
  OBVIOUS
<1>2. "syscall" \in Ways \cup {None}
  BY DEF Ways
<1> QED
  BY <1>1, <1>2, Zenon DEF Left, Tracee

LEMMA NextFacts ==
  ASSUME NEW x \in Tracee, x.how \in Ways, Chaining(x)
  PROVE  LET y == chain_next_syscall(x)
         IN  /\ Left(x, y) /\ y.status = x.status /\ y.workaround = x.workaround
             /\ Tracked(x) => Tracked(y)
             /\ x.chain = <<>> =>
                  /\ y.chain = None /\ y.cur = x.cur /\ y.restore = x.restore
                  /\ y.restoreRewrite = x.restoreRewrite
             /\ x.chain # <<>> =>
                  /\ y.chain = Tail(x.chain) /\ y.how = "syscall" /\ ~y.restore
                  /\ y.cur.pc = "trap" /\ y.cur.num = Head(x.chain).num
<1>1. x.chain \in Seq(Request)
  BY DEF Chaining, Tracee
<1>2. CASE x.chain = <<>>
  <2> DEFINE y == [x EXCEPT !.chain = None]
  <2>1. chain_next_syscall(x) = y
    BY <1>2 DEF chain_next_syscall
  <2>2. /\ Left(x, y) /\ y.seccomp = x.seccomp /\ y.how = x.how
        /\ y.status = x.status /\ y.chain = None /\ y.workaround = x.workaround
        /\ y.cur = x.cur /\ y.regs = x.regs /\ y.regsChanged = x.regsChanged
        /\ y.restore = x.restore /\ y.restoreRewrite = x.restoreRewrite
    BY SetChain
  <2> HIDE DEF y
  <2> QED
    BY <1>2, <2>1, <2>2 DEF Tracked
<1>3. CASE x.chain # <<>>
  <2> DEFINE q == Tail(x.chain)
             h == Head(x.chain)
             u == [x EXCEPT !.restore = FALSE, !.chain = q, !.how = "syscall"]
             c == x.cur
             n == h.num
             a == h.args
             b == [x.cur EXCEPT !.num = n, !.args = a, !.pc = "trap"]
             z == poke_reg(u, b)
  <2>1. chain_next_syscall(x) = z
    BY <1>3 DEF chain_next_syscall
  <2>2. q \in Seq(Request) /\ h \in Request
    BY <1>1, <1>3
  <2>3. n \in Number /\ a \in [1 .. 6 -> Values] /\ c \in Registers
    <3> HIDE DEF h
    <3> QED
      BY <2>2 DEF Request, Tracee
  <2> HIDE DEF q, h, c, n, a
  <2>4. /\ Left(x, u) /\ u.how = "syscall" /\ ~u.restore
        /\ u.status = x.status /\ u.chain = q /\ u.workaround = x.workaround
        /\ u.cur = x.cur /\ u.regs = x.regs /\ u.regsChanged = x.regsChanged
        /\ u.restoreRewrite = x.restoreRewrite
    BY <2>2, SetNext, Zenon
  <2> DEFINE k == "trap"
  <2>5. k \in {"after", "trap"}
    OBVIOUS
  <2> HIDE DEF u, k
  <2>6. [c EXCEPT !.num = n, !.args = a, !.pc = k] \in Registers
    BY <2>3, <2>5, Zenon DEF Registers
  <2>7. [c EXCEPT !.num = n, !.args = a, !.pc = k].num = n
    BY <2>3, <2>5, Zenon DEF Registers
  <2>8. [c EXCEPT !.num = n, !.args = a, !.pc = k].pc = k
    BY <2>3, <2>5, Zenon DEF Registers
  <2>9. b \in Registers /\ b.num = n /\ b.pc = "trap"
    BY <2>6, <2>7, <2>8 DEF c, k
  <2> HIDE DEF b
  <2>10. u \in Tracee
    BY <2>4 DEF Left
  <2>11. Poked(u, z) /\ z.cur = b /\ (Tracked(u) => Tracked(z))
    BY <2>9, <2>10, PokeFacts
  <2> HIDE DEF z
  <2>12. Left(x, z)
    BY <2>4, <2>11 DEF Left, Poked, Core
  <2>13. /\ z.status = x.status /\ z.workaround = x.workaround /\ z.chain = q
         /\ z.how = "syscall" /\ ~z.restore /\ (Tracked(x) => Tracked(z))
    BY <2>4, <2>11 DEF Poked, Core, Tracked
  <2>14. q = Tail(x.chain) /\ n = Head(x.chain).num
    BY DEF q, n, h
  <2> QED
    BY <1>3, <2>1, <2>9, <2>11, <2>12, <2>13, <2>14
<1> QED
  BY <1>2, <1>3

LEMMA SetWorkaround ==
  ASSUME NEW x \in Tracee, NEW v \in {"inactive", "faulty", "replaced"}
  PROVE  LET y == [x EXCEPT !.workaround = v]
         IN  /\ Left(x, y) /\ y.seccomp = x.seccomp /\ y.how = x.how
             /\ y.status = x.status /\ y.chain = x.chain /\ y.workaround = v
             /\ y.cur = x.cur /\ y.regs = x.regs /\ y.regsChanged = x.regsChanged
             /\ y.restore = x.restore /\ y.restoreRewrite = x.restoreRewrite
BY Zenon DEF Left, Tracee

LEMMA PushLeft ==
  ASSUME NEW x \in Tracee, Tracked(x)
  PROVE  LET y == push_regs(x, FALSE)
         IN  /\ Left(x, y) /\ y.status = x.status /\ y.how = x.how
             /\ y.chain = x.chain /\ y.workaround = x.workaround
             /\ y.regs.pc = x.cur.pc
             /\ ~x.restore => y.regs = x.cur /\ y.restoreRewrite = x.restoreRewrite
<1>1. ~PushFails(x, FALSE)
  BY DEF PushFails
<1>2. LET y == push_regs(x, FALSE)
      IN  /\ Core(x, y) /\ y.nr = x.nr /\ y.cur.pc = x.cur.pc /\ y.regs = y.cur
          /\ ~x.restore => y.cur = x.cur /\ y.restoreRewrite = x.restoreRewrite
  BY <1>1, PushFacts
<1> QED
  BY <1>2 DEF Core, Left

(* The exit of a call: the chain advances, and PRoot expects an entry.      *)
LEMMA ExitFacts ==
  ASSUME NEW x \in Tracee, x.how \in Ways
  PROVE  LET y == ExitStage(x)
         IN  /\ Left(x, y) /\ y.status = "enter"
             /\ (ChainRight(x) /\ x.regs.pc = "after") =>
                  /\ ChainRight(y)
                  /\ x.chain = None => y.chain = None
                  /\ y.chain # None =>
                       y.how = "syscall" /\ y.regs.pc = "trap" /\ y.regs.num \in Heap
                  /\ y.regs.pc = "trap" => y.chain # None \/ y.restoreRewrite
<1> DEFINE u == [x EXCEPT !.restore = TRUE]
           y == fetch_regs(u)
           i == [y EXCEPT !.workaround = "inactive"]
           t == translate_syscall_exit(i)
           j == [y EXCEPT !.workaround = "replaced"]
           z == IF ~Chaining(y) \/ y.workaround = "replaced" THEN t
                ELSE IF y.workaround = "faulty" THEN j ELSE y
           e == [z EXCEPT !.status = "enter"]
           r == IF Chaining(e) THEN chain_next_syscall(e) ELSE e
           q == push_regs(r, FALSE)
<1>1. ExitStage(x) = q
  BY DEF ExitStage
<1>2. /\ Left(x, y) /\ y.how = x.how /\ y.chain = x.chain /\ y.workaround = x.workaround
      /\ y.cur = x.regs /\ Tracked(y)
  <2>1. /\ Staged(x, u) /\ u.how = x.how
    BY SetRestore
  <2> HIDE DEF u
  <2>2. u \in Tracee
    BY <2>1 DEF Staged
  <2>3. Poked(u, y) /\ y.cur = u.regs /\ Tracked(y)
    BY <2>2, FetchFacts
  <2> HIDE DEF y
  <2> QED
    BY <2>1, <2>3 DEF Left, Staged, Poked, Core
<1> HIDE DEF y
<1>3. y \in Tracee /\ y.how \in Ways /\ (Chaining(y) <=> Chaining(x))
  BY <1>2 DEF Left, Chaining
<1>4. /\ Left(x, i) /\ i.how = x.how /\ i.chain = x.chain /\ i.workaround = "inactive"
      /\ i.cur = x.regs /\ Tracked(i)
  <2>1. /\ Left(y, i) /\ i.seccomp = y.seccomp /\ i.how = y.how
        /\ i.chain = y.chain /\ i.workaround = "inactive"
        /\ i.cur = y.cur /\ i.regs = y.regs /\ i.regsChanged = y.regsChanged
    BY <1>3, SetWorkaround
  <2> HIDE DEF i
  <2> QED
    BY <1>2, <2>1, LeftTransitive DEF Tracked
<1> HIDE DEF i
<1>5. Finished(i, t)
  <2>1. i \in Tracee /\ i.how \in Ways
    BY <1>3, <1>4, <1>2 DEF Left
  <2> QED
    BY <2>1, TranslateExitFacts
<1> HIDE DEF t
<1>6. /\ Left(x, t) /\ t.chain = x.chain /\ t.workaround = "inactive" /\ Tracked(t)
      /\ t.cur.pc = x.regs.pc \/ (t.restoreRewrite /\ ~t.restore)
  <2>1. Left(x, t)
    BY <1>4, <1>5, LeftTransitive DEF Finished
  <2> QED
    BY <1>4, <1>5, <2>1 DEF Finished
<1>7. /\ Left(x, j) /\ j.how = x.how /\ j.chain = x.chain /\ j.workaround = "replaced"
      /\ j.cur = x.regs /\ Tracked(j)
  <2>1. /\ Left(y, j) /\ j.seccomp = y.seccomp /\ j.how = y.how
        /\ j.chain = y.chain /\ j.workaround = "replaced"
        /\ j.cur = y.cur /\ j.regs = y.regs /\ j.regsChanged = y.regsChanged
    BY <1>3, SetWorkaround
  <2> HIDE DEF j
  <2> QED
    BY <1>2, <2>1, LeftTransitive DEF Tracked
<1> HIDE DEF j
<1>8. /\ Left(x, z) /\ z.chain = x.chain /\ Tracked(z)
      /\ (ChainRight(x) /\ x.regs.pc = "after") =>
           /\ z.workaround = (IF x.workaround = "faulty" THEN "replaced" ELSE "inactive")
           /\ z.cur.pc = "after" \/ (z.restoreRewrite /\ ~z.restore)
  <2>1. CASE ~Chaining(y) \/ y.workaround = "replaced"
    <3>1. z = t
      BY <2>1
    <3>2. ChainRight(x) => x.workaround # "faulty"
      BY <1>2, <1>3, <2>1 DEF ChainRight, Chaining
    <3> HIDE DEF z
    <3> QED
      BY <1>6, <3>1, <3>2
  <2>2. CASE Chaining(y) /\ y.workaround = "faulty"
    <3>1. z = j
      BY <2>2
    <3> HIDE DEF z
    <3> QED
      BY <1>2, <1>7, <2>2, <3>1
  <2>3. CASE Chaining(y) /\ y.workaround \notin {"replaced", "faulty"}
    <3>1. z = y
      BY <2>3
    <3>2. ~ChainRight(x)
      BY <1>2, <1>3, <2>3 DEF ChainRight, Chaining, Tracee
    <3> HIDE DEF z
    <3> QED
      BY <1>2, <3>1, <3>2
  <2> QED
    BY <2>1, <2>2, <2>3
<1> HIDE DEF z
<1>9. /\ Left(x, e) /\ e.status = "enter" /\ e.chain = x.chain /\ Tracked(e)
      /\ e.workaround = z.workaround /\ e.cur = z.cur
      /\ e.restoreRewrite = z.restoreRewrite /\ e.restore = z.restore
  <2>1. z \in Tracee
    BY <1>8 DEF Left
  <2>2. /\ Staged(z, e) /\ e.status = "enter" /\ e.how = z.how /\ e.restore = z.restore
        /\ e.original = z.original /\ e.cur = z.cur /\ e.regsChanged = z.regsChanged
    BY <2>1, SetStatus
  <2> HIDE DEF e
  <2>3. Left(z, e)
    BY <2>2 DEF Staged, Left
  <2>4. Left(x, e)
    BY <1>8, <2>3, LeftTransitive
  <2> QED
    BY <1>8, <2>2, <2>4 DEF Staged, Tracked
<1> HIDE DEF e
<1>10. e \in Tracee /\ e.how \in Ways
  BY <1>9 DEF Left, Ways
<1>11. /\ Left(x, r) /\ r.status = "enter" /\ Tracked(r)
       /\ (ChainRight(x) /\ x.regs.pc = "after") =>
            /\ ChainRight(r)
            /\ x.chain = None => r.chain = None
            /\ r.chain # None =>
                 r.how = "syscall" /\ r.cur.pc = "trap" /\ r.cur.num \in Heap /\ ~r.restore
            /\ r.cur.pc = "trap" => r.chain # None \/ (r.restoreRewrite /\ ~r.restore)
  <2>1. CASE ~Chaining(e)
    <3>1. r = e
      BY <2>1
    <3>2. x.chain = None
      BY <1>9, <2>1 DEF Chaining
    <3>3. ChainRight(x) => x.workaround = "inactive"
      BY <3>2 DEF ChainRight
    <3> HIDE DEF r
    <3>4. (ChainRight(x) /\ x.regs.pc = "after") => ChainRight(r)
      BY <1>8, <1>9, <3>1, <3>2, <3>3 DEF ChainRight
    <3> QED
      BY <1>8, <1>9, <3>1, <3>2, <3>3, <3>4
  <2>2. CASE Chaining(e)
    <3>1. r = chain_next_syscall(e)
      BY <2>2
    <3> HIDE DEF r
    <3>2. /\ Left(e, r) /\ r.status = e.status /\ r.workaround = e.workaround
          /\ Tracked(e) => Tracked(r)
          /\ e.chain = <<>> =>
               /\ r.chain = None /\ r.cur = e.cur /\ r.restore = e.restore
               /\ r.restoreRewrite = e.restoreRewrite
          /\ e.chain # <<>> =>
               /\ r.chain = Tail(e.chain) /\ r.how = "syscall" /\ ~r.restore
               /\ r.cur.pc = "trap" /\ r.cur.num = Head(e.chain).num
      BY <1>10, <2>2, <3>1, NextFacts
    <3>3. Left(x, r)
      BY <1>9, <3>2, LeftTransitive
    <3>4. x.chain # None
      BY <1>9, <2>2 DEF Chaining
    <3>5. ASSUME ChainRight(x), x.regs.pc = "after", x.chain = <<>>
          PROVE  /\ ChainRight(r) /\ r.chain = None
                 /\ r.cur.pc = "trap" => r.restoreRewrite /\ ~r.restore
      <4>1. x.workaround = "replaced"
        <5>1. x.workaround \in {"inactive", "faulty", "replaced"}
          BY DEF Tracee
        <5>2. \A h : <<h>> # <<>>
          OBVIOUS
        <5> QED
          BY <3>4, <3>5, <5>1, <5>2 DEF ChainRight
      <4>2. r.workaround = "inactive" /\ r.chain = None
        BY <1>8, <1>9, <3>2, <3>5, <4>1
      <4>3. ChainRight(r)
        BY <4>2 DEF ChainRight
      <4> QED
        BY <1>8, <1>9, <3>2, <3>5, <4>2, <4>3
    <3>6. ASSUME ChainRight(x), x.regs.pc = "after", x.chain # <<>>
          PROVE  /\ ChainRight(r) /\ r.chain # None
                 /\ r.how = "syscall" /\ r.cur.pc = "trap" /\ r.cur.num \in Heap /\ ~r.restore
      <4>1. x.workaround = "faulty"
        <5>1. x.workaround \in {"inactive", "faulty", "replaced"}
          BY DEF Tracee
        <5> QED
          BY <3>4, <3>6, <5>1 DEF ChainRight
      <4>2. Head(x.chain).num \in Heap /\ x.chain = <<Head(x.chain)>>
        BY <3>6, <4>1 DEF ChainRight
      <4>3. Tail(x.chain) = <<>>
        <5>1. x.chain \in Seq(Request)
          BY <3>4 DEF Tracee
        <5>2. Head(x.chain) \in Request
          BY <3>6, <5>1
        <5> DEFINE h == Head(x.chain)
        <5>3. x.chain = <<h>> /\ h \in Request
          BY <4>2, <5>2
        <5> HIDE DEF h
        <5> QED
          BY <5>3, TailOfOne
      <4>4. <<>> # None
        <5>1. <<>> \in Seq(Request)
          OBVIOUS
        <5> QED
          BY <5>1, SyscallsAssumption
      <4>5. r.chain = <<>> /\ r.workaround = "replaced"
        BY <1>8, <1>9, <3>2, <3>6, <4>1, <4>3
      <4>6. ChainRight(r)
        BY <4>4, <4>5 DEF ChainRight
      <4> QED
        BY <1>9, <3>2, <3>6, <4>2, <4>4, <4>5, <4>6
    <3> QED
      BY <1>9, <3>2, <3>3, <3>4, <3>5, <3>6
  <2> QED
    BY <2>1, <2>2
<1> HIDE DEF r
<1>12. r \in Tracee
  BY <1>11 DEF Left
<1>13. /\ Left(r, q) /\ q.status = r.status /\ q.how = r.how
       /\ q.chain = r.chain /\ q.workaround = r.workaround
       /\ q.regs.pc = r.cur.pc
       /\ ~r.restore => q.regs = r.cur /\ q.restoreRewrite = r.restoreRewrite
  BY <1>11, <1>12, PushLeft
<1> HIDE DEF q
<1>14. Left(x, q)
  BY <1>11, <1>13, LeftTransitive
<1>15. ChainRight(r) => ChainRight(q)
  BY <1>13 DEF ChainRight
<1> QED
  BY <1>1, <1>11, <1>13, <1>14, <1>15

-----------------------------------------------------------------------------
(* The stops.                                                               *)

(* y is x but for how PRoot restarts the thread.                            *)
LEMMA BeginFacts ==
  ASSUME NEW x \in Tracee
  PROVE  LET y == Begin(x)
         IN  /\ Staged(x, y) /\ y.status = x.status
             /\ y.how \in Ways
             /\ (x.seccomp # "enabled" \/ Chaining(x)) => y.how = "syscall"
             /\ Chaining(x) => Necessary(y)
<1> DEFINE w == IF x.seccomp = "enabled" /\ ~Necessary(x) THEN "cont" ELSE "syscall"
           y == [x EXCEPT !.how = w]
<1>1. Begin(x) = y
  BY DEF Begin
<1>2. w \in Ways /\ w \in Ways \cup {None}
  BY DEF Ways
<1>3. (x.seccomp # "enabled" \/ Chaining(x)) => w = "syscall"
  BY DEF Necessary
<1> HIDE DEF w
<1>4. Staged(x, y) /\ y.status = x.status /\ y.how = w
  BY <1>2, Zenon DEF Staged, Tracee
<1> HIDE DEF y
<1> QED
  BY <1>1, <1>2, <1>3, <1>4 DEF Staged, Necessary, Chaining

LEMMA RestartedFacts ==
  ASSUME NEW x \in Tracee, x.how \in Ways
  PROVE  LET y == Restarted(x)
         IN  /\ y \in Tracee /\ y.status = x.status
             /\ y.how = None /\ y.last = x.how
             /\ y.seccomp = x.seccomp /\ y.handledEnter = x.handledEnter
             /\ y.chain = x.chain /\ y.workaround = x.workaround
             /\ y.suppressed = x.suppressed /\ y.aborted = x.aborted
             /\ y.restoreRewrite = x.restoreRewrite /\ y.regs = x.regs /\ y.nr = x.nr
<1> DEFINE w == x.how
           n == None
           y == [x EXCEPT !.last = w, !.how = n]
<1>1. Restarted(x) = y
  BY DEF Restarted
<1>2. w \in Ways /\ n \in Ways \cup {None}
  OBVIOUS
<1> HIDE DEF w, n
<1>3. /\ y \in Tracee /\ y.status = x.status
      /\ y.how = n /\ y.last = w
      /\ y.seccomp = x.seccomp /\ y.handledEnter = x.handledEnter
      /\ y.chain = x.chain /\ y.workaround = x.workaround
      /\ y.suppressed = x.suppressed /\ y.aborted = x.aborted
      /\ y.restoreRewrite = x.restoreRewrite /\ y.regs = x.regs /\ y.nr = x.nr
  BY <1>2, Zenon DEF Tracee
<1> HIDE DEF y
<1> QED
  BY <1>1, <1>3 DEF w, n

(* What PRoot knows at a stop when the stages are in order.                 *)
InOrder(x) ==
  /\ ~x.aborted
  /\ x.seccomp \in {"enabled", "disabled"}
  /\ x.seccomp = "disabled" => x.how = "syscall"
  /\ ChainRight(x)
  /\ x.handledEnter => x.status # "enter" /\ ~After
  /\ x.status # "enter" => x.regs.pc = "after"

LEMMA ContinuedChain ==
  ASSUME NEW x \in Tracee, NEW y, Continued(x, y), ChainRight(x), ~x.aborted
  PROVE  ~y.aborted /\ ChainRight(y)
<1>1. CASE y.chain = x.chain /\ y.workaround = x.workaround /\ y.aborted = x.aborted
  BY <1>1 DEF ChainRight
<1>2. CASE ~(y.chain = x.chain /\ y.workaround = x.workaround /\ y.aborted = x.aborted)
  <2>1. /\ ~Chaining(x)
        /\ y.workaround = "faulty" /\ y.chain = <<Head(y.chain)>> /\ y.chain # None
        /\ Head(y.chain).num \in Heap
        /\ y.aborted = (x.aborted \/ x.workaround # "inactive")
    BY <1>2 DEF Continued
  <2>2. ChainRight(y)
    BY <2>1 DEF ChainRight
  <2>3. x.workaround = "inactive"
    BY <2>1 DEF ChainRight, Chaining
  <2>4. ~y.aborted
    BY <2>1, <2>3
  <2> QED
    BY <2>2, <2>4
<1> QED
  BY <1>1, <1>2

LEMMA SetEntered ==
  ASSUME NEW x \in Tracee, NEW w \in Ways, NEW v \in BOOLEAN
  PROVE  LET y == [x EXCEPT !.how = w, !.sysexitPending = v]
         IN  /\ Staged(x, y) /\ y.how = w /\ y.status = x.status
<1>1. w \in Ways \cup {None}
  OBVIOUS
<1> QED
  BY <1>1, Zenon DEF Staged, Tracee

LEMMA SetSkip ==
  ASSUME NEW x \in Tracee, NEW v \in BOOLEAN
  PROVE  LET y == [x EXCEPT !.skip = v]
         IN  /\ Staged(x, y) /\ y.how = x.how /\ y.status = x.status
BY Zenon DEF Staged, Tracee

LEMMA SetDisabled ==
  ASSUME NEW x \in Tracee
  PROVE  LET y == [x EXCEPT !.how = "syscall", !.seccomp = "disabled"]
         IN  /\ y \in Tracee /\ y.how = "syscall" /\ y.seccomp = "disabled"
             /\ y.status = x.status /\ y.last = x.last /\ y.handledEnter = x.handledEnter
             /\ y.chain = x.chain /\ y.workaround = x.workaround
             /\ y.suppressed = x.suppressed /\ y.aborted = x.aborted
             /\ y.restoreRewrite = x.restoreRewrite /\ y.regs = x.regs /\ y.nr = x.nr
<1> DEFINE w == "syscall"
<1>1. w \in Ways \cup {None}
  BY DEF Ways
<1> HIDE DEF w
<1>2. LET y == [x EXCEPT !.how = w, !.seccomp = "disabled"]
      IN  /\ y \in Tracee /\ y.how = w /\ y.seccomp = "disabled"
          /\ y.status = x.status /\ y.last = x.last /\ y.handledEnter = x.handledEnter
          /\ y.chain = x.chain /\ y.workaround = x.workaround
          /\ y.suppressed = x.suppressed /\ y.aborted = x.aborted
          /\ y.restoreRewrite = x.restoreRewrite /\ y.regs = x.regs /\ y.nr = x.nr
  BY <1>1, Zenon DEF Tracee
<1> QED
  BY <1>2 DEF w

LEMMA SetHandled ==
  ASSUME NEW x \in Tracee, NEW v \in BOOLEAN
  PROVE  LET y == [x EXCEPT !.aborted = v, !.handledEnter = FALSE, !.how = "syscall"]
         IN  /\ y \in Tracee /\ y.how = "syscall" /\ ~y.handledEnter /\ y.aborted = v
             /\ y.status = x.status /\ y.last = x.last /\ y.seccomp = x.seccomp
             /\ y.chain = x.chain /\ y.workaround = x.workaround
             /\ y.suppressed = x.suppressed
             /\ y.restoreRewrite = x.restoreRewrite /\ y.regs = x.regs /\ y.nr = x.nr
<1> DEFINE w == "syscall"
<1>1. w \in Ways \cup {None}
  BY DEF Ways
<1> HIDE DEF w
<1>2. LET y == [x EXCEPT !.aborted = v, !.handledEnter = FALSE, !.how = w]
      IN  /\ y \in Tracee /\ y.how = w /\ ~y.handledEnter /\ y.aborted = v
          /\ y.status = x.status /\ y.last = x.last /\ y.seccomp = x.seccomp
          /\ y.chain = x.chain /\ y.workaround = x.workaround
          /\ y.suppressed = x.suppressed
          /\ y.restoreRewrite = x.restoreRewrite /\ y.regs = x.regs /\ y.nr = x.nr
  BY <1>1, Zenon DEF Tracee
<1> QED
  BY <1>2 DEF w

(* The stages of a call at a stop at its entry or at its exit.              *)
EntryDone(x, y) ==
  /\ y.status # "enter" /\ y.how = "syscall" /\ y.regs.pc = "after"
  /\ y.chain # None => (x.chain # None \/ x.regs.num = "brk") /\ y.nr = x.nr

ExitDone(x, y) ==
  /\ y.status = "enter"
  /\ x.chain = None => y.chain = None
  /\ y.chain # None => y.how = "syscall" /\ y.regs.pc = "trap" /\ y.regs.num \in Heap
  /\ y.regs.pc = "trap" => y.chain # None \/ y.restoreRewrite

LEMMA StageFacts ==
  ASSUME NEW x \in Tracee, x.how \in Ways
  PROVE  LET t == translate_syscall(x)
             v == x.aborted \/ x.status = "enter" \/ After
             y == IF x.handledEnter
                    THEN [x EXCEPT !.aborted = v, !.handledEnter = FALSE, !.how = "syscall"]
                    ELSE IF x.status = "enter"
                           THEN [t EXCEPT !.skip = After /\ t.cur.num = "void"] ELSE t
         IN  /\ y \in Tracee /\ y.how \in {x.how, "syscall"}
             /\ y.last = x.last /\ y.suppressed = x.suppressed
             /\ y.seccomp = x.seccomp \/ (x.seccomp = "enabled" /\ y.seccomp = "disabling")
             /\ (InOrder(x) /\ (x.status = "enter" => x.how = "syscall" /\ x.regs.pc = "after")) =>
                  /\ ~y.aborted /\ ~y.handledEnter /\ ChainRight(y)
                  /\ IF x.status = "enter" \/ x.handledEnter
                       THEN EntryDone(x, y) ELSE ExitDone(x, y)
<1> DEFINE t == translate_syscall(x)
           v == x.aborted \/ x.status = "enter" \/ After
           h == [x EXCEPT !.aborted = v, !.handledEnter = FALSE, !.how = "syscall"]
           c == After /\ t.cur.num = "void"
           e == [t EXCEPT !.skip = c]
           y == IF x.handledEnter THEN h ELSE IF x.status = "enter" THEN e ELSE t
           Good == InOrder(x) /\ (x.status = "enter" => x.how = "syscall" /\ x.regs.pc = "after")
           Goal(z) ==
             /\ z \in Tracee /\ z.how \in {x.how, "syscall"}
             /\ z.last = x.last /\ z.suppressed = x.suppressed
             /\ z.seccomp = x.seccomp \/ (x.seccomp = "enabled" /\ z.seccomp = "disabling")
             /\ Good =>
                  /\ ~z.aborted /\ ~z.handledEnter /\ ChainRight(z)
                  /\ IF x.status = "enter" \/ x.handledEnter
                       THEN EntryDone(x, z) ELSE ExitDone(x, z)
<1>1. CASE x.handledEnter
  <2>1. v \in BOOLEAN /\ (Good => v = FALSE)
    <3>1. x.aborted \in BOOLEAN
      BY DEF Tracee
    <3>2. v \in BOOLEAN
      OBVIOUS
    <3>3. Good => ~v
      BY <1>1 DEF InOrder
    <3> QED
      BY <3>2, <3>3
  <2> HIDE DEF v
  <2>2. /\ h \in Tracee /\ h.how = "syscall" /\ ~h.handledEnter /\ h.aborted = v
        /\ h.status = x.status /\ h.last = x.last /\ h.seccomp = x.seccomp
        /\ h.chain = x.chain /\ h.workaround = x.workaround
        /\ h.suppressed = x.suppressed
        /\ h.restoreRewrite = x.restoreRewrite /\ h.regs = x.regs /\ h.nr = x.nr
    BY <2>1, SetHandled, Zenon
  <2> HIDE DEF h
  <2>3. Goal(h)
    BY <1>1, <2>1, <2>2 DEF InOrder, ChainRight, EntryDone
  <2> QED
    BY <1>1, <2>3 DEF h, v
<1>2. CASE ~x.handledEnter /\ x.status = "enter"
  <2>1. /\ Continued(x, t)
        /\ t.how \in {x.how, "syscall"}
        /\ t.status = "enter" <=> t.how = "cont"
        /\ Chaining(x) => t.how = "syscall" /\ t.nr = x.nr
        /\ t.regs.pc = x.regs.pc
    BY <1>2, EntryFacts
  <2>2. t \in Tracee
    BY <2>1 DEF Continued
  <2> HIDE DEF t
  <2>3. c \in BOOLEAN
    OBVIOUS
  <2> HIDE DEF c
  <2>4. Staged(t, e) /\ e.how = t.how /\ e.status = t.status
    BY <2>2, <2>3, SetSkip, Zenon
  <2> HIDE DEF e
  <2>5. Good => ~t.aborted /\ ChainRight(t)
    BY <2>1, ContinuedChain DEF InOrder
  <2>6. Good => ~e.aborted /\ ~e.handledEnter /\ ChainRight(e)
    BY <1>2, <2>1, <2>4, <2>5 DEF Continued, Staged, ChainRight
  <2>7. Good => EntryDone(x, e)
    BY <1>2, <2>1, <2>4 DEF Continued, Staged, EntryDone, Chaining
  <2>8. Goal(e)
    BY <1>2, <2>1, <2>4, <2>6, <2>7 DEF Continued, Staged
  <2> QED
    BY <1>2, <2>8 DEF e, c, t
<1>3. CASE ~x.handledEnter /\ x.status # "enter"
  <2>1. t = ExitStage(x)
    BY <1>3 DEF translate_syscall
  <2> HIDE DEF t
  <2>2. /\ Left(x, t) /\ t.status = "enter"
        /\ (ChainRight(x) /\ x.regs.pc = "after") =>
             /\ ChainRight(t)
             /\ x.chain = None => t.chain = None
             /\ t.chain # None =>
                  t.how = "syscall" /\ t.regs.pc = "trap" /\ t.regs.num \in Heap
             /\ t.regs.pc = "trap" => t.chain # None \/ t.restoreRewrite
    BY <2>1, ExitFacts
  <2>3. Goal(t)
    BY <1>3, <2>2 DEF Left, InOrder, ExitDone
  <2> QED
    BY <1>3, <2>3 DEF t
<1> QED
  BY <1>1, <1>2, <1>3

LEMMA SyscallStopFacts ==
  ASSUME NEW x \in Tracee, x.how \in Ways
  PROVE  LET y == OnSyscallStop(x)
         IN  /\ y \in Tracee /\ y.how \in Ways
             /\ y.last = x.last /\ y.suppressed = x.suppressed
             /\ y.seccomp = "enabled" => x.seccomp = "enabled"
             /\ (InOrder(x) /\ (x.status = "enter" => x.regs.pc = "after")) =>
                  /\ ~y.aborted /\ ~y.handledEnter /\ ChainRight(y)
                  /\ y.seccomp \in {"enabled", "disabled"}
                  /\ y.seccomp = "disabled" => y.how = "syscall"
                  /\ IF x.status = "enter" \/ x.handledEnter
                       THEN EntryDone(x, y) ELSE ExitDone(x, y)
<1> DEFINE entry == x.status = "enter"
           w == IF entry THEN "syscall" ELSE "cont"
           p == IF x.seccomp = "enabled" THEN [x EXCEPT !.how = w, !.sysexitPending = entry]
                ELSE x
           t == translate_syscall(p)
           v == p.aborted \/ entry \/ After
           q == IF p.handledEnter
                  THEN [p EXCEPT !.aborted = v, !.handledEnter = FALSE, !.how = "syscall"]
                  ELSE IF entry THEN [t EXCEPT !.skip = After /\ t.cur.num = "void"] ELSE t
           d == [q EXCEPT !.how = "syscall", !.seccomp = "disabled"]
           r == IF q.seccomp = "disabling" THEN d ELSE q
           k == IF entry THEN "ok" ELSE x.status
           g == [x EXCEPT !.seccomp = "disabled", !.status = k]
           y == OnSyscallStop(x)
           Good == InOrder(x) /\ (x.status = "enter" => x.regs.pc = "after")
<1>1. x.seccomp \in {"enabled", "disabling", "disabled"}
  BY DEF Tracee
<1>2. x.seccomp # "disabling" => y = r
  BY <1>1, Zenon DEF OnSyscallStop
<1>3. x.seccomp = "disabling" => y = g
  BY Zenon DEF OnSyscallStop
<1>4. CASE x.seccomp = "disabling"
  <2>1. k \in {"enter", "ok", "error"}
    BY DEF Tracee
  <2> HIDE DEF k, y
  <2>2. /\ g \in Tracee /\ g.how = x.how /\ g.last = x.last /\ g.suppressed = x.suppressed
        /\ g.seccomp = "disabled"
    BY <2>1, Zenon DEF Tracee
  <2> HIDE DEF g
  <2>3. ~Good
    BY <1>4 DEF InOrder
  <2>4. /\ y \in Tracee /\ y.how \in Ways
        /\ y.last = x.last /\ y.suppressed = x.suppressed
        /\ y.seccomp = "enabled" => x.seccomp = "enabled"
    BY <1>3, <1>4, <2>2
  <2> QED
    BY <2>3, <2>4 DEF y
<1>5. CASE x.seccomp # "disabling"
  <2>1. /\ Staged(x, p) /\ p.status = x.status /\ p.how \in Ways
        /\ x.seccomp # "enabled" => p.how = x.how
        /\ x.seccomp = "enabled" /\ entry => p.how = "syscall"
    <3>1. CASE x.seccomp = "enabled"
      <4>1. w \in Ways /\ entry \in BOOLEAN /\ (entry => w = "syscall")
        BY DEF Ways
      <4> DEFINE f == [x EXCEPT !.how = w, !.sysexitPending = entry]
      <4>2. p = f
        BY <3>1
      <4> HIDE DEF w, entry, p
      <4>3. Staged(x, f) /\ f.how = w /\ f.status = x.status
        BY <4>1, SetEntered, Zenon
      <4> HIDE DEF f
      <4> QED
        BY <3>1, <4>1, <4>2, <4>3
    <3>2. CASE x.seccomp # "enabled"
      <4>1. p = x
        BY <3>2
      <4> HIDE DEF p
      <4> QED
        BY <3>2, <4>1 DEF Staged
    <3> QED
      BY <3>1, <3>2
  <2> HIDE DEF p
  <2>2. p \in Tracee /\ (entry <=> p.status = "enter")
    BY <2>1 DEF Staged
  <2>3. /\ q \in Tracee /\ q.how \in {p.how, "syscall"}
        /\ q.last = p.last /\ q.suppressed = p.suppressed
        /\ q.seccomp = p.seccomp \/ (p.seccomp = "enabled" /\ q.seccomp = "disabling")
        /\ (InOrder(p) /\ (p.status = "enter" => p.how = "syscall" /\ p.regs.pc = "after")) =>
             /\ ~q.aborted /\ ~q.handledEnter /\ ChainRight(q)
             /\ IF p.status = "enter" \/ p.handledEnter
                  THEN EntryDone(p, q) ELSE ExitDone(p, q)
    <3> DEFINE w0 == p.aborted \/ p.status = "enter" \/ After
               q0 == IF p.handledEnter
                       THEN [p EXCEPT !.aborted = w0, !.handledEnter = FALSE, !.how = "syscall"]
                       ELSE IF p.status = "enter"
                              THEN [t EXCEPT !.skip = After /\ t.cur.num = "void"] ELSE t
    <3>1. /\ q0 \in Tracee /\ q0.how \in {p.how, "syscall"}
          /\ q0.last = p.last /\ q0.suppressed = p.suppressed
          /\ q0.seccomp = p.seccomp \/ (p.seccomp = "enabled" /\ q0.seccomp = "disabling")
          /\ (InOrder(p) /\ (p.status = "enter" => p.how = "syscall" /\ p.regs.pc = "after")) =>
               /\ ~q0.aborted /\ ~q0.handledEnter /\ ChainRight(q0)
               /\ IF p.status = "enter" \/ p.handledEnter
                    THEN EntryDone(p, q0) ELSE ExitDone(p, q0)
      BY <2>1, <2>2, StageFacts, Zenon
    <3>2. v = w0
      <4>1. v \in BOOLEAN /\ w0 \in BOOLEAN /\ (v <=> w0)
        BY <2>2 DEF Tracee, After
      <4> HIDE DEF v, w0
      <4> QED
        BY <4>1
    <3>3. q = q0
      <4> HIDE DEF v, w0
      <4>1. CASE entry
        <5>1. p.status = "enter"
          BY <2>2, <4>1
        <5> QED
          BY <3>2, <4>1, <5>1
      <4>2. CASE ~entry
        <5>1. p.status # "enter"
          BY <2>2, <4>2
        <5> QED
          BY <3>2, <4>2, <5>1
      <4> QED
        BY <4>1, <4>2
    <3> HIDE DEF q0, q
    <3> QED
      BY <3>1, <3>3
  <2> HIDE DEF q
  <2>4. Good => InOrder(p) /\ (p.status = "enter" => p.how = "syscall" /\ p.regs.pc = "after")
    BY <1>5, <2>1 DEF InOrder, Staged, ChainRight
  <2>5. /\ d \in Tracee /\ d.how = "syscall" /\ d.seccomp = "disabled"
        /\ d.status = q.status /\ d.last = q.last /\ d.handledEnter = q.handledEnter
        /\ d.chain = q.chain /\ d.workaround = q.workaround
        /\ d.suppressed = q.suppressed /\ d.aborted = q.aborted
        /\ d.restoreRewrite = q.restoreRewrite /\ d.regs = q.regs /\ d.nr = q.nr
    BY <2>3, SetDisabled
  <2> HIDE DEF d
  <2>6. /\ r \in Tracee /\ r.how \in {q.how, "syscall"}
        /\ r.status = q.status /\ r.last = q.last /\ r.handledEnter = q.handledEnter
        /\ r.chain = q.chain /\ r.workaround = q.workaround
        /\ r.suppressed = q.suppressed /\ r.aborted = q.aborted
        /\ r.restoreRewrite = q.restoreRewrite /\ r.regs = q.regs /\ r.nr = q.nr
        /\ IF q.seccomp = "disabling" THEN r.seccomp = "disabled" /\ r.how = "syscall"
           ELSE r.seccomp = q.seccomp /\ r.how = q.how
    BY <2>3, <2>5
  <2> HIDE DEF r
  <2>7. y = r
    BY <1>2, <1>5
  <2> HIDE DEF y
  <2>8. /\ r \in Tracee /\ r.how \in Ways
        /\ r.last = x.last /\ r.suppressed = x.suppressed
        /\ r.seccomp = "enabled" => x.seccomp = "enabled"
    BY <2>1, <2>3, <2>6 DEF Staged, Ways
  <2>9. ASSUME Good
        PROVE  /\ ~r.aborted /\ ~r.handledEnter /\ ChainRight(r)
               /\ r.seccomp \in {"enabled", "disabled"}
               /\ r.seccomp = "disabled" => r.how = "syscall"
               /\ IF x.status = "enter" \/ x.handledEnter
                    THEN EntryDone(x, r) ELSE ExitDone(x, r)
    <3>1. /\ ~q.aborted /\ ~q.handledEnter /\ ChainRight(q)
          /\ IF x.status = "enter" \/ x.handledEnter
               THEN EntryDone(x, q) ELSE ExitDone(x, q)
      BY <2>1, <2>3, <2>4, <2>9 DEF Staged, EntryDone, ExitDone
    <3>2. ChainRight(r)
      BY <2>6, <3>1 DEF ChainRight
    <3>3. r.seccomp \in {"enabled", "disabled"}
      BY <1>1, <1>5, <2>1, <2>3, <2>6 DEF Staged
    <3>4. r.seccomp = "disabled" => r.how = "syscall"
      BY <1>5, <2>1, <2>3, <2>6, <2>9 DEF Staged, InOrder
    <3>5. IF x.status = "enter" \/ x.handledEnter THEN EntryDone(x, r) ELSE ExitDone(x, r)
      BY <2>6, <3>1 DEF EntryDone, ExitDone
    <3> QED
      BY <2>6, <3>1, <3>2, <3>3, <3>4, <3>5
  <2> QED
    BY <2>7, <2>8, <2>9 DEF y
<1> QED
  BY <1>4, <1>5

-----------------------------------------------------------------------------
(* The stop at a seccomp event.                                             *)

LEMMA TranslateTyped ==
  ASSUME NEW x \in Tracee, x.how \in Ways
  PROVE  LET t == translate_syscall(x)
         IN  /\ t \in Tracee /\ t.how \in {x.how, "syscall"}
             /\ t.last = x.last /\ t.suppressed = x.suppressed
             /\ t.handledEnter = x.handledEnter
             /\ t.seccomp = x.seccomp \/ (x.seccomp = "enabled" /\ t.seccomp = "disabling")
<1>1. CASE x.status = "enter"
  BY <1>1, EntryFacts DEF Continued
<1>2. CASE x.status # "enter"
  <2>1. translate_syscall(x) = ExitStage(x)
    BY <1>2 DEF translate_syscall
  <2> QED
    BY <2>1, ExitFacts DEF Left
<1> QED
  BY <1>1, <1>2

LEMMA SetHow ==
  ASSUME NEW x \in Tracee, NEW w \in Ways
  PROVE  LET y == [x EXCEPT !.how = w]
         IN  Staged(x, y) /\ y.how = w /\ y.status = x.status
<1>1. w \in Ways \cup {None}
  OBVIOUS
<1> QED
  BY <1>1, Zenon DEF Staged, Tracee

(* Only the assertions and what the next stop needs.                        *)
Asserted(x, y) ==
  /\ y \in Tracee
  /\ y.status = x.status /\ y.last = x.last /\ y.seccomp = x.seccomp
  /\ y.chain = x.chain /\ y.workaround = x.workaround /\ y.suppressed = x.suppressed
  /\ y.restoreRewrite = x.restoreRewrite /\ y.regs = x.regs /\ y.nr = x.nr

LEMMA SetAssertion ==
  ASSUME NEW x \in Tracee, NEW v \in BOOLEAN
  PROVE  LET y == [x EXCEPT !.aborted = v]
         IN  /\ Asserted(x, y) /\ y.aborted = v /\ y.how = x.how
             /\ y.handledEnter = x.handledEnter
BY Zenon DEF Asserted, Tracee

LEMMA SetHandledEnter ==
  ASSUME NEW x \in Tracee, NEW v \in BOOLEAN
  PROVE  LET y == [x EXCEPT !.handledEnter = v]
         IN  /\ Asserted(x, y) /\ y.aborted = x.aborted /\ y.how = x.how
             /\ y.handledEnter = v
BY Zenon DEF Asserted, Tracee

(* What PRoot knows at the event when the stages are in order, and after it. *)
Reported(x) ==
  /\ InOrder(x) /\ ~x.handledEnter /\ x.regs.pc = "after"
  /\ x.chain # None => x.how = "syscall" /\ Necessary(x)
  /\ x.status = "enter" => x.regs.num = x.nr
  /\ IF After THEN x.status = "enter" <=> x.last = "cont" ELSE x.status = "enter"
  /\ x.seccomp = "disabled" => x.last = "syscall"

Passed(x, y) ==
  /\ ~y.aborted /\ ChainRight(y) /\ y.seccomp = x.seccomp /\ y.regs.pc = "after"
  /\ y.seccomp = "disabled" => y.how = "syscall"
  /\ x.chain # None => y.chain # None
  /\ y.chain # None => y.how = "syscall"
  /\ After \/ y.how = "cont" => ~y.handledEnter /\ (y.status = "enter" <=> y.how = "cont")
  /\ ~After /\ y.how = "syscall" =>
       /\ y.nr = x.nr
       /\ y.chain # None => x.chain # None
       /\ IF y.status = "enter" THEN ~y.handledEnter /\ y.regs = x.regs ELSE y.handledEnter

SeccompKept(x, y) ==
  /\ y \in Tracee /\ y.how \in Ways
  /\ y.last = x.last /\ y.suppressed = x.suppressed
  /\ y.seccomp = "enabled" => x.seccomp = "enabled"

LEMMA SeccompStopFacts ==
  ASSUME NEW x \in Tracee, x.how \in Ways
  PROVE  LET y == OnSeccompStop(x)
         IN  SeccompKept(x, y) /\ (Reported(x) => Passed(x, y))
<1> DEFINE entry == x.status = "enter"
           u == [x EXCEPT !.skip = FALSE]
           va == u.aborted \/ u.last = "cont"
           vb == u.aborted \/ ~entry
           wa == u.last
           a == [u EXCEPT !.how = wa, !.aborted = va]
           b == [u EXCEPT !.aborted = vb]
           us == [u EXCEPT !.how = "syscall"]
           ts == translate_syscall(us)
           c1 == [ts EXCEPT !.how = "syscall"]
           c2 == [u EXCEPT !.how = "syscall", !.aborted = vb]
           uc == [u EXCEPT !.how = "cont"]
           z == translate_syscall(uc)
           w == IF z.seccomp = "disabling" THEN "syscall" ELSE z.how
           vz == z.aborted \/ ~entry
           h == z.handledEnter \/ (~After /\ w = "syscall")
           d == [z EXCEPT !.how = w, !.aborted = vz, !.handledEnter = h]
           exit == x.nr \in FilterSysexit \/ Necessary(x)
           y == OnSeccompStop(x)
           Goal(r) == SeccompKept(x, r) /\ (Reported(x) => Passed(x, r))
<1>1. y = IF After /\ ~entry THEN a
          ELSE IF u.seccomp # "enabled" THEN b
          ELSE IF exit THEN IF After THEN c1 ELSE c2
          ELSE d
  BY Zenon DEF OnSeccompStop
<1>2. Staged(x, u) /\ u.how = x.how /\ u.status = x.status
  BY SetSkip
<1>3. u \in Tracee
  BY <1>2 DEF Staged
<1>4. Goal(a) \/ ~(After /\ ~entry)
  <2>1. va \in BOOLEAN /\ wa \in Ways /\ (va <=> x.aborted \/ x.last = "cont") /\ wa = x.last
    BY <1>2, <1>3 DEF Tracee, Staged
  <2> HIDE DEF va, wa, u
  <2>2. Asserted(u, a) /\ a.aborted = va /\ a.how = wa /\ a.handledEnter = u.handledEnter
    <3>1. wa \in Ways \cup {None}
      BY <2>1
    <3> QED
      BY <1>3, <2>1, <3>1, Zenon DEF Asserted, Tracee
  <2> HIDE DEF a
  <2>3. SeccompKept(x, a)
    BY <1>2, <2>1, <2>2 DEF SeccompKept, Asserted, Staged
  <2>4. (After /\ ~entry /\ Reported(x)) => Passed(x, a)
    BY <1>2, <2>1, <2>2 DEF Reported, InOrder, Passed, Asserted, Staged, ChainRight, Ways
  <2> QED
    BY <2>3, <2>4
<1>5. Goal(b) \/ (After /\ ~entry) \/ u.seccomp = "enabled"
  <2>1. vb \in BOOLEAN /\ (vb <=> x.aborted \/ ~entry)
    BY <1>2, <1>3 DEF Tracee, Staged
  <2> HIDE DEF vb, u
  <2>2. Asserted(u, b) /\ b.aborted = vb /\ b.how = u.how /\ b.handledEnter = u.handledEnter
    BY <1>3, <2>1, SetAssertion, Zenon
  <2> HIDE DEF b
  <2>3. SeccompKept(x, b)
    BY <1>2, <2>1, <2>2 DEF SeccompKept, Asserted, Staged
  <2>4. (~(After /\ ~entry) /\ u.seccomp # "enabled" /\ Reported(x)) => Passed(x, b)
    BY <1>2, <2>1, <2>2 DEF Reported, InOrder, Passed, Asserted, Staged, ChainRight, Ways
  <2> QED
    BY <2>3, <2>4
<1>6. Goal(c2) \/ (After /\ ~entry) \/ After \/ u.seccomp # "enabled"
  <2>1. vb \in BOOLEAN /\ (vb <=> x.aborted \/ ~entry)
    BY <1>2, <1>3 DEF Tracee, Staged
  <2> DEFINE ws == "syscall"
             c == [u EXCEPT !.how = ws, !.aborted = vb]
  <2>2. ws \in Ways
    BY DEF Ways
  <2> HIDE DEF vb, u, ws
  <2>3. Asserted(u, c) /\ c.aborted = vb /\ c.how = ws /\ c.handledEnter = u.handledEnter
    <3>1. ws \in Ways \cup {None}
      BY <2>2
    <3> QED
      BY <1>3, <2>1, <3>1, Zenon DEF Asserted, Tracee
  <2>4. c = c2 /\ ws = "syscall"
    BY DEF ws
  <2> HIDE DEF c, c2
  <2>5. SeccompKept(x, c)
    BY <1>2, <2>1, <2>3, <2>4 DEF SeccompKept, Asserted, Staged, Ways
  <2>6. (~After /\ Reported(x)) => Passed(x, c)
    BY <1>2, <2>1, <2>3, <2>4 DEF Reported, InOrder, Passed, Asserted, Staged, ChainRight
  <2> QED
    BY <2>4, <2>5, <2>6
<1>7. Goal(c1) \/ (After /\ ~entry) \/ ~After \/ u.seccomp # "enabled"
  <2> SUFFICES ASSUME After, entry PROVE Goal(c1)
    OBVIOUS
  <2> DEFINE ws == "syscall"
             us2 == [u EXCEPT !.how = ws]
             c == [ts EXCEPT !.how = ws]
  <2>1. ws \in Ways
    BY DEF Ways
  <2>2. us = us2 /\ c = c1 /\ ws = "syscall"
    OBVIOUS
  <2> HIDE DEF ws, u, c1, us, ts
  <2>3. Staged(u, us2) /\ us2.how = ws /\ us2.status = u.status
    BY <1>3, <2>1, SetHow, Zenon
  <2> HIDE DEF us2
  <2>4. Staged(x, us) /\ us.how = "syscall" /\ us.status = "enter" /\ us.how \in Ways
    BY <1>2, <2>1, <2>2, <2>3, StagedTransitive
  <2>5. us \in Tracee
    BY <2>4 DEF Staged
  <2>6. /\ Continued(us, ts)
        /\ ts.how \in {us.how, "syscall"}
        /\ ts.status = "enter" <=> ts.how = "cont"
        /\ ts.regs.pc = us.regs.pc
    BY <2>4, <2>5, EntryFacts, Zenon DEF ts
  <2>7. ts \in Tracee
    BY <2>6 DEF Continued
  <2>8. Staged(ts, c) /\ c.how = ws /\ c.status = ts.status
    BY <2>1, <2>7, SetHow, Zenon
  <2> HIDE DEF c
  <2>9. SeccompKept(x, c)
    BY <2>1, <2>2, <2>4, <2>6, <2>8 DEF SeccompKept, Continued, Staged
  <2>10. ASSUME Reported(x) PROVE Passed(x, c)
    <3>1. ~us.aborted /\ ChainRight(us)
      BY <2>4, <2>10 DEF Reported, InOrder, Staged, ChainRight
    <3>2. ~ts.aborted /\ ChainRight(ts)
      BY <2>5, <2>6, <3>1, ContinuedChain
    <3>3. ~c.aborted /\ ChainRight(c)
      BY <2>8, <3>2 DEF Staged, ChainRight
    <3> QED
      BY <2>2, <2>4, <2>6, <2>8, <2>10, <3>3 DEF Reported, InOrder, Passed, Continued, Staged
  <2> QED
    BY <2>2, <2>9, <2>10
<1>8. Goal(d) \/ (After /\ ~entry) \/ u.seccomp # "enabled" \/ exit
  <2> SUFFICES ASSUME ~(After /\ ~entry), u.seccomp = "enabled", ~exit PROVE Goal(d)
    OBVIOUS
  <2> DEFINE wc == "cont"
             uc2 == [u EXCEPT !.how = wc]
  <2>1. wc \in Ways
    BY DEF Ways
  <2>2. uc = uc2 /\ wc = "cont"
    OBVIOUS
  <2> HIDE DEF wc, u, uc, z
  <2>3. Staged(u, uc2) /\ uc2.how = wc /\ uc2.status = u.status
    BY <1>3, <2>1, SetHow, Zenon
  <2> HIDE DEF uc2
  <2>4. Staged(x, uc) /\ uc.how = "cont" /\ uc.status = x.status /\ uc.how \in Ways
    BY <1>2, <2>1, <2>2, <2>3, StagedTransitive
  <2>5. uc \in Tracee
    BY <2>4 DEF Staged
  <2>6. /\ z \in Tracee /\ z.how \in {uc.how, "syscall"}
        /\ z.last = uc.last /\ z.suppressed = uc.suppressed
        /\ z.handledEnter = uc.handledEnter
        /\ z.seccomp = uc.seccomp \/ (uc.seccomp = "enabled" /\ z.seccomp = "disabling")
    BY <2>4, <2>5, TranslateTyped, Zenon DEF z
  <2>7. w \in Ways /\ vz \in BOOLEAN /\ h \in BOOLEAN
    BY <2>4, <2>6 DEF Tracee, Ways
  <2>8. /\ z.seccomp # "disabling" => w = z.how
        /\ vz <=> z.aborted \/ ~entry
        /\ h <=> z.handledEnter \/ (~After /\ w = "syscall")
    OBVIOUS
  <2> HIDE DEF w, vz, h
  <2>9. Asserted(z, d) /\ d.aborted = vz /\ d.how = w /\ d.handledEnter = h
    <3>1. w \in Ways \cup {None} /\ z \in Tracee
      BY <2>6, <2>7
    <3> QED
      BY <2>7, <3>1, Zenon DEF Asserted, Tracee
  <2> HIDE DEF d
  <2>10. SeccompKept(x, d)
    BY <2>4, <2>6, <2>7, <2>9 DEF SeccompKept, Asserted, Staged
  <2>11. ASSUME Reported(x) PROVE Passed(x, d)
    <3>1. entry
      BY <2>11 DEF Reported
    <3>2. /\ Continued(uc, z)
          /\ z.how \in {uc.how, "syscall"}
          /\ z.status = "enter" <=> z.how = "cont"
          /\ z.how # uc.how => z.nr = uc.nr
          /\ z.regs.pc = uc.regs.pc
      BY <2>4, <2>5, <3>1, EntryFacts, Zenon DEF z
    <3>3. uc.regs.num # "brk" /\ x.chain = None
      BY <2>4, <2>11, <3>1 DEF Reported, Staged, FilterSysexit, Necessary, Chaining
    <3>4. z.chain = uc.chain /\ z.workaround = uc.workaround /\ z.aborted = uc.aborted
      BY <3>2, <3>3 DEF Continued
    <3>5. z.seccomp # "disabling"
      BY <2>4, <2>11, <3>2 DEF Reported, InOrder, Continued, Staged
    <3>6. d.chain = None /\ d.workaround = "inactive" /\ ~d.aborted /\ d.regs.pc = "after"
      BY <2>4, <2>8, <2>9, <2>11, <3>1, <3>2, <3>3, <3>4
         DEF Reported, InOrder, Staged, Asserted, ChainRight
    <3>7. ChainRight(d)
      BY <3>6 DEF ChainRight
    <3>8. d.seccomp = x.seccomp /\ d.seccomp = "enabled"
      BY <1>2, <2>4, <2>6, <2>9, <2>11, <3>2, <3>5 DEF Continued, Staged, Asserted
    <3>9. d.how = z.how /\ d.status = z.status /\ ~z.handledEnter /\ d.nr = z.nr
      BY <2>4, <2>6, <2>8, <2>9, <2>11, <3>5 DEF Reported, Staged, Asserted
    <3>10. After \/ d.how = "cont" => ~d.handledEnter /\ (d.status = "enter" <=> d.how = "cont")
      BY <2>8, <2>9, <3>2, <3>5, <3>9
    <3>11. ~After /\ d.how = "syscall" => d.nr = x.nr /\ d.status # "enter" /\ d.handledEnter
      BY <2>4, <2>8, <2>9, <3>2, <3>5, <3>9 DEF Staged
    <3> QED
      BY <3>3, <3>6, <3>7, <3>8, <3>10, <3>11 DEF Passed
  <2> QED
    BY <2>10, <2>11
<1> HIDE DEF a, b, c1, c2, d, u, y, entry
<1>9. Goal(y)
  BY <1>1, <1>4, <1>5, <1>6, <1>7, <1>8
<1> QED
  BY <1>9 DEF y

-----------------------------------------------------------------------------
(* The stop for SIGSYS.                                                     *)

LEMMA SigsysFacts ==
  ASSUME NEW x \in Tracee, x.how \in Ways
  PROVE  LET y == OnSigsys(x)
         IN  /\ y \in Tracee /\ y.how \in {x.how, "syscall"} /\ y.status = "enter"
             /\ y.last = x.last /\ y.suppressed = x.suppressed
             /\ y.handledEnter = x.handledEnter /\ y.aborted = x.aborted
             /\ \/ y.seccomp = x.seccomp
                \/ x.status # "enter" /\ x.seccomp = "enabled" /\ y.seccomp = "disabling"
             /\ (/\ ChainRight(x) /\ x.chain = None
                 /\ x.status # "enter" => x.regs.pc = "after"
                 /\ x.regs.pc = "trap" => x.restoreRewrite) =>
                  /\ ChainRight(y) /\ y.chain = None
                  /\ y.regs.pc = "trap" => y.restoreRewrite
<1> DEFINE e == IF x.status = "enter" THEN x ELSE translate_syscall(x)
           k == [e EXCEPT !.skip = FALSE]
           skips == e.skip \/ (After /\ sigsys = "void")
           r == IF skips THEN k ELSE handle_seccomp_event(e)
           y == OnSigsys(x)
           Good == /\ ChainRight(x) /\ x.chain = None
                   /\ x.status # "enter" => x.regs.pc = "after"
                   /\ x.regs.pc = "trap" => x.restoreRewrite
           Goal(a, b) ==
             /\ b \in Tracee /\ b.how \in {a.how, "syscall"} /\ b.status = "enter"
             /\ b.last = a.last /\ b.suppressed = a.suppressed
             /\ b.handledEnter = a.handledEnter /\ b.aborted = a.aborted
<1>1. y = r
  BY Zenon DEF OnSigsys
<1>2. /\ Goal(x, e)
      /\ \/ e.seccomp = x.seccomp
         \/ x.status # "enter" /\ x.seccomp = "enabled" /\ e.seccomp = "disabling"
      /\ Good => ChainRight(e) /\ e.chain = None /\ (e.regs.pc = "trap" => e.restoreRewrite)
  <2>1. CASE x.status = "enter"
    <3>1. e = x
      BY <2>1
    <3> HIDE DEF e
    <3> QED
      BY <2>1, <3>1
  <2>2. CASE x.status # "enter"
    <3>1. e = ExitStage(x)
      BY <2>2 DEF translate_syscall
    <3> HIDE DEF e
    <3>2. /\ Left(x, e) /\ e.status = "enter"
          /\ (ChainRight(x) /\ x.regs.pc = "after") =>
               /\ ChainRight(e)
               /\ x.chain = None => e.chain = None
               /\ e.regs.pc = "trap" => e.chain # None \/ e.restoreRewrite
      BY <3>1, ExitFacts
    <3> QED
      BY <2>2, <3>2 DEF Left
  <2> QED
    BY <2>1, <2>2
<1> HIDE DEF e
<1>3. /\ Goal(e, r) /\ r.seccomp = e.seccomp
      /\ r.chain = e.chain /\ r.workaround = e.workaround
      /\ r.regs.pc = "trap" => r.restoreRewrite \/ (e.regs.pc = "trap" /\ ~e.restoreRewrite)
  <2>1. CASE skips
    <3>1. Staged(e, k) /\ k.how = e.how /\ k.status = e.status
      BY <1>2, SetSkip
    <3>2. r = k
      BY <2>1
    <3> HIDE DEF k, r
    <3> QED
      BY <1>2, <3>1, <3>2 DEF Staged
  <2>2. CASE ~skips
    <3>1. r = handle_seccomp_event(e)
      BY <2>2
    <3> HIDE DEF r
    <3>2. Ended(e, r) /\ (r.regs.pc = "trap" => r.restoreRewrite \/ e.regs.pc = "trap")
      BY <1>2, <3>1, HandleFacts
    <3> QED
      BY <3>2 DEF Ended
  <2> QED
    BY <2>1, <2>2
<1> HIDE DEF r
<1>4. /\ Goal(x, r)
      /\ \/ r.seccomp = x.seccomp
         \/ x.status # "enter" /\ x.seccomp = "enabled" /\ r.seccomp = "disabling"
  BY <1>2, <1>3
<1>5. Good => ChainRight(r) /\ r.chain = None /\ (r.regs.pc = "trap" => r.restoreRewrite)
  BY <1>2, <1>3 DEF ChainRight
<1> HIDE DEF y
<1> QED
  BY <1>1, <1>4, <1>5 DEF y

-----------------------------------------------------------------------------
(* The thread and the kernel.                                               *)

(* A handler ran too early, or the acceleration was given up: that lasts.   *)
LEMMA RegularBefore ==
  ASSUME host' = host, mixed => mixed', s'.seccomp = "enabled" => s.seccomp = "enabled",
         Regular'
  PROVE  Regular
BY DEF Regular, Unpaired

(* What a handler interrupted stays.                                        *)
FrameKept ==
  frame' # None =>
    frame # None /\ frame'.regs = frame.regs /\ DOMAIN frame' = DOMAIN frame

LEMMA FrameCall ==
  ASSUME NEW f, DOMAIN f = {"regs", "call", "called"}, NEW c
  PROVE  LET g == [f EXCEPT !.call = c]
         IN  g.regs = f.regs /\ DOMAIN g = DOMAIN f
OBVIOUS

LEMMA FrameCalled ==
  ASSUME NEW f, DOMAIN f = {"regs", "call", "called"}, NEW c
  PROVE  LET g == [f EXCEPT !.call = c, !.called = TRUE]
         IN  g.regs = f.regs /\ DOMAIN g = DOMAIN f
OBVIOUS

LEMMA CountStopFrame ==
  ASSUME Types, CountStop
  PROVE  FrameKept
<1>1. CASE frame = None
  BY <1>1 DEF CountStop, FrameKept
<1>2. CASE frame # None
  <2>1. PICK c : frame' = [frame EXCEPT !.call = c]
    BY <1>2 DEF CountStop
  <2>2. DOMAIN frame = {"regs", "call", "called"}
    BY <1>2 DEF Types
  <2> QED
    BY <1>2, <2>1, <2>2, FrameCall DEF FrameKept
<1> QED
  BY <1>1, <1>2

(* The registers of the thread change, nothing PRoot keeps.                 *)
Moved(x, y) ==
  /\ y \in Tracee
  /\ y.status = x.status /\ y.how = x.how /\ y.last = x.last /\ y.seccomp = x.seccomp
  /\ y.handledEnter = x.handledEnter /\ y.chain = x.chain /\ y.workaround = x.workaround
  /\ y.suppressed = x.suppressed /\ y.aborted = x.aborted
  /\ y.restoreRewrite = x.restoreRewrite

LEMMA SetRegs ==
  ASSUME NEW x \in Tracee, NEW b \in Registers
  PROVE  LET y == [x EXCEPT !.regs = b]
         IN  Moved(x, y) /\ y.regs = b /\ y.nr = x.nr
BY Zenon DEF Moved, Tracee

LEMMA MovedSame ==
  ASSUME Types, s' = s
  PROVE  Moved(s, s')
BY DEF Types, Moved

LEMMA EntersFacts ==
  ASSUME Types, NEW regs \in Registers, Enters(regs)
  PROVE  /\ Moved(s, s')
         /\ s'.regs.pc = "after" /\ s'.regs.num = regs.num /\ s'.nr = regs.num
         /\ entryA' \in Values /\ at' = "entry"
<1> DEFINE first == IF regs.num = "void" THEN Value("enosys") ELSE regs.args[1]
           a == [regs.args EXCEPT ![1] = first]
           p == "after"
           b == [regs EXCEPT !.pc = p, !.args = a]
           n == regs.num
           x == s
           y == [x EXCEPT !.regs = b, !.nr = n]
<1>1. n \in Number /\ regs.args \in [1 .. 6 -> Values] /\ regs.args[1] \in Values
  BY DEF Registers
<1>2. first \in Values
  BY <1>1 DEF Values, Results
<1>3. a \in [1 .. 6 -> Values]
  <2> HIDE DEF first
  <2> QED
    BY <1>1, <1>2
<1>4. s' = y
  BY DEF Enters
<1>5. p \in {"after", "trap"} /\ p = "after" /\ n = regs.num /\ x \in Tracee /\ x = s
  BY DEF Types
<1> HIDE DEF a, p, n, x
<1>6. b \in Registers /\ b.pc = p /\ b.num = regs.num
  BY <1>3, <1>5, Zenon DEF Registers
<1> HIDE DEF b
<1>7. Moved(x, y) /\ y.regs = b /\ y.nr = n
  BY <1>1, <1>5, <1>6, Zenon DEF Moved, Tracee
<1> HIDE DEF y
<1>8. entryA' \in Values /\ at' = "entry"
  BY <1>1 DEF Enters
<1> QED
  BY <1>4, <1>5, <1>6, <1>7, <1>8

LEMMA NoCallFacts ==
  ASSUME NEW p \in {"top", "handler", "scratch"}
  PROVE  NoCall(p) \in Registers /\ NoCall(p).pc = "after"
<1>1. GuestArgs \in [1 .. 6 -> Values]
  BY DEF GuestArgs, Values
<1>2. None \in Number
  BY DEF Number
<1> QED
  BY <1>1, <1>2 DEF NoCall, Registers

LEMMA KindsTyped ==
  ASSUME NEW kind \in Kinds \cup LaterKinds \cup HandlerKinds
  PROVE  kind \in Number
BY SyscallsAssumption DEF Number, Numbers

(* The guest makes a call, its own or one PRoot has it make.                *)
LEMMA EnteredKept ==
  ASSUME IInv, NEW regs \in Registers, Enters(regs), at = "user", FrameKept,
         UNCHANGED <<host, trace, sigsys, signals>>, mixed' \in BOOLEAN, mixed => mixed',
         made' \in Nat, made' <= MaxCalls,
         Control => (s.chain # None => regs.num \in Heap)
  PROVE  IInv'
<1>1. Types /\ Accounted
  BY DEF IInv
<1>2. /\ Moved(s, s')
      /\ s'.regs.pc = "after" /\ s'.regs.num = regs.num /\ s'.nr = regs.num
      /\ entryA' \in Values /\ at' = "entry"
  BY <1>1, EntersFacts
<1>3. sigsys = None
  BY <1>1 DEF Types
<1>4. Types'
  BY <1>1, <1>2, <1>3 DEF Types, FrameKept, Moved
<1>5. Accounted'
  BY <1>1, <1>2 DEF Accounted, Moved
<1>6. ASSUME Regular' PROVE Control'
  <2>1. Control
    BY <1>2, <1>6, RegularBefore DEF IInv, Moved
  <2>2. ChainSafe'
    BY <1>2, <2>1, <1>3 DEF Control, ChainSafe, ChainRight, Moved
  <2>3. Retrapped' /\ Paired' /\ Numbered'
    BY <1>2, <2>1, <1>3 DEF Control, Retrapped, Paired, Numbered, Moved, FrameKept, Expects
  <2> QED
    BY <1>2, <2>1, <2>2, <2>3 DEF Control, Moved
<1> QED
  BY <1>4, <1>5, <1>6 DEF IInv

LEMMA CallKept ==
  ASSUME IInv, NEW kind \in Kinds \cup LaterKinds, Call(kind)
  PROVE  IInv'
<1> DEFINE b == NoCall(s.regs.sp)
           regs == [b EXCEPT !.num = kind]
<1>1. Types
  BY DEF IInv
<1>2. b \in Registers /\ kind \in Number
  BY <1>1, NoCallFacts, KindsTyped DEF Types, Tracee, Registers
<1>3. Enters(regs)
  BY DEF Call
<1> HIDE DEF b
<1>4. regs \in Registers
  BY <1>2, SetNum, Zenon
<1> HIDE DEF regs
<1>5. at = "user" /\ s.regs.pc = "after"
  BY DEF Call, InUser
<1>6. UNCHANGED <<host, trace, sigsys, signals, mixed, frame>>
  BY DEF Call
<1>7. made' \in Nat /\ made' <= MaxCalls
  BY <1>1, SyscallsAssumption DEF Call, Types
<1>8. FrameKept
  BY <1>6 DEF FrameKept
<1>9. Control => s.chain = None
  BY <1>5 DEF Control, ChainSafe
<1>10. mixed' \in BOOLEAN /\ (mixed => mixed')
  BY <1>1 DEF Call, Types
<1> QED
  BY <1>3, <1>4, <1>5, <1>6, <1>7, <1>8, <1>9, <1>10, EnteredKept

LEMMA HandlerCallKept ==
  ASSUME IInv, NEW kind \in HandlerKinds, HandlerCall(kind)
  PROVE  IInv'
<1> DEFINE b == NoCall(s.regs.sp)
           regs == [b EXCEPT !.num = kind]
<1>1. Types
  BY DEF IInv
<1>2. b \in Registers /\ kind \in Number
  BY <1>1, NoCallFacts, KindsTyped DEF Types, Tracee, Registers
<1>3. Enters(regs)
  BY DEF HandlerCall
<1> HIDE DEF b
<1>4. regs \in Registers
  BY <1>2, SetNum, Zenon
<1> HIDE DEF regs
<1>5. at = "user" /\ s.regs.pc = "after"
  BY DEF HandlerCall, InUser
<1>6. UNCHANGED <<host, trace, sigsys, signals, mixed, made>>
  BY DEF HandlerCall
<1>7. made' \in Nat /\ made' <= MaxCalls
  BY <1>1, <1>6 DEF Types
<1>8. FrameKept
  <2>1. frame # None /\ DOMAIN frame = {"regs", "call", "called"}
    BY <1>1 DEF HandlerCall, InUser, Types
  <2>2. PICK c : frame' = [frame EXCEPT !.call = c, !.called = TRUE]
    BY DEF HandlerCall
  <2> QED
    BY <2>1, <2>2, FrameCalled DEF FrameKept
<1>9. Control => s.chain = None
  BY <1>5 DEF Control, ChainSafe
<1>10. mixed' \in BOOLEAN /\ (mixed => mixed')
  BY <1>1 DEF HandlerCall, Types
<1> QED
  BY <1>3, <1>4, <1>5, <1>6, <1>7, <1>8, <1>9, <1>10, EnteredKept

LEMMA SigreturnKept ==
  ASSUME IInv, Sigreturn
  PROVE  IInv'
<1> DEFINE b == s.regs
           n == "rt_sigreturn"
           regs == [b EXCEPT !.num = n]
<1>1. Types
  BY DEF IInv
<1>2. b \in Registers /\ n \in Number
  BY <1>1 DEF Types, Tracee, Number, Numbers
<1>3. Enters(regs)
  BY DEF Sigreturn
<1> HIDE DEF b, n
<1>4. regs \in Registers
  BY <1>2, SetNum, Zenon
<1> HIDE DEF regs
<1>5. at = "user" /\ s.regs.pc = "after"
  BY DEF Sigreturn, InUser
<1>6. UNCHANGED <<host, trace, sigsys, signals, frame, made>>
  BY DEF Sigreturn
<1>10. mixed' \in BOOLEAN /\ (mixed => mixed')
  BY <1>1 DEF Sigreturn, Types, Tracee
<1>7. made' \in Nat /\ made' <= MaxCalls
  BY <1>1, <1>6 DEF Types
<1>8. FrameKept
  BY <1>6 DEF FrameKept
<1>9. Control => s.chain = None
  BY <1>5 DEF Control, ChainSafe
<1> QED
  BY <1>3, <1>4, <1>5, <1>6, <1>7, <1>8, <1>9, <1>10, EnteredKept

LEMMA RetrapKept ==
  ASSUME IInv, Retrap
  PROVE  IInv'
<1>1. Types
  BY DEF IInv
<1>2. s.regs \in Registers
  BY <1>1 DEF Types, Tracee
<1>3. Enters(s.regs) /\ at = "user"
  BY DEF Retrap
<1>4. UNCHANGED <<host, trace, sigsys, signals, mixed, frame, made>>
  BY DEF Retrap
<1>5. made' \in Nat /\ made' <= MaxCalls
  BY <1>1, <1>4 DEF Types
<1>6. FrameKept
  BY <1>4 DEF FrameKept
<1>7. Control => (s.chain # None => s.regs.num \in Heap)
  BY <1>3 DEF Control, ChainSafe
<1>10. mixed' \in BOOLEAN /\ (mixed => mixed')
  BY <1>1 DEF Retrap, Types
<1> QED
  BY <1>2, <1>3, <1>4, <1>5, <1>6, <1>7, <1>10, EnteredKept

LEMMA ReturnKept ==
  ASSUME IInv, Return
  PROVE  IInv'
<1>1. Types /\ Accounted
  BY DEF IInv
<1>2. UNCHANGED <<host, s, at, entryA, trace, sigsys, signals, made, mixed>>
  BY DEF Return
<1>3. FrameKept
  <2>1. CASE frame = None
    BY <2>1 DEF Return, FrameKept
  <2>2. CASE frame # None
    <3>1. DOMAIN frame = {"regs", "call", "called"}
      BY <1>1, <2>2 DEF Types
    <3>2. frame' = [frame EXCEPT !.call = None]
      BY <2>2 DEF Return
    <3> QED
      BY <2>2, <3>1, <3>2, FrameCall DEF FrameKept
  <2> QED
    BY <2>1, <2>2
<1>4. Types'
  BY <1>1, <1>2, <1>3 DEF Types, FrameKept
<1>5. Accounted'
  BY <1>1, <1>2 DEF Accounted
<1>6. ASSUME Regular' PROVE Control'
  <2>1. Control
    BY <1>2, <1>6, RegularBefore DEF IInv
  <2>2. ChainSafe' /\ Paired' /\ Numbered'
    BY <1>2, <2>1 DEF Control, ChainSafe, ChainRight, Paired, Numbered, Expects, Late
  <2>3. Retrapped'
    BY <1>2, <1>3, <2>1 DEF Control, Retrapped, FrameKept, Expects
  <2> QED
    BY <1>2, <2>1, <2>2, <2>3 DEF Control
<1> QED
  BY <1>4, <1>5, <1>6 DEF IInv

(* The kernel goes on with a call, without a change of the registers.       *)
LEMMA EntryKept ==
  ASSUME IInv, Entry
  PROVE  IInv'
<1>1. Types /\ Accounted
  BY DEF IInv
<1>2. /\ at = "entry" /\ at' \in {"enter", "filter"}
      /\ UNCHANGED <<host, s, entryA, trace, sigsys, signals, call, frame, made, mixed>>
      /\ at' = "enter" => host.order = "new" /\ trace = "syscall"
      /\ at' = "filter" => host.order # "new" \/ trace # "syscall"
  BY DEF Entry
<1>3. trace \in Ways /\ host.order \in {"old", "new"}
  BY <1>1 DEF Types, Tracee, AllHosts
<1>4. Types'
  BY <1>1, <1>2 DEF Types, Stops
<1>5. Accounted'
  BY <1>1, <1>2 DEF Accounted
<1>6. ASSUME Regular' PROVE Control'
  <2>1. Control
    BY <1>2, <1>6, RegularBefore DEF IInv
  <2>2. ChainSafe' /\ Numbered' /\ Retrapped'
    BY <1>2, <2>1 DEF Control, ChainSafe, ChainRight, Numbered, Retrapped, Expects, InSyscall
  <2>3. Expects(s) /\ ~s.handledEnter
    BY <1>2, <2>1 DEF Control, Paired
  <2>4. Paired'
    BY <1>2, <1>3, <2>3 DEF Paired, Expects, Ways
  <2> QED
    BY <1>2, <2>1, <2>2, <2>4 DEF Control
<1> QED
  BY <1>4, <1>5, <1>6 DEF IInv

LEMMA LeaveKept ==
  ASSUME IInv, Leave
  PROVE  IInv'
<1>1. Types /\ Accounted
  BY DEF IInv
<1>2. /\ at = "leave" /\ at' = IF trace = "syscall" THEN "exit" ELSE "signals"
      /\ UNCHANGED <<host, s, entryA, trace, sigsys, signals, call, frame, made, mixed>>
  BY DEF Leave
<1>3. trace \in Ways
  BY <1>1 DEF Types, Tracee
<1>4. Types'
  BY <1>1, <1>2 DEF Types, Stops
<1>5. Accounted'
  BY <1>1, <1>2 DEF Accounted
<1>6. ASSUME Regular' PROVE Control'
  <2>1. Control
    BY <1>2, <1>6, RegularBefore DEF IInv
  <2>2. ChainSafe' /\ Numbered' /\ Retrapped'
    BY <1>2, <2>1 DEF Control, ChainSafe, ChainRight, Numbered, Retrapped, Expects, InSyscall
  <2>3. Paired'
    BY <1>2, <1>3, <2>1 DEF Control, Paired, Expects, Late, Ways
  <2> QED
    BY <1>2, <2>1, <2>2, <2>3 DEF Control
<1> QED
  BY <1>4, <1>5, <1>6 DEF IInv

LEMMA SignalsKept ==
  ASSUME IInv, Signals
  PROVE  IInv'
<1>1. Types /\ Accounted
  BY DEF IInv
<1>2. /\ at = "signals" /\ at' \in {"SIGSYS", "signal", "user"}
      /\ UNCHANGED <<host, s, entryA, trace, sigsys, signals, call, frame, made, mixed>>
      /\ at' = "SIGSYS" <=> sigsys # None
      /\ at' = "signal" => signals.pending > 0
  BY DEF Signals
<1>3. Types'
  BY <1>1, <1>2 DEF Types, Stops
<1>4. Accounted'
  BY <1>1, <1>2 DEF Accounted
<1>5. ASSUME Regular' PROVE Control'
  <2>1. Control
    BY <1>2, <1>5, RegularBefore DEF IInv
  <2>2. ChainSafe' /\ Numbered' /\ Retrapped'
    BY <1>2, <2>1 DEF Control, ChainSafe, ChainRight, Numbered, Retrapped, Expects, InSyscall
  <2>3. Paired'
    BY <1>2, <2>1 DEF Control, Paired, Expects, Late
  <2> QED
    BY <1>2, <2>1, <2>2, <2>3 DEF Control
<1> QED
  BY <1>3, <1>4, <1>5 DEF IInv

LEMMA KillKept ==
  ASSUME IInv, Kill
  PROVE  IInv'
<1>1. Types /\ Accounted
  BY DEF IInv
<1>2. /\ at' = IF at = "user" THEN "signals" ELSE at
      /\ signals.toCome > 0
      /\ signals' = [signals EXCEPT !.toCome = @ - 1, !.pending = @ + 1]
      /\ UNCHANGED <<host, s, entryA, trace, sigsys, call, frame, made, mixed>>
  BY DEF Kill
<1>3. signals \in [toCome : Nat, pending : Nat, delivered : Nat, overwritten : Nat]
  BY <1>1 DEF Types
<1>4. /\ signals' \in [toCome : Nat, pending : Nat, delivered : Nat, overwritten : Nat]
      /\ signals'.pending = signals.pending + 1 /\ signals'.toCome = signals.toCome - 1
      /\ signals'.delivered = signals.delivered
      /\ signals'.overwritten = signals.overwritten
  <2> DEFINE c == signals
             t == signals.toCome - 1
             p == signals.pending + 1
             u == [c EXCEPT !.toCome = t, !.pending = p]
  <2>1. /\ c \in [toCome : Nat, pending : Nat, delivered : Nat, overwritten : Nat]
        /\ t \in Nat /\ p \in Nat /\ signals' = u
    BY <1>2, <1>3
  <2> HIDE DEF c, t, p
  <2>2. /\ u \in [toCome : Nat, pending : Nat, delivered : Nat, overwritten : Nat]
        /\ u.pending = p /\ u.toCome = t
        /\ u.delivered = c.delivered /\ u.overwritten = c.overwritten
    BY <2>1, Zenon
  <2> HIDE DEF u
  <2> QED
    BY <2>1, <2>2 DEF c, t, p
<1>5. Types'
  BY <1>1, <1>2, <1>3, <1>4 DEF Types, Stops
<1>6. Accounted'
  BY <1>1, <1>2, <1>3, <1>4 DEF Accounted
<1>7. ASSUME Regular' PROVE Control'
  <2>1. Control
    BY <1>2, <1>7, RegularBefore DEF IInv
  <2>2. ChainSafe' /\ Numbered' /\ Retrapped'
    BY <1>2, <2>1 DEF Control, ChainSafe, ChainRight, Numbered, Retrapped, Expects, InSyscall
  <2>3. Paired'
    BY <1>2, <2>1 DEF Control, Paired, Expects, Late
  <2> QED
    BY <1>2, <2>1, <2>2, <2>3 DEF Control
<1> QED
  BY <1>5, <1>6, <1>7 DEF IInv

(* The policy, then the filter of PRoot.                                    *)
LEMMA FilterKept ==
  ASSUME IInv, Filter
  PROVE  IInv'
<1>1. Types /\ Accounted
  BY DEF IInv
<1>2. /\ at = "filter" /\ UNCHANGED <<host, entryA, trace, signals, call, frame, made, mixed>>
  BY DEF Filter
<1>3. trace \in Ways /\ host.order \in {"old", "new"} /\ s.nr \in Number /\ s \in Tracee
      /\ sigsys = None
  BY <1>1, <1>2 DEF Types, Tracee, AllHosts
<1>4. CASE Trapped(s.nr)
  <2>1. /\ sigsys' = s.nr /\ s' = [s EXCEPT !.regs.args[1] = entryA]
        /\ at' = IF host.skipsExit THEN "signals" ELSE "leave"
    BY <1>4 DEF Filter
  <2>2. Moved(s, s') /\ s'.regs.num = s.regs.num /\ s'.regs.pc = s.regs.pc /\ s'.nr = s.nr
    <3> DEFINE r == s.regs
               v == entryA
               b == [r EXCEPT !.args[1] = v]
    <3>1. r \in Registers /\ v \in Values
      BY <1>1 DEF Types, Tracee
    <3> HIDE DEF r, v
    <3>2. b \in Registers /\ b.num = r.num /\ b.pc = r.pc
      BY <3>1, SetArg, 1 \in 1 .. 6
    <3>3. s' = [s EXCEPT !.regs = b]
      BY <2>1 DEF r, v
    <3> HIDE DEF b
    <3> QED
      BY <1>3, <3>2, <3>3, SetRegs DEF r
  <2>3. host.policy /\ s.nr \in Legacy \cup {"void"}
    BY <1>4 DEF Trapped
  <2>4. s.nr # None /\ s.nr # "brk" /\ s.nr \notin Heap
    BY <2>3, SyscallsAssumption DEF Legacy, Heap, Numbers, AllKinds
  <2>5. Types'
    BY <1>1, <1>2, <1>3, <2>1, <2>2 DEF Types, Moved
  <2>6. Accounted'
    BY <1>1, <1>2, <2>2 DEF Accounted, Moved
  <2>7. ASSUME Regular' PROVE Control'
    <3>1. Control
      BY <1>2, <2>2, <2>7, RegularBefore DEF IInv, Moved
    <3>2. s.chain = None
      BY <1>2, <2>4, <3>1 DEF Control, ChainSafe, InSyscall
    <3>3. ChainSafe' /\ Retrapped'
      BY <1>2, <2>2, <3>1, <3>2 DEF Control, ChainSafe, ChainRight, Retrapped, Moved
    <3>4. Numbered'
      BY <1>2, <2>1, <2>2, <2>3, <3>1 DEF Control, Numbered, Expects, InSyscall, Moved
    <3>5. Paired'
      BY <1>2, <1>3, <2>1, <2>2, <2>4, <3>1 DEF Control, Paired, Expects, Late, Moved
    <3> QED
      BY <1>2, <2>2, <3>1, <3>3, <3>4, <3>5 DEF Control, Moved
  <2> QED
    BY <2>5, <2>6, <2>7 DEF IInv
<1>5. CASE ~Trapped(s.nr)
  <2>1. /\ at' = IF host.traced /\ s.nr \in Filtered THEN "seccomp" ELSE AfterFilter
        /\ UNCHANGED <<s, sigsys>>
    BY <1>5 DEF Filter
  <2>2. at' \in {"seccomp", "enter", "exec"}
        /\ (at' = "enter" => host.order = "old" /\ trace = "syscall")
        /\ (at' = "exec" => host.order # "old" \/ trace # "syscall")
    BY <2>1 DEF AfterFilter
  <2>3. Types'
    BY <1>1, <1>2, <1>3, <2>1, <2>2 DEF Types, Stops
  <2>4. Accounted'
    BY <1>1, <1>2, <2>1 DEF Accounted
  <2>5. ASSUME Regular' PROVE Control'
    <3>1. Control
      BY <1>2, <2>1, <2>5, RegularBefore DEF IInv
    <3>2. ChainSafe' /\ Retrapped'
      BY <1>2, <2>1, <2>2, <3>1 DEF Control, ChainSafe, ChainRight, Retrapped, InSyscall
    <3>3. Numbered'
      BY <1>2, <1>3, <2>1, <2>2, <3>1 DEF Control, Numbered, Expects, InSyscall, AfterFilter
    <3>4. Paired'
      BY <1>2, <1>3, <2>1, <2>2, <3>1 DEF Control, Paired, Expects, Ways
    <3> QED
      BY <1>2, <2>1, <3>1, <3>2, <3>3, <3>4 DEF Control
  <2> QED
    BY <2>3, <2>4, <2>5 DEF IInv
<1> QED
  BY <1>4, <1>5

(* The kernel runs the call.                                                *)
LEMMA ExecMoves ==
  ASSUME Types, Exec
  PROVE  /\ Moved(s, s')
         /\ FrameKept
         /\ \/ s'.regs.pc \in {s.regs.pc, "after"}
            \/ frame # None /\ s'.regs.pc = frame.regs.pc
<1>1. s \in Tracee /\ s.regs \in Registers
  BY DEF Types, Tracee
<1>2. CASE s.nr = "void"
  <2>1. UNCHANGED <<s, frame>>
    BY <1>2 DEF Exec
  <2> QED
    BY <2>1, MovedSame DEF FrameKept
<1>3. CASE s.nr # "void" /\ s.nr = "rt_sigreturn"
  <2> DEFINE b == frame.regs
  <2>1. frame # None /\ s' = [s EXCEPT !.regs = b] /\ frame' = None
    BY <1>3 DEF Exec
  <2>2. b \in Registers
    BY <2>1 DEF Types
  <2> HIDE DEF b
  <2>3. Moved(s, s') /\ s'.regs = b
    BY <1>1, <2>1, <2>2, SetRegs
  <2> QED
    BY <2>1, <2>3 DEF FrameKept, b
<1>4. CASE s.nr # "void" /\ s.nr # "rt_sigreturn"
  <2> DEFINE v == Value(Result)
             r == s.regs
             b == [r EXCEPT !.args[1] = v]
  <2>1. s' = [s EXCEPT !.regs = b]
    BY <1>4 DEF Exec
  <2>2. v \in Values /\ 1 \in 1 .. 6 /\ r \in Registers
    <3>1. Result \in Results
      BY DEF Result, Results
    <3> QED
      BY <1>1, <3>1 DEF Values
  <2> HIDE DEF v, r
  <2>3. b \in Registers /\ b.pc = r.pc
    BY <2>2, SetArg
  <2> HIDE DEF b
  <2>4. Moved(s, s') /\ s'.regs = b
    BY <1>1, <2>1, <2>3, SetRegs
  <2>5. CASE frame = None
    <3>1. frame' = frame
      BY <1>4, <2>5 DEF Exec
    <3> QED
      BY <2>3, <2>4, <3>1 DEF FrameKept, r
  <2>6. CASE frame # None
    <3>1. frame' = [frame EXCEPT !.call = Counted(frame.call)]
      BY <1>4, <2>6 DEF Exec
    <3>2. DOMAIN frame = {"regs", "call", "called"}
      BY <2>6 DEF Types
    <3>3. FrameKept
      BY <2>6, <3>1, <3>2, FrameCall DEF FrameKept
    <3> QED
      BY <2>3, <2>4, <3>3 DEF r
  <2> QED
    BY <2>5, <2>6
<1> QED
  BY <1>2, <1>3, <1>4

LEMMA ExecKept ==
  ASSUME IInv, Exec
  PROVE  IInv'
<1>1. Types /\ Accounted
  BY DEF IInv
<1>2. /\ at = "exec" /\ at' = "leave"
      /\ UNCHANGED <<host, entryA, trace, sigsys, signals, made, mixed>>
  BY DEF Exec
<1>3. /\ Moved(s, s')
      /\ FrameKept
      /\ \/ s'.regs.pc \in {s.regs.pc, "after"}
         \/ frame # None /\ s'.regs.pc = frame.regs.pc
  BY <1>1, ExecMoves
<1>4. sigsys = None
  BY <1>1, <1>2 DEF Types
<1>5. Types'
  BY <1>1, <1>2, <1>3, <1>4 DEF Types, FrameKept, Moved
<1>6. Accounted'
  BY <1>1, <1>2, <1>3 DEF Accounted, Moved
<1>7. ASSUME Regular' PROVE Control'
  <2>1. Control
    BY <1>2, <1>3, <1>7, RegularBefore DEF IInv, Moved
  <2>2. ChainSafe'
    BY <1>2, <1>3, <1>4, <2>1 DEF Control, ChainSafe, ChainRight, InSyscall, Moved
  <2>3. s.regs.pc # "trap" /\ s'.regs.pc # "trap"
    BY <1>2, <1>3, <2>1 DEF Control, Retrapped
  <2>4. Retrapped'
    BY <1>3, <2>1, <2>3 DEF Control, Retrapped, FrameKept
  <2>5. Paired' /\ Numbered'
    BY <1>2, <1>3, <1>4, <2>1 DEF Control, Paired, Numbered, Expects, InSyscall, Moved
  <2> QED
    BY <1>2, <1>3, <2>1, <2>2, <2>4, <2>5 DEF Control, Moved
<1> QED
  BY <1>5, <1>6, <1>7 DEF IInv

-----------------------------------------------------------------------------
(* The stops.                                                               *)

LEMMA SetSuppressed ==
  ASSUME NEW x \in Tracee, NEW v \in BOOLEAN
  PROVE  LET y == [x EXCEPT !.suppressed = v]
         IN  /\ y \in Tracee /\ y.suppressed = v
             /\ y.status = x.status /\ y.how = x.how /\ y.last = x.last
             /\ y.seccomp = x.seccomp /\ y.handledEnter = x.handledEnter
             /\ y.chain = x.chain /\ y.workaround = x.workaround
             /\ y.aborted = x.aborted
             /\ y.restoreRewrite = x.restoreRewrite /\ y.regs = x.regs /\ y.nr = x.nr
BY Zenon DEF Tracee

(* What a stop does to the thread, as the state knows it.                   *)
LEMMA RestartFacts ==
  ASSUME NEW x \in Tracee, x.how \in Ways, Restart(x)
  PROVE  /\ s' \in Tracee /\ s'.status = x.status
         /\ s'.how = None /\ s'.last = x.how /\ trace' = x.how
         /\ s'.seccomp = x.seccomp /\ s'.handledEnter = x.handledEnter
         /\ s'.chain = x.chain /\ s'.workaround = x.workaround
         /\ s'.suppressed = x.suppressed /\ s'.aborted = x.aborted
         /\ s'.restoreRewrite = x.restoreRewrite /\ s'.regs = x.regs /\ s'.nr = x.nr
BY RestartedFacts DEF Restart

LEMMA CountSignals ==
  ASSUME NEW c \in [toCome : Nat, pending : Nat, delivered : Nat, overwritten : Nat],
         NEW p \in Nat
  PROVE  LET d == [c EXCEPT !.pending = p]
         IN  /\ d \in [toCome : Nat, pending : Nat, delivered : Nat, overwritten : Nat]
             /\ d.pending = p /\ d.toCome = c.toCome
             /\ d.delivered = c.delivered /\ d.overwritten = c.overwritten
BY Zenon

LEMMA SyscallStopMoves ==
  ASSUME Types, Accounted, SyscallStop
  PROVE  \E x \in Tracee :
           /\ x = OnSyscallStop(Begin(s))
           /\ x.how \in Ways
           /\ s' \in Tracee /\ s'.status = x.status
           /\ s'.how = None /\ s'.last = x.how /\ trace' = x.how
           /\ s'.seccomp = x.seccomp /\ s'.handledEnter = x.handledEnter
           /\ s'.chain = x.chain /\ s'.workaround = x.workaround
           /\ s'.aborted = x.aborted
           /\ s'.restoreRewrite = x.restoreRewrite /\ s'.regs = x.regs /\ s'.nr = x.nr
           /\ s'.seccomp = "enabled" => s.seccomp = "enabled"
           /\ s'.suppressed => s'.chain # None
           /\ signals' \in [toCome : Nat, pending : Nat, delivered : Nat, overwritten : Nat]
           /\ Accounted'
<1> DEFINE b == Begin(s)
           x == OnSyscallStop(b)
           g == Redelivers(x)
           v == x.suppressed /\ ~g
           y == [x EXCEPT !.suppressed = v]
           p == signals.pending + 1
           d == [signals EXCEPT !.pending = p]
<1>1. s \in Tracee
  BY DEF Types
<1>2. Restart(y) /\ signals' = IF g THEN d ELSE signals
  BY DEF SyscallStop
<1>3. b \in Tracee /\ b.how \in Ways /\ b.suppressed = s.suppressed /\ b.seccomp = s.seccomp
  BY <1>1, BeginFacts DEF Staged
<1> HIDE DEF b
<1>4. /\ x \in Tracee /\ x.how \in Ways
      /\ x.suppressed = b.suppressed
      /\ x.seccomp = "enabled" => b.seccomp = "enabled"
  BY <1>3, SyscallStopFacts
<1>5. x = OnSyscallStop(Begin(s))
  BY DEF b
<1> HIDE DEF x
<1>6. /\ g \in BOOLEAN /\ v \in BOOLEAN /\ x.suppressed \in BOOLEAN
      /\ g <=> x.suppressed /\ x.chain = None
      /\ v <=> x.suppressed /\ x.chain # None
  BY <1>4 DEF Tracee, Redelivers, Chaining
<1> HIDE DEF g, v
<1>7. /\ y \in Tracee /\ y.suppressed = v
      /\ y.status = x.status /\ y.how = x.how /\ y.last = x.last
      /\ y.seccomp = x.seccomp /\ y.handledEnter = x.handledEnter
      /\ y.chain = x.chain /\ y.workaround = x.workaround
      /\ y.aborted = x.aborted
      /\ y.restoreRewrite = x.restoreRewrite /\ y.regs = x.regs /\ y.nr = x.nr
  BY <1>4, <1>6, SetSuppressed, Zenon
<1> HIDE DEF y
<1>8. /\ s' \in Tracee /\ s'.status = y.status
      /\ s'.how = None /\ s'.last = y.how /\ trace' = y.how
      /\ s'.seccomp = y.seccomp /\ s'.handledEnter = y.handledEnter
      /\ s'.chain = y.chain /\ s'.workaround = y.workaround
      /\ s'.suppressed = y.suppressed /\ s'.aborted = y.aborted
      /\ s'.restoreRewrite = y.restoreRewrite /\ s'.regs = y.regs /\ s'.nr = y.nr
  BY <1>2, <1>4, <1>7, RestartFacts
<1>9. signals \in [toCome : Nat, pending : Nat, delivered : Nat, overwritten : Nat]
  BY DEF Types
<1>10. p \in Nat /\ p = signals.pending + 1
  BY <1>9
<1> HIDE DEF p
<1>11. /\ d \in [toCome : Nat, pending : Nat, delivered : Nat, overwritten : Nat]
       /\ d.pending = p /\ d.toCome = signals.toCome
       /\ d.delivered = signals.delivered /\ d.overwritten = signals.overwritten
  BY <1>9, <1>10, CountSignals, Zenon
<1> HIDE DEF d
<1>12. signals' \in [toCome : Nat, pending : Nat, delivered : Nat, overwritten : Nat]
  BY <1>2, <1>9, <1>11
<1>13. Accounted'
  <2>1. CASE g
    <3>1. s.suppressed /\ ~s'.suppressed /\ signals' = d
      BY <1>2, <1>3, <1>4, <1>6, <1>7, <1>8, <2>1
    <3> QED
      BY <1>9, <1>10, <1>11, <3>1 DEF Accounted
  <2>2. CASE ~g
    <3>1. s'.suppressed = s.suppressed /\ signals' = signals
      BY <1>2, <1>3, <1>4, <1>6, <1>7, <1>8, <2>2
    <3> QED
      BY <3>1 DEF Accounted
  <2> QED
    BY <2>1, <2>2
<1> QED
  BY <1>3, <1>4, <1>5, <1>6, <1>7, <1>8, <1>12, <1>13

(* A stop at the entry or at the exit of a call.                            *)
LEMMA SyscallStopKept ==
  ASSUME IInv, SyscallStop
  PROVE  IInv'
<1> DEFINE b == Begin(s)
<1>1. Types /\ Accounted
  BY DEF IInv
<1>2. /\ at \in {"enter", "exit"}
      /\ at' = IF at = "exit" THEN "signals"
               ELSE IF host.order = "new" THEN "filter" ELSE "exec"
      /\ CountStop
      /\ UNCHANGED <<host, entryA, sigsys, made, mixed>>
  BY DEF SyscallStop
<1>3. PICK x \in Tracee :
        /\ x = OnSyscallStop(b)
        /\ x.how \in Ways
        /\ s' \in Tracee /\ s'.status = x.status
        /\ s'.how = None /\ s'.last = x.how /\ trace' = x.how
        /\ s'.seccomp = x.seccomp /\ s'.handledEnter = x.handledEnter
        /\ s'.chain = x.chain /\ s'.workaround = x.workaround
        /\ s'.aborted = x.aborted
        /\ s'.restoreRewrite = x.restoreRewrite /\ s'.regs = x.regs /\ s'.nr = x.nr
        /\ s'.seccomp = "enabled" => s.seccomp = "enabled"
        /\ s'.suppressed => s'.chain # None
        /\ signals' \in [toCome : Nat, pending : Nat, delivered : Nat, overwritten : Nat]
        /\ Accounted'
  BY <1>1, SyscallStopMoves
<1>4. FrameKept
  BY <1>1, <1>2, CountStopFrame
<1>5. s \in Tracee /\ host.order \in {"old", "new"}
  BY <1>1 DEF Types, AllHosts
<1>6. /\ Staged(s, b) /\ b.status = s.status /\ b.how \in Ways
      /\ (s.seccomp # "enabled" \/ Chaining(s)) => b.how = "syscall"
  BY <1>5, BeginFacts
<1> HIDE DEF b
<1>7. Types'
  BY <1>1, <1>2, <1>3, <1>4 DEF Types, FrameKept, Stops
<1>8. ASSUME Regular' PROVE Control'
  <2>1. Control
    BY <1>2, <1>3, <1>8, RegularBefore DEF IInv
  <2>2. s.regs.pc = "after"
    BY <1>2, <1>5, <2>1 DEF Control, Retrapped, Tracee, Registers
  <2>3. s.handledEnter => at = "enter" /\ host.order = "old" /\ ~Expects(s)
    BY <2>1 DEF Control, Paired
  <2>4. InOrder(b)
    BY <1>6, <2>1, <2>2, <2>3
       DEF Control, ChainSafe, ChainRight, InOrder, Staged, Expects, After
  <2>5. /\ ~x.aborted /\ ~x.handledEnter /\ ChainRight(x)
        /\ x.seccomp \in {"enabled", "disabled"}
        /\ x.seccomp = "disabled" => x.how = "syscall"
        /\ IF b.status = "enter" \/ b.handledEnter
             THEN EntryDone(b, x) ELSE ExitDone(b, x)
    <3>1. b \in Tracee /\ b.regs.pc = "after"
      BY <1>6, <2>2 DEF Staged
    <3> QED
      BY <1>3, <1>6, <2>4, <3>1, SyscallStopFacts
  <2>6. ChainRight(s')
    BY <1>3, <2>5 DEF ChainRight
  <2>7. CASE Expects(s) \/ s.handledEnter
    <3>1. EntryDone(b, x)
      BY <1>6, <2>5, <2>7 DEF Expects, Staged
    <3>2. ~Expects(s') /\ trace' = "syscall" /\ s'.regs.pc = "after" /\ ~s'.handledEnter
      BY <1>3, <2>5, <3>1 DEF EntryDone, Expects
    <3>3. s'.chain # None => (s.chain # None \/ s.regs.num = "brk") /\ s'.nr = s.nr
      BY <1>3, <1>6, <3>1 DEF EntryDone, Staged
    <3>4. at = "exit" => s'.chain = None
      <4>1. SUFFICES ASSUME at = "exit" PROVE s'.chain = None
        OBVIOUS
      <4>2. Expects(s) /\ sigsys # None
        BY <2>1, <2>3, <2>7, <4>1 DEF Control, Paired, Late
      <4>3. s.chain = None /\ s.regs.num \in Legacy \cup {"void"}
        BY <2>1, <4>1, <4>2 DEF Control, ChainSafe, Numbered
      <4> QED
        BY <3>3, <4>3 DEF Legacy
    <3>5. at = "enter" => sigsys = None
      BY <1>1 DEF Types
    <3>6. at' = "filter" /\ s'.chain # None => s'.nr \in Heap \cup {"brk"}
      <4>1. SUFFICES ASSUME at' = "filter", s'.chain # None PROVE s.nr \in Heap \cup {"brk"}
        BY <3>3
      <4>2. at = "enter" /\ host.order = "new"
        BY <1>2, <4>1
      <4>3. Expects(s)
        BY <2>3, <2>7, <4>2
      <4> QED
        BY <2>1, <3>3, <4>1, <4>2, <4>3 DEF Control, ChainSafe, Numbered, InSyscall
    <3>7. ChainSafe'
      BY <1>2, <1>3, <2>6, <3>2, <3>4, <3>5, <3>6 DEF ChainSafe, ChainRight, InSyscall
    <3>8. Retrapped'
      BY <1>4, <2>1, <3>2 DEF Control, Retrapped, FrameKept
    <3>9. at = "exit" /\ sigsys # None => host.order = "old"
      BY <2>1, <2>3, <2>7 DEF Control, Paired, Late
    <3>10. at = "exit" => sigsys # None
      BY <2>1, <2>3, <2>7 DEF Control, Paired, Late
    <3>11. Paired'
      BY <1>2, <1>5, <3>2, <3>9, <3>10 DEF Paired
    <3>12. Numbered'
      BY <1>2, <2>1, <3>2 DEF Control, Numbered
    <3> QED
      BY <1>3, <2>5, <3>2, <3>7, <3>8, <3>11, <3>12 DEF Control
  <2>8. CASE ~Expects(s) /\ ~s.handledEnter
    <3>1. ExitDone(b, x)
      BY <1>6, <2>5, <2>8 DEF Expects, Staged
    <3>2. at = "exit" /\ at' = "signals"
      BY <1>2, <2>1, <2>8 DEF Control, Paired
    <3>3. /\ Expects(s') /\ ~s'.handledEnter
          /\ s.chain = None => s'.chain = None
          /\ s'.chain # None =>
               trace' = "syscall" /\ s'.regs.pc = "trap" /\ s'.regs.num \in Heap
          /\ s'.regs.pc = "trap" => s'.chain # None \/ s'.restoreRewrite
      BY <1>3, <1>6, <2>5, <3>1 DEF ExitDone, Expects, Staged
    <3>4. ChainSafe'
      BY <1>2, <1>3, <2>1, <2>6, <3>2, <3>3 DEF Control, ChainSafe, ChainRight, InSyscall
    <3>5. Retrapped'
      BY <1>4, <2>1, <3>2, <3>3 DEF Control, Retrapped, FrameKept
    <3>6. Paired' /\ Numbered'
      BY <1>2, <2>1, <3>2, <3>3 DEF Control, Paired, Numbered, InSyscall
    <3> QED
      BY <1>3, <2>5, <3>4, <3>5, <3>6 DEF Control
  <2> QED
    BY <2>7, <2>8
<1> QED
  BY <1>3, <1>7, <1>8 DEF IInv

(* A stop at a seccomp event.                                               *)
LEMMA SeccompStopKept ==
  ASSUME IInv, SeccompStop
  PROVE  IInv'
<1> DEFINE b == Begin(s)
           x == OnSeccompStop(b)
<1>1. Types /\ Accounted
  BY DEF IInv
<1>2. /\ at = "seccomp"
      /\ Restart(x)
      /\ at' = IF x.nr = "void" THEN "leave"
               ELSE IF host.order = "old" /\ x.how = "syscall" THEN "enter" ELSE "exec"
      /\ CountStop
      /\ UNCHANGED <<host, entryA, sigsys, signals, made, mixed>>
  BY DEF SeccompStop
<1>3. /\ s \in Tracee /\ host.order \in {"old", "new"} /\ sigsys = None /\ s.last = trace
      /\ trace \in Ways
  BY <1>1, <1>2 DEF Types, AllHosts, Tracee
<1>4. /\ Staged(s, b) /\ b.status = s.status /\ b.how \in Ways
      /\ (s.seccomp # "enabled" \/ Chaining(s)) => b.how = "syscall"
      /\ Chaining(s) => Necessary(b)
  BY <1>3, BeginFacts
<1> HIDE DEF b
<1>5. SeccompKept(b, x) /\ (Reported(b) => Passed(b, x))
  BY <1>4, SeccompStopFacts DEF Staged
<1> HIDE DEF x
<1>6. x \in Tracee /\ x.how \in Ways
  BY <1>5 DEF SeccompKept
<1>7. /\ s' \in Tracee /\ s'.status = x.status
      /\ s'.how = None /\ s'.last = x.how /\ trace' = x.how
      /\ s'.seccomp = x.seccomp /\ s'.handledEnter = x.handledEnter
      /\ s'.chain = x.chain /\ s'.workaround = x.workaround
      /\ s'.suppressed = x.suppressed /\ s'.aborted = x.aborted
      /\ s'.restoreRewrite = x.restoreRewrite /\ s'.regs = x.regs /\ s'.nr = x.nr
  BY <1>2, <1>6, RestartFacts
<1>8. FrameKept
  BY <1>1, <1>2, CountStopFrame
<1>9. at' \in {"leave", "enter", "exec"}
  BY <1>2
<1>10. Types'
  BY <1>1, <1>2, <1>3, <1>7, <1>8, <1>9 DEF Types, FrameKept, Stops
<1>11. s'.suppressed = s.suppressed /\ (s'.seccomp = "enabled" => s.seccomp = "enabled")
  BY <1>4, <1>5, <1>7 DEF SeccompKept, Staged
<1>12. Accounted'
  BY <1>1, <1>2, <1>11 DEF Accounted
<1>13. ASSUME Regular' PROVE Control'
  <2>1. Control
    BY <1>2, <1>11, <1>13, RegularBefore DEF IInv
  <2>2. After <=> host.order = "new"
    BY <1>2, <2>1 DEF Control, Numbered, After
  <2>3. s.nr \in Filtered /\ s.nr # "void"
    BY <1>2, <2>1 DEF Control, Numbered, Filtered, FilterSysexit
  <2>4. s.regs.pc = "after" /\ ~s.handledEnter
    BY <1>2, <1>3, <2>1 DEF Control, Retrapped, Paired, Tracee, Registers
  <2>5. Reported(b)
    <3>1. InOrder(b)
      BY <1>4, <2>1, <2>4 DEF Control, ChainSafe, ChainRight, InOrder, Staged
    <3>2. b.chain # None => b.how = "syscall" /\ Necessary(b)
      BY <1>4 DEF Staged, Chaining
    <3>3. b.status = "enter" => b.regs.num = b.nr
      BY <1>2, <1>4, <2>1 DEF Control, Numbered, Staged, Expects, InSyscall
    <3>4. IF After THEN b.status = "enter" <=> b.last = "cont" ELSE b.status = "enter"
      BY <1>2, <1>3, <1>4, <2>1, <2>2 DEF Control, Paired, Staged, Expects
    <3>5. b.seccomp = "disabled" => b.last = "syscall"
      BY <1>3, <1>4, <2>1 DEF Control, Staged
    <3> QED
      BY <1>4, <2>4, <3>1, <3>2, <3>3, <3>4, <3>5 DEF Reported, Staged
  <2>6. Passed(b, x)
    BY <1>5, <2>5
  <2>7. /\ ~s'.aborted /\ ChainRight(s') /\ s'.seccomp = s.seccomp /\ s'.regs.pc = "after"
        /\ s'.seccomp = "disabled" => trace' = "syscall"
        /\ s'.chain # None => trace' = "syscall"
        /\ After \/ trace' = "cont" => ~s'.handledEnter /\ (Expects(s') <=> trace' = "cont")
        /\ ~After /\ trace' = "syscall" =>
             /\ s'.nr = s.nr
             /\ s'.chain # None => s.chain # None
             /\ IF Expects(s') THEN ~s'.handledEnter /\ s'.regs = s.regs ELSE s'.handledEnter
    BY <1>4, <1>7, <2>6 DEF Passed, ChainRight, Staged, Expects
  <2>8. /\ at' = "enter" => ~After /\ trace' = "syscall"
        /\ at' # "enter" => After \/ trace' = "cont"
    <3>1. ~After /\ trace' = "syscall" => x.nr # "void"
      BY <1>7, <2>3, <2>7
    <3> QED
      BY <1>2, <1>3, <1>6, <1>7, <2>2, <3>1 DEF Ways
  <2>9. ChainSafe'
    <3>1. s'.chain # None /\ at' = "enter" => s'.nr \in Heap \cup {"brk"}
      BY <1>2, <2>1, <2>7, <2>8 DEF Control, ChainSafe, InSyscall
    <3>2. s'.suppressed => s'.chain # None
      <4>1. s.suppressed => s.chain # None
        BY <2>1 DEF Control, ChainSafe
      <4>2. s.chain # None => s'.chain # None
        BY <1>4, <1>7, <2>6 DEF Passed, Staged
      <4> QED
        BY <1>11, <4>1, <4>2
    <3> QED
      BY <1>2, <1>3, <1>9, <2>7, <3>1, <3>2 DEF ChainSafe, ChainRight, InSyscall
  <2>10. Retrapped'
    BY <1>8, <2>1, <2>7 DEF Control, Retrapped, FrameKept
  <2>11. Paired'
    BY <1>2, <1>3, <1>9, <2>2, <2>7, <2>8 DEF Paired
  <2>12. Numbered'
    <3>1. ~After => s.regs.num = s.nr
      BY <1>2, <1>3, <2>1, <2>2 DEF Control, Paired, Numbered, InSyscall
    <3> QED
      BY <1>2, <1>3, <1>9, <2>1, <2>7, <2>8, <3>1 DEF Control, Numbered, InSyscall
  <2> QED
    BY <2>1, <2>7, <2>9, <2>10, <2>11, <2>12 DEF Control
<1> QED
  BY <1>10, <1>12, <1>13 DEF IInv

(* A stop for SIGSYS.                                                       *)
LEMMA SigsysStopKept ==
  ASSUME IInv, SigsysStop
  PROVE  IInv'
<1> DEFINE b == Begin(s)
           x == OnSigsys(b)
<1>1. Types /\ Accounted
  BY DEF IInv
<1>2. /\ at = "SIGSYS" /\ Restart(x) /\ sigsys' = None /\ at' = "signals" /\ CountStop
      /\ UNCHANGED <<host, entryA, signals, made, mixed>>
  BY DEF SigsysStop
<1>3. s \in Tracee
  BY <1>1 DEF Types
<1>4. /\ Staged(s, b) /\ b.status = s.status /\ b.how \in Ways
      /\ s.seccomp # "enabled" => b.how = "syscall"
  BY <1>3, BeginFacts
<1> HIDE DEF b
<1>5. /\ x \in Tracee /\ x.how \in {b.how, "syscall"} /\ x.status = "enter"
      /\ x.last = b.last /\ x.suppressed = b.suppressed
      /\ x.handledEnter = b.handledEnter /\ x.aborted = b.aborted
      /\ \/ x.seccomp = b.seccomp
         \/ b.status # "enter" /\ b.seccomp = "enabled" /\ x.seccomp = "disabling"
      /\ (/\ ChainRight(b) /\ b.chain = None
          /\ b.status # "enter" => b.regs.pc = "after"
          /\ b.regs.pc = "trap" => b.restoreRewrite) =>
           /\ ChainRight(x) /\ x.chain = None
           /\ x.regs.pc = "trap" => x.restoreRewrite
  BY <1>4, SigsysFacts DEF Staged
<1> HIDE DEF x
<1>6. x.how \in Ways
  BY <1>4, <1>5 DEF Ways
<1>7. /\ s' \in Tracee /\ s'.status = x.status
      /\ s'.how = None /\ s'.last = x.how /\ trace' = x.how
      /\ s'.seccomp = x.seccomp /\ s'.handledEnter = x.handledEnter
      /\ s'.chain = x.chain /\ s'.workaround = x.workaround
      /\ s'.suppressed = x.suppressed /\ s'.aborted = x.aborted
      /\ s'.restoreRewrite = x.restoreRewrite /\ s'.regs = x.regs /\ s'.nr = x.nr
  BY <1>2, <1>5, <1>6, RestartFacts
<1>8. FrameKept
  BY <1>1, <1>2, CountStopFrame
<1>9. Types'
  BY <1>1, <1>2, <1>7, <1>8 DEF Types, FrameKept, Number
<1>10. s'.suppressed = s.suppressed /\ (s'.seccomp = "enabled" => s.seccomp = "enabled")
  BY <1>4, <1>5, <1>7 DEF Staged
<1>11. Accounted'
  BY <1>1, <1>2, <1>10 DEF Accounted
<1>12. ASSUME Regular' PROVE Control'
  <2>1. Control
    BY <1>2, <1>10, <1>12, RegularBefore DEF IInv
  <2>2. sigsys # None
    BY <1>1, <1>2 DEF Types
  <2>3. s.chain = None /\ host.policy /\ ~s.suppressed /\ ~s.handledEnter
    BY <1>2, <2>1, <2>2 DEF Control, ChainSafe, Numbered, Paired
  <2>4. s'.seccomp = s.seccomp
    <3>1. SUFFICES ASSUME s'.seccomp # s.seccomp PROVE FALSE
      OBVIOUS
    <3>2. s.status # "enter" /\ s'.seccomp = "disabling"
      BY <1>4, <1>5, <1>7, <3>1 DEF Staged
    <3>3. host.order = "old" \/ host.skipsExit
      BY <1>2, <2>1, <3>2 DEF Control, Paired, Expects
    <3> QED
      BY <1>2, <1>12, <2>3, <3>2, <3>3 DEF Regular, Unpaired
  <2>5. /\ ChainRight(b) /\ b.chain = None
        /\ b.status # "enter" => b.regs.pc = "after"
        /\ b.regs.pc = "trap" => b.restoreRewrite
    BY <1>3, <1>4, <2>1, <2>3
       DEF Control, ChainSafe, ChainRight, Retrapped, Staged, Expects, Tracee, Registers
  <2>6. ChainRight(x) /\ x.chain = None /\ (x.regs.pc = "trap" => x.restoreRewrite)
    BY <1>5, <2>5
  <2>7. /\ ChainRight(s') /\ s'.chain = None
        /\ Expects(s') /\ ~s'.handledEnter /\ ~s'.aborted
        /\ s'.regs.pc = "trap" => s'.restoreRewrite
    BY <1>4, <1>5, <1>7, <2>1, <2>3, <2>6 DEF ChainRight, Expects, Staged, Control
  <2>8. ChainSafe'
    BY <1>10, <2>3, <2>7 DEF ChainSafe, ChainRight
  <2>9. Retrapped'
    BY <1>2, <1>8, <2>1, <2>7 DEF Control, Retrapped, FrameKept
  <2>10. Paired' /\ Numbered'
    BY <1>2, <2>7 DEF Paired, Numbered, InSyscall
  <2>11. s'.seccomp = "disabled" => trace' = "syscall"
    BY <1>4, <1>5, <1>7, <2>4
  <2> QED
    BY <2>1, <2>4, <2>7, <2>8, <2>9, <2>10, <2>11 DEF Control
<1> QED
  BY <1>9, <1>11, <1>12 DEF IInv

(* A signal is kept back during a chain.                                    *)
LEMMA KeepBackKept ==
  ASSUME IInv, SignalStop, Chaining(Begin(s))
  PROVE  IInv'
<1> DEFINE b == Begin(s)
           x == [b EXCEPT !.suppressed = TRUE]
           c == signals
           p == signals.pending - 1
           o == IF b.suppressed THEN signals.overwritten + 1 ELSE signals.overwritten
           d == [c EXCEPT !.pending = p, !.overwritten = o]
<1>1. Types /\ Accounted
  BY DEF IInv
<1>2. /\ at = "signal" /\ Restart(x) /\ signals' = d /\ at' = "signals"
      /\ UNCHANGED <<host, entryA, sigsys, call, made, frame, mixed>>
  BY DEF SignalStop
<1>3. s \in Tracee
  BY <1>1 DEF Types
<1>4. /\ Staged(s, b) /\ b.status = s.status /\ b.how \in Ways
      /\ Chaining(s) => b.how = "syscall"
  BY <1>3, BeginFacts
<1>5. s.chain # None /\ b.how = "syscall"
  BY <1>4 DEF Staged, Chaining
<1>6. /\ c \in [toCome : Nat, pending : Nat, delivered : Nat, overwritten : Nat]
      /\ p \in Nat /\ o \in Nat /\ b.suppressed = s.suppressed
  BY <1>1, <1>2, <1>4 DEF Types, Staged
<1> HIDE DEF b
<1>7. /\ x \in Tracee /\ x.suppressed
      /\ x.status = b.status /\ x.how = b.how
      /\ x.seccomp = b.seccomp /\ x.handledEnter = b.handledEnter
      /\ x.chain = b.chain /\ x.workaround = b.workaround
      /\ x.aborted = b.aborted
      /\ x.restoreRewrite = b.restoreRewrite /\ x.regs = b.regs /\ x.nr = b.nr
  <2>1. b \in Tracee /\ TRUE \in BOOLEAN
    BY <1>4 DEF Staged
  <2> QED
    BY <2>1, SetSuppressed
<1> HIDE DEF x
<1>8. /\ s' \in Tracee /\ s'.status = s.status
      /\ s'.how = None /\ s'.last = "syscall" /\ trace' = "syscall"
      /\ s'.seccomp = s.seccomp /\ s'.handledEnter = s.handledEnter
      /\ s'.chain = s.chain /\ s'.workaround = s.workaround
      /\ s'.suppressed /\ s'.aborted = s.aborted
      /\ s'.restoreRewrite = s.restoreRewrite /\ s'.regs = s.regs /\ s'.nr = s.nr
  <2>1. /\ s' \in Tracee /\ s'.status = x.status
        /\ s'.how = None /\ s'.last = x.how /\ trace' = x.how
        /\ s'.seccomp = x.seccomp /\ s'.handledEnter = x.handledEnter
        /\ s'.chain = x.chain /\ s'.workaround = x.workaround
        /\ s'.suppressed = x.suppressed /\ s'.aborted = x.aborted
        /\ s'.restoreRewrite = x.restoreRewrite /\ s'.regs = x.regs /\ s'.nr = x.nr
    BY <1>2, <1>4, <1>7, RestartFacts
  <2> QED
    BY <1>4, <1>5, <1>7, <2>1 DEF Staged
<1>9. o = signals.overwritten + (IF s.suppressed THEN 1 ELSE 0)
  BY <1>6
<1>10. p = signals.pending - 1 /\ c = signals
  OBVIOUS
<1> HIDE DEF c, p, o
<1>11. /\ d \in [toCome : Nat, pending : Nat, delivered : Nat, overwritten : Nat]
       /\ d.pending = p /\ d.overwritten = o
       /\ d.toCome = c.toCome /\ d.delivered = c.delivered
  BY <1>6, Zenon
<1> HIDE DEF d
<1>12. Types'
  BY <1>1, <1>2, <1>8, <1>11 DEF Types, Stops
<1>13. Accounted'
  BY <1>1, <1>2, <1>6, <1>8, <1>9, <1>10, <1>11 DEF Accounted
<1>14. ASSUME Regular' PROVE Control'
  <2>1. Control
    BY <1>2, <1>8, <1>14, RegularBefore DEF IInv
  <2>2. ChainSafe' /\ Retrapped'
    BY <1>2, <1>5, <1>8, <2>1
       DEF Control, ChainSafe, ChainRight, Retrapped, Expects, InSyscall
  <2>3. Paired' /\ Numbered'
    BY <1>2, <1>8, <2>1 DEF Control, Paired, Numbered, Expects, InSyscall
  <2> QED
    BY <1>8, <2>1, <2>2, <2>3 DEF Control
<1> QED
  BY <1>12, <1>13, <1>14 DEF IInv

(* Or its handler runs.                                                     *)
LEMMA HandlerKept ==
  ASSUME IInv, SignalStop, ~Chaining(Begin(s))
  PROVE  IInv'
<1> DEFINE b == Begin(s)
           r == NoCall("handler")
           x == [b EXCEPT !.regs = r]
           c == signals
           p == signals.pending - 1
           o == signals.delivered + 1
           d == [c EXCEPT !.pending = p, !.delivered = o]
<1>1. Types /\ Accounted
  BY DEF IInv
<1>2. /\ at = "signal" /\ Restart(x) /\ signals' = d /\ at' = "user"
      /\ frame' = [regs |-> s.regs, call |-> None, called |-> FALSE]
      /\ mixed' = (mixed \/ s.restoreRewrite)
      /\ UNCHANGED <<host, entryA, sigsys, call, made>>
  BY DEF SignalStop
<1>3. s \in Tracee /\ s.regs \in Registers
  BY <1>1 DEF Types, Tracee
<1>4. /\ Staged(s, b) /\ b.status = s.status /\ b.how \in Ways
      /\ s.seccomp # "enabled" => b.how = "syscall"
  BY <1>3, BeginFacts
<1>5. s.chain = None
  BY <1>4 DEF Staged, Chaining
<1>6. /\ c \in [toCome : Nat, pending : Nat, delivered : Nat, overwritten : Nat]
      /\ p \in Nat /\ o \in Nat
  BY <1>1, <1>2 DEF Types
<1>7. r \in Registers /\ r.pc = "after"
  BY NoCallFacts
<1> HIDE DEF b, r
<1>8. Moved(b, x) /\ x.regs = r
  <2>1. b \in Tracee
    BY <1>4 DEF Staged
  <2> QED
    BY <1>7, <2>1, SetRegs, Zenon
<1> HIDE DEF x
<1>9. /\ s' \in Tracee /\ s'.status = s.status
      /\ s'.how = None /\ s'.last = b.how /\ trace' = b.how
      /\ s'.seccomp = s.seccomp /\ s'.handledEnter = s.handledEnter
      /\ s'.chain = s.chain /\ s'.workaround = s.workaround
      /\ s'.suppressed = s.suppressed /\ s'.aborted = s.aborted
      /\ s'.regs.pc = "after"
  <2>1. x \in Tracee /\ x.how \in Ways
    BY <1>4, <1>8 DEF Moved
  <2>2. /\ s' \in Tracee /\ s'.status = x.status
        /\ s'.how = None /\ s'.last = x.how /\ trace' = x.how
        /\ s'.seccomp = x.seccomp /\ s'.handledEnter = x.handledEnter
        /\ s'.chain = x.chain /\ s'.workaround = x.workaround
        /\ s'.suppressed = x.suppressed /\ s'.aborted = x.aborted
        /\ s'.restoreRewrite = x.restoreRewrite /\ s'.regs = x.regs /\ s'.nr = x.nr
    BY <1>2, <2>1, RestartFacts
  <2> QED
    BY <1>4, <1>7, <1>8, <2>2 DEF Staged, Moved
<1>10. p = signals.pending - 1 /\ o = signals.delivered + 1 /\ c = signals
  OBVIOUS
<1> HIDE DEF c, p, o
<1>11. /\ d \in [toCome : Nat, pending : Nat, delivered : Nat, overwritten : Nat]
       /\ d.pending = p /\ d.delivered = o
       /\ d.toCome = c.toCome /\ d.overwritten = c.overwritten
  BY <1>6, Zenon
<1> HIDE DEF d
<1>12. frame'.regs = s.regs /\ DOMAIN frame' = {"regs", "call", "called"}
  BY <1>2
<1>13. sigsys = None
  BY <1>1, <1>2 DEF Types
<1>14. Types'
  <2>1. mixed' \in BOOLEAN
    BY <1>1, <1>2, <1>3 DEF Types, Tracee
  <2> QED
    BY <1>1, <1>2, <1>3, <1>9, <1>11, <1>12, <1>13, <2>1 DEF Types
<1>15. Accounted'
  BY <1>1, <1>2, <1>6, <1>9, <1>10, <1>11 DEF Accounted
<1>16. ASSUME Regular' PROVE Control'
  <2>1. Control /\ ~s.restoreRewrite
    BY <1>2, <1>9, <1>16, RegularBefore DEF IInv, Regular
  <2>2. s.regs.pc = "after"
    BY <1>3, <1>5, <2>1 DEF Control, Retrapped, Registers
  <2>3. ChainSafe' /\ Retrapped'
    BY <1>2, <1>5, <1>9, <1>12, <2>1, <2>2 DEF Control, ChainSafe, ChainRight, Retrapped
  <2>4. Paired' /\ Numbered'
    BY <1>2, <1>9, <1>13, <2>1 DEF Control, Paired, Numbered, Expects, InSyscall
  <2>5. s'.seccomp = "disabled" => trace' = "syscall"
    BY <1>4, <1>9
  <2> QED
    BY <1>9, <2>1, <2>3, <2>4, <2>5 DEF Control
<1> QED
  BY <1>14, <1>15, <1>16 DEF IInv

-----------------------------------------------------------------------------
(* The invariant.                                                           *)

LEMMA IInvInit ==
  ASSUME Init
  PROVE  IInv
<1> DEFINE r == NoCall("top")
           w == IF host.traced THEN "cont" ELSE "syscall"
           e == IF host.traced THEN "enabled" ELSE "disabled"
           n == None
           enter == "enter"
           idle == "inactive"
<1>1. /\ host \in AllHosts /\ at = "user" /\ entryA \in Values /\ trace = s.last
      /\ sigsys = None /\ frame = None /\ made = 0 /\ mixed = FALSE
      /\ signals = [toCome |-> MaxSignals, pending |-> 0, delivered |-> 0, overwritten |-> 0]
  BY SyscallsAssumption DEF Init, Values
<1>2. s = [status |-> enter, how |-> n, last |-> w, seccomp |-> e,
           sysexitPending |-> FALSE, handledEnter |-> FALSE, skip |-> FALSE,
           restore |-> TRUE, restoreRewrite |-> FALSE, regsChanged |-> FALSE,
           chain |-> n, workaround |-> idle, suppressed |-> FALSE,
           cur |-> r, original |-> r, modified |-> r, rewrite |-> r,
           regs |-> r, nr |-> n, heap |-> FALSE, aborted |-> FALSE]
  BY Zenon DEF Init
<1>3. /\ r \in Registers /\ r.pc = "after"
      /\ w \in Ways /\ e \in {"enabled", "disabling", "disabled"} /\ e # "disabling"
      /\ e = "disabled" => w = "syscall"
      /\ n \in Number /\ n \in Ways \cup {None} /\ n \in Seq(Request) \cup {None} /\ n = None
      /\ enter \in {"enter", "ok", "error"} /\ enter = "enter"
      /\ idle \in {"inactive", "faulty", "replaced"} /\ idle = "inactive"
      /\ TRUE \in BOOLEAN /\ FALSE \in BOOLEAN
  BY NoCallFacts DEF Number, Ways
<1> HIDE DEF r, w, e, n, enter, idle
<1>4. s \in Tracee
  BY <1>2, <1>3, Zenon DEF Tracee
<1>5. /\ s.status = enter /\ s.how = n /\ s.last = w /\ s.seccomp = e
      /\ ~s.handledEnter /\ ~s.suppressed /\ ~s.aborted
      /\ s.chain = n /\ s.workaround = idle /\ s.regs = r
  BY <1>2
<1>6. Types
  <2>1. signals \in [toCome : Nat, pending : Nat, delivered : Nat, overwritten : Nat]
    BY <1>1, SyscallsAssumption
  <2>2. made \in Nat /\ made <= MaxCalls
    <3>1. MaxCalls \in Nat
      BY SyscallsAssumption
    <3> QED
      BY <1>1, <3>1
  <2>3. mixed \in BOOLEAN
    BY <1>1
  <2>4. sigsys \in Number
    BY <1>1 DEF Number
  <2> QED
    BY <1>1, <1>3, <1>4, <1>5, <2>1, <2>2, <2>3, <2>4 DEF Types
<1>7. Accounted
  BY <1>1, <1>5, SyscallsAssumption DEF Accounted
<1>8. Control
  BY <1>1, <1>3, <1>5
     DEF Control, ChainSafe, ChainRight, Retrapped, Paired, Numbered, Expects, InSyscall
<1> QED
  BY <1>6, <1>7, <1>8 DEF IInv

LEMMA IInvNext ==
  ASSUME IInv, [Next]_vars
  PROVE  IInv'
<1>1. ASSUME NEW kind \in Kinds \cup LaterKinds, Call(kind) PROVE IInv'
  BY <1>1, CallKept
<1>2. ASSUME NEW kind \in HandlerKinds, HandlerCall(kind) PROVE IInv'
  BY <1>2, HandlerCallKept
<1>3. CASE Return
  BY <1>3, ReturnKept
<1>4. CASE Sigreturn
  BY <1>4, SigreturnKept
<1>5. CASE Retrap
  BY <1>5, RetrapKept
<1>6. CASE Kernel
  BY <1>6, EntryKept, FilterKept, ExecKept, LeaveKept, SignalsKept DEF Kernel
<1>7. CASE SyscallStop
  BY <1>7, SyscallStopKept
<1>8. CASE SeccompStop
  BY <1>8, SeccompStopKept
<1>9. CASE SigsysStop
  BY <1>9, SigsysStopKept
<1>10. CASE SignalStop
  BY <1>10, KeepBackKept, HandlerKept
<1>11. CASE Kill
  BY <1>11, KillKept
<1>12. CASE UNCHANGED vars
  <2>1. /\ host' = host /\ s' = s /\ at' = at /\ entryA' = entryA /\ trace' = trace
        /\ sigsys' = sigsys /\ signals' = signals /\ frame' = frame /\ made' = made
        /\ mixed' = mixed
    BY <1>12 DEF vars
  <2>2. Types' /\ Accounted'
    BY <2>1 DEF IInv, Types, Accounted
  <2>3. Regular' => Control
    BY <2>1, RegularBefore DEF IInv
  <2>4. Control => Control'
    BY <2>1 DEF Control, ChainSafe, ChainRight, Retrapped, Paired, Numbered, Expects, Late
  <2> QED
    BY <2>2, <2>3, <2>4 DEF IInv
<1> QED
  BY <1>1, <1>2, <1>3, <1>4, <1>5, <1>6, <1>7, <1>8, <1>9, <1>10, <1>11, <1>12
     DEF Next, GuestStep, Proot

LEMMA Invariant == Spec => []IInv
<1>1. Init => IInv
  BY IInvInit
<1>2. IInv /\ [Next]_vars => IInv'
  BY IInvNext
<1> QED
  BY <1>1, <1>2, PTL DEF Spec

(* The Tracee and the registers of its banks keep their types, and the      *)
(* kernel restarts the thread as PRoot last asked it to: what event.c       *)
(* relies on when it compares a stop with the way it restarted the tracee.  *)
THEOREM TypeCorrect == Spec => []TypeOK
<1>1. IInv => TypeOK
  <2> SUFFICES ASSUME IInv PROVE TypeOK
    OBVIOUS
  <2>1. Types
    BY DEF IInv
  <2>2. /\ s.regs \in Registers /\ s.cur \in Registers /\ s.original \in Registers
        /\ s.modified \in Registers /\ s.rewrite \in Registers
    BY <2>1 DEF Types, Tracee
  <2>3. \A bank \in {s.regs, s.cur, s.original, s.modified, s.rewrite} :
          /\ bank.sp \in {"top", "handler", "scratch"}
          /\ bank.pc \in {"after", "trap"}
          /\ bank.num \in Number /\ bank.args \in [1 .. 6 -> Values]
    BY <2>2 DEF Registers
  <2>4. /\ s.status \in {"enter", "ok", "error"}
        /\ s.last \in {"cont", "syscall"}
        /\ s.seccomp \in {"enabled", "disabling", "disabled"}
        /\ s.workaround \in {"inactive", "faulty", "replaced"}
    BY <2>1 DEF Types, Tracee, Ways
  <2> QED
    BY <2>1, <2>3, <2>4 DEF Types, TypeOK
<1> QED
  BY <1>1, Invariant, PTL

(* Whatever the kernel reports and in whichever order, when the guest goes  *)
(* on PRoot expects the entry of its next call, and nothing event.c or      *)
(* mem.c asserts has failed.                                                *)
THEOREM StagesCorrect == Spec => []StagesInSync
<1>1. IInv => StagesInSync
  <2> SUFFICES ASSUME IInv PROVE StagesInSync
    OBVIOUS
  <2>1. ASSUME Regular PROVE ~s.aborted
    BY <2>1 DEF IInv, Control
  <2>2. ASSUME InUser, Regular
        PROVE  s.status = "enter" /\ ~s.handledEnter /\ s.chain = None
    BY <2>2 DEF IInv, Control, ChainSafe, Paired, Expects, InUser
  <2> QED
    BY <2>1, <2>2 DEF StagesInSync
<1> QED
  BY <1>1, Invariant, PTL

(* No signal is forgotten: each is still to come, pending, delivered, the   *)
(* one kept back, or was overwritten by a second one during the same chain; *)
(* and none is kept back when the guest goes on.                            *)
THEOREM SignalsCorrect == Spec => []SignalKept
<1>1. IInv => SignalKept
  <2> SUFFICES ASSUME IInv PROVE SignalKept
    OBVIOUS
  <2>1. Accounted
    BY DEF IInv
  <2>2. ASSUME InUser, Regular PROVE ~s.suppressed
    BY <2>2 DEF IInv, Control, ChainSafe, InUser
  <2> QED
    BY <2>1, <2>2 DEF SignalKept, Accounted
<1> QED
  BY <1>1, Invariant, PTL
=============================================================================
