------------------------ MODULE ProotHostPaths_proofs ------------------------
(***************************************************************************)
(* PRoot never has the kernel run a call on a path as the guest wrote it:    *)
(* the proof that HostPathsOnly of ProotSyscalls holds for any calls of the  *)
(* guest, any kernel, any number of calls and of signals.                   *)
(*                                                                         *)
(* The invariant of ProotSyscalls_proofs says which stage the thread is in.  *)
(* This one adds where the paths of its call are: still those of the guest   *)
(* before the entry and wherever PRoot may make the call again, those of     *)
(* the host from the entry to the execution.                                *)
(*                                                                         *)
(* The last part proves AnsweredInTime from both: a call that PRoot may have *)
(* the thread make again has not used up half of its stops.                  *)
(***************************************************************************)
EXTENDS ProotSyscalls_proofs

-----------------------------------------------------------------------------
(* The paths of a call.                                                     *)

FirstOnly ==
  {"access", "chmod", "chown", "open", "stat", "statfs", "utime", "utimes", "lchown",
   "lstat", "mkdir", "rmdir", "unlink"}
SecondOnly ==
  {"symlink", "faccessat", "fchmodat", "openat", "mkdirat", "readlinkat", "unlinkat",
   "fchownat", "utimensat", "connect"}
Renames   == {"link", "rename"}
RenamesAt == {"linkat", "renameat"}
WithPath  == FirstOnly \cup SecondOnly \cup Renames \cup RenamesAt \cup {"symlinkat"}

(* Which of the arguments of a call are paths: only whether the last link   *)
(* is followed depends on the others.                                       *)
Places(num) ==
  {i \in 1 .. 6 :
     \/ i = 1 /\ num \in FirstOnly \cup Renames
     \/ i = 2 /\ num \in SecondOnly \cup Renames \cup RenamesAt
     \/ i = 3 /\ num = "symlinkat"
     \/ i = 4 /\ num \in RenamesAt}

Guests(num, a) == \A i \in Places(num) : a[i][1] = "guest"
Hosted(num, a) == \A i \in Places(num) : a[i][1] = "host"

(* The call is one PRoot refuses: its paths are never translated, it is     *)
(* never made.  Any other has the paths of the guest before the entry and   *)
(* those of the host after it.                                              *)
GivenUp           == Current # None /\ Current.refused
FromGuest(num, a) == GivenUp \/ Guests(num, a)
Ready(num, a)     == num = "void" \/ a[2] = Bad \/ Hosted(num, a)

LEMMA FirstPaths ==
  ASSUME NEW num \in FirstOnly, NEW a
  PROVE  \E f : PathArgs(num, a) = {<<1, f>>}
<1>1. CASE num \in {"access", "chmod", "chown", "open", "stat", "statfs", "utime", "utimes"}
  BY <1>1 DEF PathArgs
<1>2. CASE num \in {"lchown", "lstat", "mkdir", "rmdir", "unlink"}
  BY <1>2 DEF PathArgs
<1> QED
  BY <1>1, <1>2 DEF FirstOnly

LEMMA SecondPaths ==
  ASSUME NEW num \in SecondOnly, NEW a
  PROVE  \E f : PathArgs(num, a) = {<<2, f>>}
<1>1. CASE num = "symlink"
  BY <1>1 DEF PathArgs
<1>2. CASE num \in {"faccessat", "fchmodat", "openat"}
  BY <1>2 DEF PathArgs
<1>3. CASE num \in {"mkdirat", "readlinkat", "unlinkat"}
  BY <1>3 DEF PathArgs
<1>4. CASE num = "fchownat"
  BY <1>4 DEF PathArgs
<1>5. CASE num = "utimensat"
  BY <1>5 DEF PathArgs
<1>6. CASE num = "connect"
  BY <1>6 DEF PathArgs
<1> QED
  BY <1>1, <1>2, <1>3, <1>4, <1>5, <1>6 DEF SecondOnly

LEMMA OtherPaths ==
  ASSUME NEW num, NEW a
  PROVE  /\ num \in Renames => PathArgs(num, a) = {<<1, FALSE>>, <<2, FALSE>>}
         /\ num \in RenamesAt => PathArgs(num, a) = {<<2, FALSE>>, <<4, FALSE>>}
         /\ num = "symlinkat" => PathArgs(num, a) = {<<3, FALSE>>}
         /\ num \notin WithPath => PathArgs(num, a) = {}
<1>1. num \in Renames => PathArgs(num, a) = {<<1, FALSE>>, <<2, FALSE>>}
  BY DEF PathArgs, Renames
<1>2. num \in RenamesAt => PathArgs(num, a) = {<<2, FALSE>>, <<4, FALSE>>}
  BY DEF PathArgs, RenamesAt
<1>3. num = "symlinkat" => PathArgs(num, a) = {<<3, FALSE>>}
  BY DEF PathArgs
<1>4. num \notin WithPath => PathArgs(num, a) = {}
  BY DEF PathArgs, WithPath, FirstOnly, SecondOnly, Renames, RenamesAt
<1> QED
  BY <1>1, <1>2, <1>3, <1>4

LEMMA NoPlaces ==
  ASSUME NEW num, num \notin WithPath
  PROVE  Places(num) = {}
BY DEF Places, WithPath

LEMMA SomePlaces ==
  ASSUME NEW num
  PROVE  /\ num \in FirstOnly => Places(num) = {1}
         /\ num \in SecondOnly => Places(num) = {2}
         /\ num \in Renames => Places(num) = {1, 2}
         /\ num \in RenamesAt => Places(num) = {2, 4}
         /\ num = "symlinkat" => Places(num) = {3}
BY DEF Places, FirstOnly, SecondOnly, Renames, RenamesAt

LEMMA PlacesOf ==
  ASSUME NEW num, NEW a
  PROVE  /\ \A path \in PathArgs(num, a) : path[1] \in Places(num)
         /\ \A i \in Places(num) : i \in 1 .. 6 /\ \E path \in PathArgs(num, a) : path[1] = i
<1>1. CASE num \in FirstOnly
  <2>1. PICK f : PathArgs(num, a) = {<<1, f>>}
    BY <1>1, FirstPaths
  <2>2. Places(num) = {1}
    BY <1>1, SomePlaces
  <2>3. <<1, f>>[1] = 1
    OBVIOUS
  <2> QED
    BY <2>1, <2>2, <2>3
<1>2. CASE num \in SecondOnly
  <2>1. PICK f : PathArgs(num, a) = {<<2, f>>}
    BY <1>2, SecondPaths
  <2>2. Places(num) = {2}
    BY <1>2, SomePlaces
  <2>3. <<2, f>>[1] = 2
    OBVIOUS
  <2> QED
    BY <2>1, <2>2, <2>3
<1>3. CASE num \in Renames
  <2>1. Places(num) = {1, 2}
    BY <1>3, SomePlaces
  <2>2. PathArgs(num, a) = {<<1, FALSE>>, <<2, FALSE>>}
    BY <1>3, OtherPaths
  <2>3. <<1, FALSE>>[1] = 1 /\ <<2, FALSE>>[1] = 2
    OBVIOUS
  <2> QED
    BY <2>1, <2>2, <2>3
<1>4. CASE num \in RenamesAt
  <2>1. Places(num) = {2, 4}
    BY <1>4, SomePlaces
  <2>2. PathArgs(num, a) = {<<2, FALSE>>, <<4, FALSE>>}
    BY <1>4, OtherPaths
  <2>3. <<2, FALSE>>[1] = 2 /\ <<4, FALSE>>[1] = 4
    OBVIOUS
  <2> QED
    BY <2>1, <2>2, <2>3
<1>5. CASE num = "symlinkat"
  <2>1. Places(num) = {3}
    BY <1>5, SomePlaces
  <2>2. PathArgs(num, a) = {<<3, FALSE>>}
    BY <1>5, OtherPaths
  <2>3. <<3, FALSE>>[1] = 3
    OBVIOUS
  <2> QED
    BY <2>1, <2>2, <2>3
<1>6. CASE num \notin WithPath
  BY <1>6, OtherPaths, NoPlaces
<1> QED
  BY <1>1, <1>2, <1>3, <1>4, <1>5, <1>6 DEF WithPath

LEMMA PathsFiltered ==
  ASSUME NEW num, num \notin Filtered
  PROVE  Places(num) = {}
<1>1. num \notin WithPath
  BY DEF WithPath, FirstOnly, SecondOnly, Renames, RenamesAt, Filtered, FilterSysexit
<1> QED
  BY <1>1, NoPlaces

(* The entry replaces every path by its translation.                        *)
LEMMA TranslatedHosted ==
  ASSUME NEW num, NEW a \in [1 .. 6 -> Values], Guests(num, a)
  PROVE  Hosted(num, Translated(PathArgs(num, a), a))
<1> SUFFICES ASSUME NEW i \in Places(num)
             PROVE  Translated(PathArgs(num, a), a)[i][1] = "host"
  BY DEF Hosted
<1>1. i \in 1 .. 6 /\ a[i][1] = "guest"
  BY PlacesOf DEF Guests
<1>2. \E path \in PathArgs(num, a) : path[1] = i
  BY PlacesOf
<1>3. Translated(PathArgs(num, a), a)[i] = HostPath(a[i][2], <<i, TRUE>> \in PathArgs(num, a))
  BY <1>1, <1>2 DEF Translated
<1> QED
  BY <1>3 DEF HostPath

-----------------------------------------------------------------------------
(* The calls PRoot makes instead of those the policy forbids.               *)

Targets ==
  {"openat", "symlinkat", "linkat", "fchmodat", "fchownat", "unlinkat", "faccessat",
   "mkdirat", "renameat", "accept4", "sendto", "recvfrom", "pipe2", "dup3", "ftruncate64",
   "utimensat", "pselect6", "ppoll", "void"}

LEMMA AtCallGuests ==
  ASSUME NEW num \in AtCalls, NEW a \in [1 .. 6 -> Values]
  PROVE  LET n == detranslate_sysnum(AtCall(num, a)[1])
         IN  /\ n \in Targets
             /\ Guests(num, a) => Guests(n, AtCall(num, a)[2])
             /\ n = "void" <=> num \in {"stat", "lstat"}
<1>1. CASE num \in FirstOnly \ {"stat", "lstat"}
  <2>1. AtCall(num, a)[1] \in SecondOnly \cap Targets /\ AtCall(num, a)[2][2] = a[1]
    <3>1. num \in {"open", "chmod", "chown", "lchown", "unlink", "rmdir", "access", "mkdir"}
      BY <1>1 DEF AtCalls, FirstOnly
    <3>2. CASE num = "open"
      BY <3>2 DEF AtCall, SecondOnly, Targets
    <3>3. CASE num = "chmod"
      BY <3>3 DEF AtCall, SecondOnly, Targets
    <3>4. CASE num = "chown"
      BY <3>4 DEF AtCall, SecondOnly, Targets
    <3>5. CASE num = "lchown"
      BY <3>5 DEF AtCall, SecondOnly, Targets
    <3>6. CASE num = "unlink"
      BY <3>6 DEF AtCall, SecondOnly, Targets
    <3>7. CASE num = "rmdir"
      BY <3>7 DEF AtCall, SecondOnly, Targets
    <3>8. CASE num = "access"
      BY <3>8 DEF AtCall, SecondOnly, Targets
    <3>9. CASE num = "mkdir"
      BY <3>9 DEF AtCall, SecondOnly, Targets
    <3> QED
      BY <3>1, <3>2, <3>3, <3>4, <3>5, <3>6, <3>7, <3>8, <3>9
  <2>2. detranslate_sysnum(AtCall(num, a)[1]) = AtCall(num, a)[1] /\ AtCall(num, a)[1] # "void"
    BY <2>1 DEF detranslate_sysnum, SecondOnly
  <2>3. Places(num) = {1} /\ Places(AtCall(num, a)[1]) = {2}
    BY <1>1, <2>1, SomePlaces
  <2> QED
    BY <1>1, <2>1, <2>2, <2>3 DEF Guests
<1>2. CASE num \in {"stat", "lstat"}
  <2>1. AtCall(num, a)[1] = "newfstatat"
    BY <1>2 DEF AtCall
  <2>2. Places("void") = {}
    BY NoPlaces DEF WithPath, FirstOnly, SecondOnly, Renames, RenamesAt
  <2> QED
    BY <1>2, <2>1, <2>2 DEF detranslate_sysnum, Targets, Guests
<1>3. CASE num \in Renames
  <2>1. /\ AtCall(num, a)[1] \in RenamesAt
        /\ AtCall(num, a)[2][2] = a[1] /\ AtCall(num, a)[2][4] = a[2]
    BY <1>3 DEF AtCall, Renames, RenamesAt
  <2>2. Places(num) = {1, 2} /\ Places(AtCall(num, a)[1]) = {2, 4}
    BY <1>3, <2>1, SomePlaces
  <2>3. /\ detranslate_sysnum(AtCall(num, a)[1]) = AtCall(num, a)[1]
        /\ AtCall(num, a)[1] # "void" /\ AtCall(num, a)[1] \in Targets
    BY <2>1 DEF detranslate_sysnum, RenamesAt, Targets
  <2> QED
    BY <1>3, <2>1, <2>2, <2>3 DEF Guests, Renames
<1>4. CASE num = "symlink"
  <2>1. AtCall(num, a)[1] = "symlinkat" /\ AtCall(num, a)[2][3] = a[2]
    BY <1>4 DEF AtCall
  <2>2. Places(num) = {2} /\ Places("symlinkat") = {3}
    BY <1>4, SomePlaces DEF SecondOnly
  <2> QED
    BY <1>4, <2>1, <2>2 DEF detranslate_sysnum, Targets, Guests
<1> QED
  BY <1>1, <1>2, <1>3, <1>4 DEF AtCalls, FirstOnly, Renames

LEMMA WiderCallGuests ==
  ASSUME NEW num \in WiderCalls, NEW a \in [1 .. 6 -> Values]
  PROVE  LET n == detranslate_sysnum(WiderCall(num, a)[1])
         IN  n \in Targets \ {"void"} /\ Guests(n, WiderCall(num, a)[2])
<1> DEFINE n == detranslate_sysnum(WiderCall(num, a)[1])
<1>1. n \in {"accept4", "sendto", "recvfrom", "pipe2", "dup3", "ftruncate64"}
  BY DEF WiderCalls, WiderCall, detranslate_sysnum
<1>2. Places(n) = {}
  BY <1>1, NoPlaces DEF WithPath, FirstOnly, SecondOnly, Renames, RenamesAt
<1> QED
  BY <1>1, <1>2 DEF Guests, Targets

LEMMA TimeCallGuests ==
  ASSUME NEW num \in TimeCalls, NEW a \in [1 .. 6 -> Values]
  PROVE  LET n == detranslate_sysnum(TimeCall(num, a)[1])
         IN  n \in Targets \ {"void"} /\ (Guests(num, a) => Guests(n, TimeCall(num, a)[2]))
<1>1. CASE num \in {"utime", "utimes"}
  <2>1. TimeCall(num, a)[1] = "utimensat" /\ TimeCall(num, a)[2][2] = a[1]
    BY <1>1 DEF TimeCall
  <2>2. Places(num) = {1} /\ Places("utimensat") = {2}
    BY <1>1, SomePlaces DEF FirstOnly, SecondOnly
  <2> QED
    BY <2>1, <2>2 DEF detranslate_sysnum, Targets, Guests
<1>2. CASE num \in {"select", "poll"}
  <2> DEFINE n == detranslate_sysnum(TimeCall(num, a)[1])
  <2>1. n \in {"pselect6", "ppoll"}
    BY <1>2 DEF TimeCall, detranslate_sysnum
  <2>2. Places(n) = {}
    BY <2>1, NoPlaces DEF WithPath, FirstOnly, SecondOnly, Renames, RenamesAt
  <2> QED
    BY <2>1, <2>2 DEF Guests, Targets
<1> QED
  BY <1>1, <1>2 DEF TimeCalls

(* The call made instead has the paths of the guest where it expects them;  *)
(* only newfstatat has no number.                                           *)
LEMMA RewrittenGuests ==
  ASSUME NEW num \in AtCalls \cup WiderCalls \cup TimeCalls, NEW a \in [1 .. 6 -> Values]
  PROVE  LET n == detranslate_sysnum(Rewritten(num, a)[1])
         IN  /\ n \in Targets
             /\ Guests(num, a) => Guests(n, Rewritten(num, a)[2])
             /\ n = "void" <=> num \in {"stat", "lstat"}
<1>1. CASE num \in AtCalls
  <2>1. Rewritten(num, a) = AtCall(num, a)
    BY <1>1 DEF Rewritten, WiderCalls, AtCalls, TimeCalls
  <2> QED
    BY <1>1, <2>1, AtCallGuests
<1>2. CASE num \in WiderCalls
  <2>1. Rewritten(num, a) = WiderCall(num, a)
    BY <1>2 DEF Rewritten, WiderCalls, AtCalls, TimeCalls
  <2>2. num \notin {"stat", "lstat"}
    BY <1>2 DEF WiderCalls
  <2>3. LET n == detranslate_sysnum(WiderCall(num, a)[1])
        IN  n \in Targets \ {"void"} /\ Guests(n, WiderCall(num, a)[2])
    BY <1>2, WiderCallGuests
  <2> QED
    BY <2>1, <2>2, <2>3
<1>3. CASE num \in TimeCalls
  <2>1. Rewritten(num, a) = TimeCall(num, a)
    BY <1>3 DEF Rewritten, WiderCalls, AtCalls, TimeCalls
  <2>2. num \notin {"stat", "lstat"}
    BY <1>3 DEF TimeCalls
  <2> QED
    BY <1>3, <2>1, <2>2, TimeCallGuests
<1> QED
  BY <1>1, <1>2, <1>3

LEMMA TargetsFacts ==
  ASSUME NEW num \in Targets
  PROVE  1 \notin Places(num) /\ num \notin Legacy /\ num \notin Heap \cup {"brk", "rt_sigreturn"}
<1>1. num \notin FirstOnly \cup Renames /\ num \notin Legacy \cup Heap \cup {"brk", "rt_sigreturn"}
  BY DEF Targets, FirstOnly, Renames, Legacy, Heap
<1> QED
  BY <1>1 DEF Places

LEMMA EmptyPlaces ==
  ASSUME NEW num \in Heap \cup {"brk", "void", "rt_sigreturn", "chdir", "getcwd", "ptrace", "accept", "accept4"}
  PROVE  Places(num) = {}
BY NoPlaces DEF Heap, WithPath, FirstOnly, SecondOnly, Renames, RenamesAt

-----------------------------------------------------------------------------
(* Registers.  What PRoot sets aside for later stops, and whether it noted   *)
(* that the current values are no longer the original ones.                 *)

Aside(x, y) ==
  y.rewrite = x.rewrite /\ y.sysexitPending = x.sysexitPending /\ y.skip = x.skip

Noted(x) == x.regsChanged \/ x.cur = x.original

LEMMA NumFields ==
  ASSUME NEW b \in Registers, NEW n \in Number
  PROVE  LET r == [b EXCEPT !.num = n]
         IN  r \in Registers /\ r.num = n /\ r.args = b.args /\ r.sp = b.sp /\ r.pc = b.pc
BY Zenon DEF Registers

LEMMA ArgsFields ==
  ASSUME NEW b \in Registers, NEW a \in [1 .. 6 -> Values]
  PROVE  LET r == [b EXCEPT !.args = a]
         IN  r \in Registers /\ r.num = b.num /\ r.args = a /\ r.sp = b.sp /\ r.pc = b.pc
BY Zenon DEF Registers

LEMMA SpFields ==
  ASSUME NEW b \in Registers, NEW p \in {"top", "handler", "scratch"}
  PROVE  LET r == [b EXCEPT !.sp = p]
         IN  r \in Registers /\ r.num = b.num /\ r.args = b.args /\ r.sp = p /\ r.pc = b.pc
BY Zenon DEF Registers

LEMMA PcFields ==
  ASSUME NEW b \in Registers, NEW c \in {"after", "trap"}
  PROVE  LET r == [b EXCEPT !.pc = c]
         IN  r \in Registers /\ r.num = b.num /\ r.args = b.args /\ r.sp = b.sp /\ r.pc = c
BY Zenon DEF Registers

LEMMA ArgFields ==
  ASSUME NEW b \in Registers, NEW v \in Values, NEW i \in 1 .. 6
  PROVE  LET r == [b EXCEPT !.args[i] = v]
         IN  /\ r \in Registers /\ r.num = b.num /\ r.sp = b.sp /\ r.pc = b.pc
             /\ r.args = [b.args EXCEPT ![i] = v]
<1>1. [b.args EXCEPT ![i] = v] \in [1 .. 6 -> Values]
  BY DEF Registers
<1>2. [b EXCEPT !.args[i] = v] = [b EXCEPT !.args = [b.args EXCEPT ![i] = v]]
  OBVIOUS
<1> QED
  BY <1>1, <1>2, ArgsFields

LEMMA CallFields ==
  ASSUME NEW b \in Registers, NEW n \in Number, NEW a \in [1 .. 6 -> Values]
  PROVE  LET r == [b EXCEPT !.num = n, !.args = a]
         IN  r \in Registers /\ r.num = n /\ r.args = a /\ r.sp = b.sp /\ r.pc = b.pc
BY Zenon DEF Registers

LEMMA AsideTransitive ==
  ASSUME NEW x, NEW y, NEW z, Aside(x, y), Aside(y, z)
  PROVE  Aside(x, z)
BY DEF Aside

LEMMA CurAside ==
  ASSUME NEW x \in Tracee, NEW b \in Registers
  PROVE  /\ Aside(x, [x EXCEPT !.cur = b])
         /\ Aside(x, [x EXCEPT !.cur = b, !.regsChanged = TRUE])
<1>1. Aside(x, [x EXCEPT !.cur = b])
  BY Zenon DEF Aside, Tracee
<1>2. Aside(x, [x EXCEPT !.cur = b, !.regsChanged = TRUE])
  BY Zenon DEF Aside, Tracee
<1> QED
  BY <1>1, <1>2

LEMMA PokeMore ==
  ASSUME NEW x \in Tracee, NEW b \in Registers
  PROVE  LET y == poke_reg(x, b)
         IN  /\ Poked(x, y) /\ Aside(x, y) /\ y.cur = b
             /\ Tracked(x) => Tracked(y)
             /\ Noted(x) => Noted(y)
<1>1. CASE x.cur = b
  BY <1>1, PokeFacts DEF poke_reg, Aside
<1>2. CASE x.cur # b
  BY <1>2, PokeFacts, ChangeCur, CurAside DEF poke_reg, Noted
<1> QED
  BY <1>1, <1>2

(* The registers are written as they are, at an entry.                      *)
LEMMA PushMore ==
  ASSUME NEW x \in Tracee, NEW w \in BOOLEAN, ~x.restore, Tracked(x), Noted(x) \/ ~w,
         ~PushFails(x, w)
  PROVE  LET y == push_regs(x, w)
         IN  /\ Core(x, y) /\ Aside(x, y)
             /\ y.cur = x.cur /\ y.regs = x.cur
             /\ y.original = x.original /\ y.modified = x.modified
             /\ y.regsChanged = x.regsChanged /\ y.restoreRewrite = x.restoreRewrite
             /\ y.nr = IF w /\ x.cur.num # x.original.num THEN x.cur.num ELSE x.nr
<1> DEFINE y == push_regs(x, w)
<1>1. Restored(x) = x
  BY DEF Restored
<1>2. Core(x, y) /\ y.cur = x.cur
  BY PushFacts
<1>3. CASE NeedsPush(x)
  <2> DEFINE n == IF w /\ x.cur.num # x.original.num THEN x.cur.num ELSE x.nr
  <2>1. x.cur \in Registers /\ x.cur.num \in Number /\ n \in Number
    BY DEF Tracee, Registers
  <2>2. y = [x EXCEPT !.regs = x.cur, !.nr = n]
    BY <1>1, <1>3 DEF push_regs
  <2> DEFINE b == x.cur
  <2>3. b \in Registers /\ y = [x EXCEPT !.regs = b, !.nr = n]
    BY <2>1, <2>2
  <2>4. /\ Aside(x, y) /\ y.regs = b /\ y.nr = n /\ y.original = x.original
        /\ y.modified = x.modified /\ y.regsChanged = x.regsChanged
        /\ y.restoreRewrite = x.restoreRewrite
    <3> HIDE DEF n, b, y
    <3> QED
      BY <2>1, <2>3, Zenon DEF Aside, Tracee
  <2> QED
    BY <1>2, <2>4
<1>4. CASE ~NeedsPush(x)
  <2>1. y = x /\ ~x.regsChanged
    BY <1>4 DEF push_regs, NeedsPush
  <2>2. x.cur = x.regs /\ (w => x.cur = x.original)
    BY <2>1 DEF Tracked, Noted
  <2> QED
    BY <1>2, <2>1, <2>2 DEF Aside
<1> QED
  BY <1>3, <1>4

(* At an exit they are put back, the result excepted.                       *)
LEMMA RestoreMore ==
  ASSUME NEW x \in Tracee, x.restore, Tracked(x)
  PROVE  LET y == push_regs(x, FALSE)
             bank == IF x.restoreRewrite THEN x.rewrite ELSE x.original
         IN  /\ y \in Tracee /\ Aside(x, y) /\ ~y.restoreRewrite /\ y.regs.pc = x.cur.pc
             /\ y.original = x.original
             /\ \/ /\ x.regsChanged \/ x.restoreRewrite
                   /\ y.regs.num = bank.num
                   /\ y.regs.args = [bank.args EXCEPT ![1] = x.cur.args[1]]
                \/ ~x.regsChanged /\ ~x.restoreRewrite /\ y.regs = x.cur
<1> DEFINE y == push_regs(x, FALSE)
           bank == IF x.restoreRewrite THEN x.rewrite ELSE x.original
<1>1. CASE NeedsPush(x)
  <2> DEFINE a == [bank.args EXCEPT ![1] = x.cur.args[1]]
             n == bank.num
             p == bank.sp
             b == x.cur
  <2>1. bank \in Registers /\ b \in Registers
    BY DEF Tracee
  <2>2. n \in Number /\ p \in {"top", "handler", "scratch"} /\ a \in [1 .. 6 -> Values]
    <3> HIDE DEF bank
    <3> QED
      BY <2>1 DEF Registers
  <2> DEFINE c == [b EXCEPT !.num = n, !.sp = p, !.args = a]
  <2>3. c \in Registers /\ c.num = n /\ c.args = a /\ c.pc = b.pc
    <3> HIDE DEF a, n, p, b
    <3> QED
      BY <2>1, <2>2, Zenon DEF Registers
  <2>4. Restored(x) = [x EXCEPT !.cur = c, !.restoreRewrite = FALSE]
    BY DEF Restored
  <2> DEFINE r == [x EXCEPT !.cur = c, !.restoreRewrite = FALSE]
  <2>5. r \in Tracee /\ r.cur = c /\ ~r.restoreRewrite /\ r.nr = x.nr /\ Aside(x, r)
        /\ r.original = x.original
    <3> HIDE DEF c
    <3> QED
      BY <2>3, Zenon DEF Tracee, Aside
  <2>6. y = [r EXCEPT !.regs = c, !.nr = x.nr]
    <3>1. ~PushFails(x, FALSE)
      BY DEF PushFails
    <3>2. y = [r EXCEPT !.regs = r.cur, !.nr = r.nr]
      <4> HIDE DEF c
      <4> QED
        BY <1>1, <2>4, <3>1 DEF push_regs
    <3> HIDE DEF r
    <3> QED
      BY <2>5, <3>2
  <2>7. /\ y \in Tracee /\ Aside(r, y) /\ y.regs = c /\ y.restoreRewrite = r.restoreRewrite
        /\ y.original = r.original
    <3> DEFINE m == x.nr
    <3>1. m \in Number /\ y = [r EXCEPT !.regs = c, !.nr = m]
      BY <2>6 DEF Tracee
    <3> HIDE DEF c, r, y, m
    <3> QED
      BY <2>3, <2>5, <3>1, Zenon DEF Aside, Tracee
  <2>8. x.regsChanged \/ x.restoreRewrite
    BY <1>1 DEF NeedsPush
  <2>9. Aside(x, y)
    BY <2>5, <2>7, AsideTransitive
  <2> QED
    BY <2>3, <2>5, <2>7, <2>8, <2>9
<1>2. CASE ~NeedsPush(x)
  <2>1. y = x /\ ~x.regsChanged /\ ~x.restoreRewrite
    BY <1>2 DEF push_regs, NeedsPush
  <2> QED
    BY <2>1 DEF Aside, Tracked
<1> QED
  BY <1>1, <1>2

-----------------------------------------------------------------------------
(* Forbidden calls.                                                         *)

LEMMA AbortedAside ==
  ASSUME NEW x \in Tracee, NEW v \in BOOLEAN
  PROVE  LET y == [x EXCEPT !.aborted = v]
         IN  Aside(x, y) /\ y.original = x.original /\ y.modified = x.modified
BY Zenon DEF Aside, Tracee

LEMMA AllocMore ==
  ASSUME NEW x \in Tracee, x.status = "enter"
  PROVE  LET y == alloc_mem(x)
         IN  /\ Poked(x, y) /\ Aside(x, y)
             /\ Tracked(x) => Tracked(y)
             /\ Noted(x) => Noted(y)
             /\ y.cur.pc = x.cur.pc /\ y.cur.num = x.cur.num /\ y.cur.args = x.cur.args
<1> DEFINE b == [x.cur EXCEPT !.sp = "scratch"]
           z == poke_reg(x, b)
<1>1. b \in Registers /\ b.num = x.cur.num /\ b.pc = x.cur.pc /\ b.args = x.cur.args
  <2>1. x.cur \in Registers /\ "scratch" \in {"top", "handler", "scratch"}
    BY DEF Tracee
  <2> QED
    BY <2>1, SpFields
<1> HIDE DEF b
<1>2. Poked(x, z) /\ Aside(x, z) /\ z.cur = b /\ (Noted(x) => Noted(z))
  BY <1>1, PokeMore
<1>3. z \in Tracee /\ z.aborted \in BOOLEAN
  BY <1>2 DEF Poked, Core, Tracee
<1>4. alloc_mem(x) = [z EXCEPT !.aborted = z.aborted]
  <2>1. alloc_mem(x) = [z EXCEPT !.aborted = z.aborted \/ x.status # "enter"]
    BY Zenon DEF alloc_mem, b
  <2>2. (z.aborted \/ x.status # "enter") = z.aborted
    <3> HIDE DEF z
    <3> QED
      BY <1>3, Zenon
  <2> HIDE DEF z
  <2> QED
    BY <2>1, <2>2, Zenon
<1> HIDE DEF z
<1>5. /\ Aside(z, alloc_mem(x)) /\ alloc_mem(x).original = z.original
  BY <1>3, <1>4, AbortedAside, Zenon
<1>6. alloc_mem(x).cur = z.cur /\ alloc_mem(x).regsChanged = z.regsChanged
  BY <1>3, <1>4, SetAborted, Zenon
<1>7. Noted(x) => Noted(alloc_mem(x))
  BY <1>2, <1>5, <1>6 DEF Noted
<1>8. Aside(x, alloc_mem(x))
  BY <1>2, <1>5, AsideTransitive
<1>9. /\ alloc_mem(x).cur.num = x.cur.num /\ alloc_mem(x).cur.pc = x.cur.pc
      /\ alloc_mem(x).cur.args = x.cur.args
  BY <1>1, <1>2, <1>6
<1> QED
  BY <1>7, <1>8, <1>9, AllocFacts

LEMMA RetrapAside ==
  ASSUME NEW x \in Tracee
  PROVE  Aside(x, [x EXCEPT !.restoreRewrite = TRUE, !.how = "syscall"])
BY Zenon DEF Aside, Tracee

LEMMA RetrapMore ==
  ASSUME NEW x \in Tracee, ~x.restore, Tracked(x)
  PROVE  LET y == restart_syscall_after_seccomp(x)
         IN  /\ Aside(x, y) /\ y.how = "syscall" /\ y.restoreRewrite
             /\ y.regs.pc = "trap" /\ y.regs.num = x.cur.num /\ y.regs.args = x.cur.args
<1> DEFINE y == [x EXCEPT !.restoreRewrite = TRUE, !.how = "syscall"]
           b == [x.cur EXCEPT !.pc = "trap"]
           z == poke_reg(y, b)
           w == push_regs(z, FALSE)
<1>1. restart_syscall_after_seccomp(x) = w
  BY DEF restart_syscall_after_seccomp
<1>2. b \in Registers /\ b.num = x.cur.num /\ b.args = x.cur.args /\ b.pc = "trap"
  <2>1. x.cur \in Registers /\ "trap" \in {"after", "trap"}
    BY DEF Tracee
  <2> QED
    BY <2>1, PcFields
<1>3. /\ y \in Tracee /\ y.how = "syscall" /\ y.restore = x.restore /\ y.restoreRewrite
      /\ y.cur = x.cur /\ y.regs = x.regs /\ y.regsChanged = x.regsChanged
  BY SetRetrap
<1>4. Aside(x, y)
  BY RetrapAside
<1> HIDE DEF y, b
<1>5. Poked(y, z) /\ Aside(y, z) /\ z.cur = b /\ (Tracked(y) => Tracked(z))
  BY <1>2, <1>3, PokeMore
<1>6. Tracked(z) /\ z \in Tracee /\ ~z.restore /\ z.restoreRewrite /\ z.how = "syscall"
  BY <1>3, <1>5 DEF Tracked, Poked, Core
<1>7. ~PushFails(z, FALSE)
  BY DEF PushFails
<1> HIDE DEF z
<1>8. /\ Core(z, w) /\ Aside(z, w) /\ w.regs = z.cur /\ w.restoreRewrite = z.restoreRewrite
  BY <1>6, <1>7, PushMore
<1>9. Aside(x, w)
  BY <1>4, <1>5, <1>8, AsideTransitive
<1> HIDE DEF w
<1> QED
  BY <1>1, <1>2, <1>5, <1>6, <1>8, <1>9 DEF Core

LEMMA ResultMore ==
  ASSUME NEW x \in Tracee, NEW name \in Results
  PROVE  LET y == poke_result(x, name)
         IN  /\ Poked(x, y) /\ Aside(x, y)
             /\ Tracked(x) => Tracked(y)
             /\ Noted(x) => Noted(y)
             /\ y.cur.num = x.cur.num /\ y.cur.pc = x.cur.pc
             /\ y.cur.args = [x.cur.args EXCEPT ![1] = Value(name)]
<1> DEFINE b == [x.cur EXCEPT !.args[1] = Value(name)]
<1>1. x.cur \in Registers
  BY DEF Tracee
<1>2. Value(name) \in Values /\ 1 \in 1 .. 6
  BY DEF Values
<1>3. /\ b \in Registers /\ b.pc = x.cur.pc /\ b.num = x.cur.num
      /\ b.args = [x.cur.args EXCEPT ![1] = Value(name)]
  BY <1>1, <1>2, ArgFields
<1>4. poke_result(x, name) = poke_reg(x, b)
  BY DEF poke_result
<1> HIDE DEF b
<1> QED
  BY <1>3, <1>4, PokeMore

LEMMA SetResultMore ==
  ASSUME NEW x \in Tracee, NEW name \in Results, ~x.restore, Tracked(x)
  PROVE  LET y == set_result_after_seccomp(x, name)
         IN  /\ Aside(x, y) /\ y.how = x.how /\ y.restoreRewrite = x.restoreRewrite
             /\ y.regs.pc = x.cur.pc /\ y.regs.num = x.cur.num
             /\ y.regs.args = [x.cur.args EXCEPT ![1] = Value(name)]
<1> DEFINE z == poke_result(x, name)
           w == push_regs(z, FALSE)
<1>1. set_result_after_seccomp(x, name) = w
  BY DEF set_result_after_seccomp
<1>2. /\ Poked(x, z) /\ Aside(x, z) /\ Tracked(z)
      /\ z.cur.num = x.cur.num /\ z.cur.pc = x.cur.pc
      /\ z.cur.args = [x.cur.args EXCEPT ![1] = Value(name)]
  BY ResultMore
<1>3. z \in Tracee /\ ~z.restore /\ z.how = x.how /\ z.restoreRewrite = x.restoreRewrite
  BY <1>2 DEF Poked, Core
<1>4. ~PushFails(z, FALSE)
  BY DEF PushFails
<1> HIDE DEF z
<1>5. /\ Core(z, w) /\ Aside(z, w) /\ w.regs = z.cur /\ w.restoreRewrite = z.restoreRewrite
  BY <1>2, <1>3, <1>4, PushMore
<1>6. Aside(x, w)
  BY <1>2, <1>5, AsideTransitive
<1> HIDE DEF w
<1> QED
  BY <1>1, <1>2, <1>3, <1>5, <1>6 DEF Core

(* A forbidden call b is made again in another form, or answered.           *)
Forbidden == AtCalls \cup WiderCalls \cup TimeCalls

Remade(x, b, y) ==
  /\ b.num \in Forbidden =>
       /\ y.how = "syscall" /\ y.restoreRewrite /\ y.regs.pc = "trap"
       /\ y.regs.num \in Targets
       /\ Guests(b.num, b.args) => Guests(y.regs.num, y.regs.args)
       /\ y.regs.num = "void" <=> b.num \in {"stat", "lstat"}
  /\ b.num \notin Forbidden =>
       /\ y.how = x.how /\ y.restoreRewrite = x.restoreRewrite
       /\ y.regs.pc = b.pc /\ y.regs.num = b.num
       /\ \E v : y.regs.args = [b.args EXCEPT ![1] = v]

LEMMA HandleCommonMore ==
  ASSUME NEW x \in Tracee, x.status = "enter", ~x.restore, Tracked(x)
  PROVE  LET y == handle_seccomp_event_common(x)
         IN  Aside(x, y) /\ Remade(x, x.cur, y)
<1> DEFINE num == x.cur.num
           args == x.cur.args
           new == Rewritten(num, args)
           y == IF num \in TimeCalls THEN alloc_mem(x) ELSE x
           n == detranslate_sysnum(new[1])
           b == [y.cur EXCEPT !.num = n, !.args = new[2]]
           z == poke_reg(y, b)
           w == handle_seccomp_event_common(x)
<1>1. CASE num \in Forbidden
  <2>1. args \in [1 .. 6 -> Values]
    BY DEF Tracee, Registers
  <2>2. n \in Number /\ new[2] \in [1 .. 6 -> Values]
    BY <1>1, <2>1, RewrittenFacts DEF Forbidden
  <2>3. Poked(x, y) /\ Aside(x, y) /\ Tracked(y)
    <3>1. CASE num \in TimeCalls
      BY <3>1, AllocMore
    <3>2. CASE num \notin TimeCalls
      BY <3>2 DEF Poked, Core, Aside
    <3> QED
      BY <3>1, <3>2
  <2>4. w = restart_syscall_after_seccomp(z)
    BY <1>1 DEF handle_seccomp_event_common, Forbidden
  <2>5. b \in Registers /\ b.num = n /\ b.args = new[2]
    <3> DEFINE c == y.cur
               a == new[2]
    <3>1. c \in Registers
      BY <2>3 DEF Poked, Core, Tracee
    <3> HIDE DEF n, new, y, c, a
    <3>2. n \in Number /\ a \in [1 .. 6 -> Values]
      BY <2>2 DEF a
    <3>3. LET r == [c EXCEPT !.num = n, !.args = a]
          IN  r \in Registers /\ r.num = n /\ r.args = a
      BY <3>1, <3>2, Zenon DEF Registers
    <3> QED
      BY <3>3 DEF c, a
  <2> HIDE DEF y, b
  <2>6. Poked(y, z) /\ Aside(y, z) /\ z.cur = b /\ Tracked(z)
    BY <2>3, <2>5, PokeMore DEF Poked, Core
  <2>7. z \in Tracee /\ ~z.restore
    BY <2>3, <2>6 DEF Poked, Core
  <2> HIDE DEF z
  <2>8. /\ Aside(z, w) /\ w.how = "syscall" /\ w.restoreRewrite
        /\ w.regs.pc = "trap" /\ w.regs.num = z.cur.num /\ w.regs.args = z.cur.args
    BY <2>4, <2>6, <2>7, RetrapMore
  <2>9. Aside(x, w)
    BY <2>3, <2>6, <2>8, AsideTransitive
  <2>10. /\ n \in Targets
         /\ Guests(num, args) => Guests(n, new[2])
         /\ n = "void" <=> num \in {"stat", "lstat"}
    BY <1>1, <2>1, RewrittenGuests DEF Forbidden
  <2>11. w.regs.num = n /\ w.regs.args = new[2]
    BY <2>5, <2>6, <2>8
  <2> HIDE DEF w, n, new
  <2>12. Guests(num, args) => Guests(w.regs.num, w.regs.args)
    <3> HIDE DEF args
    <3> QED
      BY <2>10, <2>11, Zenon
  <2>13. w.regs.num \in Targets /\ (w.regs.num = "void" <=> num \in {"stat", "lstat"})
    BY <2>10, <2>11
  <2>14. Remade(x, x.cur, w)
    BY <1>1, <2>8, <2>12, <2>13 DEF Remade
  <2> QED
    BY <2>9, <2>14 DEF w
<1>2. CASE num \notin Forbidden
  <2>1. w = set_result_after_seccomp(x, SigsysResult(num))
    BY <1>2 DEF handle_seccomp_event_common, Forbidden
  <2>2. SigsysResult(num) \in Results
    BY SigsysResultFacts
  <2> DEFINE v == Value(SigsysResult(num))
  <2>3. /\ Aside(x, w) /\ w.how = x.how /\ w.restoreRewrite = x.restoreRewrite
        /\ w.regs.pc = x.cur.pc /\ w.regs.num = num /\ w.regs.args = [args EXCEPT ![1] = v]
    BY <2>1, <2>2, SetResultMore
  <2> HIDE DEF w, v
  <2>4. Remade(x, x.cur, w)
    BY <1>2, <2>3 DEF Remade
  <2> QED
    BY <2>3, <2>4 DEF w
<1> QED
  BY <1>1, <1>2

(* SIGSYS: what the registers were is set aside.                            *)
LEMMA ExpectingAside ==
  ASSUME NEW x \in Tracee
  PROVE  LET y == [x EXCEPT !.status = "enter", !.restore = FALSE]
         IN  y \in Tracee /\ Aside(x, y) /\ y.how = x.how /\ y.regs = x.regs
             /\ y.restoreRewrite = x.restoreRewrite
BY Zenon DEF Tracee, Aside

LEMMA RewriteAside ==
  ASSUME NEW x \in Tracee, NEW b \in Registers
  PROVE  LET y == [x EXCEPT !.rewrite = b]
         IN  /\ y.rewrite = b /\ y.sysexitPending = x.sysexitPending /\ y.skip = x.skip
             /\ y.how = x.how /\ y.restoreRewrite = x.restoreRewrite
BY Zenon DEF Tracee

LEMMA FetchMore ==
  ASSUME NEW x \in Tracee
  PROVE  LET y == fetch_regs(x)
         IN  Aside(x, y) /\ y.regsChanged = x.regsChanged
<1> DEFINE b == x.regs
           y == [x EXCEPT !.cur = b]
<1>1. b \in Registers /\ fetch_regs(x) = y
  BY DEF Tracee, fetch_regs
<1> HIDE DEF b
<1>2. Aside(x, y)
  BY <1>1, CurAside
<1>3. y.regsChanged = x.regsChanged
  BY <1>1, SetCur
<1> QED
  BY <1>1, <1>2, <1>3

LEMMA HandleMore ==
  ASSUME NEW x \in Tracee
  PROVE  LET y == handle_seccomp_event(x)
         IN  /\ y.rewrite = x.regs /\ y.sysexitPending = x.sysexitPending /\ y.skip = x.skip
             /\ Remade(x, x.regs, y)
<1> DEFINE u == [x EXCEPT !.status = "enter", !.restore = FALSE]
           v == fetch_regs(u)
           b == v.cur
           w == [v EXCEPT !.rewrite = b]
           y == handle_seccomp_event_common(w)
<1>1. handle_seccomp_event(x) = y
  BY DEF handle_seccomp_event
<1>2. u \in Tracee /\ u.status = "enter" /\ ~u.restore
  BY SetExpecting
<1>3. Aside(x, u) /\ u.how = x.how /\ u.regs = x.regs /\ u.restoreRewrite = x.restoreRewrite
  BY ExpectingAside
<1> HIDE DEF u
<1>4. Poked(u, v) /\ v.cur = u.regs /\ Tracked(v) /\ Aside(u, v)
  BY <1>2, FetchFacts, FetchMore
<1>5. v \in Tracee /\ b \in Registers /\ b = v.cur
  BY <1>4 DEF Poked, Core, Tracee
<1> HIDE DEF v, b
<1>6. /\ Core(v, w) /\ w.cur = v.cur /\ w.regs = v.regs /\ w.regsChanged = v.regsChanged
  BY <1>5, SetRewrite, Zenon
<1>7. /\ w.rewrite = b /\ w.sysexitPending = v.sysexitPending /\ w.skip = v.skip
      /\ w.how = v.how /\ w.restoreRewrite = v.restoreRewrite
  BY <1>5, RewriteAside, Zenon
<1>8. w \in Tracee /\ w.status = "enter" /\ ~w.restore /\ Tracked(w)
  BY <1>2, <1>4, <1>6 DEF Poked, Core, Tracked
<1> HIDE DEF w
<1>9. Aside(w, y) /\ Remade(w, w.cur, y)
  BY <1>8, HandleCommonMore
<1> HIDE DEF y
<1>10. w.cur = x.regs /\ w.how = x.how /\ w.restoreRewrite = x.restoreRewrite
  BY <1>3, <1>4, <1>6, <1>7 DEF Poked, Core
<1>11. Remade(x, x.regs, y)
  BY <1>9, <1>10 DEF Remade
<1>12. y.rewrite = x.regs /\ y.sysexitPending = x.sysexitPending /\ y.skip = x.skip
  BY <1>3, <1>4, <1>5, <1>7, <1>9 DEF Aside
<1> QED
  BY <1>1, <1>11, <1>12

LEMMA EnosysAside ==
  ASSUME NEW x \in Tracee, NEW b \in Registers
  PROVE  LET y == [x EXCEPT !.status = "enter", !.restore = FALSE, !.cur = b, !.rewrite = b]
         IN  /\ y \in Tracee /\ y.status = "enter" /\ ~y.restore /\ y.cur = b
             /\ y.sysexitPending = x.sysexitPending /\ y.skip = x.skip
BY Zenon DEF Tracee

(* utime is made again as utimensat, from the registers of the guest.       *)
LEMMA FixMore ==
  ASSUME NEW x \in Tracee, x.original.num = "utime"
  PROVE  LET y == fix_and_restart_enosys_syscall(x)
         IN  /\ y.how = "syscall" /\ y.restoreRewrite
             /\ y.regs.pc = "trap" /\ y.regs.num = "utimensat"
             /\ Guests("utime", x.original.args) => Guests("utimensat", y.regs.args)
             /\ y.sysexitPending = x.sysexitPending /\ y.skip = x.skip
<1> DEFINE o == x.original
           w == [x EXCEPT !.status = "enter", !.restore = FALSE, !.cur = o, !.rewrite = o]
           new == Rewritten("utime", w.cur.args)
           y == alloc_mem(w)
           a == new[2]
           b == [y.cur EXCEPT !.num = "utimensat", !.args = a]
           z == poke_reg(y, b)
           r == restart_syscall_after_seccomp(z)
<1>1. o \in Registers
  BY DEF Tracee
<1>2. /\ w \in Tracee /\ w.status = "enter" /\ ~w.restore /\ w.cur = o
      /\ w.sysexitPending = x.sysexitPending /\ w.skip = x.skip
  <2> HIDE DEF o
  <2> QED
    BY <1>1, EnosysAside, Zenon
<1>3. fix_and_restart_enosys_syscall(x) = handle_seccomp_event_common(w)
  BY DEF fix_and_restart_enosys_syscall
<1>4. w.cur.num = "utime"
  BY <1>2
<1> HIDE DEF w
<1>5. new[1] = "utimensat"
  BY DEF Rewritten, TimeCall, AtCalls, WiderCalls, TimeCalls
<1>6. handle_seccomp_event_common(w) = r
  <2>1. detranslate_sysnum(new[1]) = "utimensat"
    BY <1>5 DEF detranslate_sysnum
  <2>2. "utime" \in TimeCalls
    BY DEF TimeCalls
  <2> QED
    BY <1>4, <2>1, <2>2 DEF handle_seccomp_event_common
<1>7. a \in [1 .. 6 -> Values] /\ (Guests("utime", o.args) => Guests("utimensat", a))
  <2>1. w.cur.args \in [1 .. 6 -> Values] /\ w.cur.args = o.args
    BY <1>2 DEF Tracee, Registers
  <2>2. "utime" \in AtCalls \cup WiderCalls \cup TimeCalls
    BY DEF TimeCalls
  <2>3. a \in [1 .. 6 -> Values]
    BY <2>1, <2>2, RewrittenFacts
  <2>4. Guests("utime", w.cur.args) => Guests(detranslate_sysnum(new[1]), a)
    BY <2>1, <2>2, RewrittenGuests
  <2>5. detranslate_sysnum(new[1]) = "utimensat"
    BY <1>5 DEF detranslate_sysnum
  <2> HIDE DEF o, new
  <2> QED
    BY <2>1, <2>3, <2>4, <2>5
<1>8. Poked(w, y) /\ y.cur.num = "utime" /\ Aside(w, y)
  BY <1>2, <1>4, AllocMore
<1>9. b \in Registers /\ b.num = "utimensat" /\ b.args = a
  <2> DEFINE c == y.cur
             n == "utimensat"
  <2>1. c \in Registers /\ n \in Number
    BY <1>8 DEF Poked, Core, Tracee, Number, Numbers
  <2> HIDE DEF y, a, c, n
  <2>2. LET e == [c EXCEPT !.num = n, !.args = a]
        IN  e \in Registers /\ e.num = n /\ e.args = a
    BY <1>7, <2>1, Zenon DEF Registers
  <2> QED
    BY <2>2 DEF c, n
<1> HIDE DEF y, a
<1>10. Poked(y, z) /\ z.cur = b /\ z.regsChanged /\ Aside(y, z)
  <2>1. y \in Tracee
    BY <1>8 DEF Poked, Core
  <2>2. y.cur # b
    BY <1>8, <1>9
  <2> HIDE DEF b
  <2>3. Poked(y, z) /\ z.cur = b /\ Aside(y, z)
    BY <1>9, <2>1, PokeMore
  <2>4. z = [y EXCEPT !.cur = b, !.regsChanged = TRUE]
    BY <2>2 DEF poke_reg
  <2>5. z.regsChanged
    BY <1>9, <2>1, <2>4, ChangeCur
  <2> QED
    BY <2>3, <2>5
<1> HIDE DEF b
<1>11. z \in Tracee /\ ~z.restore /\ Tracked(z)
  BY <1>2, <1>8, <1>10 DEF Poked, Core, Tracked
<1> HIDE DEF z
<1>12. /\ Aside(z, r) /\ r.how = "syscall" /\ r.restoreRewrite
       /\ r.regs.pc = "trap" /\ r.regs.num = z.cur.num /\ r.regs.args = z.cur.args
  BY <1>11, RetrapMore
<1> HIDE DEF r
<1>13. r.sysexitPending = x.sysexitPending /\ r.skip = x.skip
  BY <1>2, <1>8, <1>10, <1>12 DEF Aside
<1>14. Guests("utime", o.args) => Guests("utimensat", r.regs.args)
  <2> HIDE DEF o
  <2> QED
    BY <1>7, <1>9, <1>10, <1>12
<1> QED
  BY <1>3, <1>6, <1>9, <1>10, <1>12, <1>13, <1>14

-----------------------------------------------------------------------------
(* The entry of a call.                                                     *)

Silent == {"chdir", "getcwd", "ptrace", "void"}

(* What the entry does of the current registers b, for the call a.          *)
Converted(a, b) ==
  /\ Guests(a.num, a.args) => b.num = "void" \/ Hosted(b.num, b.args)
  /\ b.num = "void" => a.num \in Silent
  /\ b.num \in {a.num, "void"} \cup Heap

LEMMA SysnumMore ==
  ASSUME NEW x \in Tracee, NEW n \in Numbers, detranslate_sysnum(n) = n
  PROVE  LET y == set_sysnum(x, n)
         IN  /\ Poked(x, y) /\ Aside(x, y) /\ (Tracked(x) => Tracked(y)) /\ (Noted(x) => Noted(y))
             /\ y.cur.num = n /\ y.cur.args = x.cur.args
<1> DEFINE b == [x.cur EXCEPT !.num = n]
<1>1. x.cur \in Registers /\ n \in Number
  BY DEF Tracee, Number
<1>2. b \in Registers /\ b.num = n /\ b.args = x.cur.args
  BY <1>1, NumFields
<1>3. set_sysnum(x, n) = poke_reg(x, b)
  BY DEF set_sysnum
<1> HIDE DEF b
<1> QED
  BY <1>2, <1>3, PokeMore

LEMMA TranslateEnterMore ==
  ASSUME NEW x \in Tracee, x.status = "enter", Tracked(x), x.cur = x.original
  PROVE  LET y == translate_syscall_enter(x)
         IN  Poked(x, y) /\ Aside(x, y) /\ Noted(y) /\ Converted(x.cur, y.cur)
<1> DEFINE num == x.original.num
           paths == PathArgs(num, x.cur.args)
           y == alloc_mem(x)
           t == translate_syscall_enter(x)
<1>0. num \in {"chdir", "getcwd", "ptrace", "brk", "accept", "accept4"} => paths = {}
  BY DEF PathArgs
<1>a. Noted(x)
  BY DEF Noted
<1>b. x.cur \in Registers /\ x.cur.num = num /\ x.cur.args \in [1 .. 6 -> Values]
  BY DEF Tracee, Registers
<1>1. CASE num \in {"chdir", "getcwd", "ptrace"}
  <2>1. t = set_sysnum(x, "void")
    BY <1>0, <1>1 DEF translate_syscall_enter
  <2>2. "void" \in Numbers /\ detranslate_sysnum("void") = "void"
    BY DEF Numbers, detranslate_sysnum
  <2> HIDE DEF t
  <2>3. /\ Poked(x, t) /\ Aside(x, t) /\ (Noted(x) => Noted(t)) /\ t.cur.num = "void"
    BY <2>1, <2>2, SysnumMore
  <2> QED
    BY <1>a, <1>b, <1>1, <2>3 DEF Converted, Silent, t
<1>2. CASE num = "brk"
  <2> DEFINE n == IF x.heap THEN "mremap" ELSE "mmap"
             a == [i \in 1 .. 6 |-> Value("heap")]
             b == [x.cur EXCEPT !.num = n, !.args = a]
             c == x.cur
  <2>1. t = poke_reg(x, b)
    BY <1>0, <1>2 DEF translate_syscall_enter, translate_brk_enter
  <2>2. n \in Heap /\ n \in Number /\ c \in Registers /\ n # "void"
    BY DEF Heap, Number, Numbers, Tracee
  <2>3. a \in [1 .. 6 -> Values]
    BY Constants DEF Results
  <2> HIDE DEF n, a, c
  <2>4. LET e == [c EXCEPT !.num = n, !.args = a] IN e \in Registers /\ e.num = n
    BY <2>2, <2>3, Zenon DEF Registers
  <2>5. b \in Registers /\ b.num = n
    BY <2>4 DEF c
  <2> HIDE DEF b, t
  <2>6. Poked(x, t) /\ Aside(x, t) /\ t.cur = b /\ Noted(t)
    BY <1>a, <2>1, <2>5, PokeMore
  <2>7. Places(n) = {}
    BY <2>2, EmptyPlaces
  <2>8. Converted(x.cur, t.cur)
    BY <2>2, <2>5, <2>6, <2>7 DEF Converted, Hosted
  <2> QED
    BY <2>6, <2>8 DEF t
<1>3. CASE num \in {"accept", "accept4"}
  <2> DEFINE v == Value("size")
             b == [x.cur EXCEPT !.args[6] = v]
             c == x.cur
  <2>1. t = poke_reg(x, b)
    BY <1>0, <1>3 DEF translate_syscall_enter
  <2>2. v \in Values /\ 6 \in 1 .. 6 /\ c \in Registers
    BY Constants DEF Results, Tracee
  <2> HIDE DEF v, c
  <2>3. LET e == [c EXCEPT !.args[6] = v] IN e \in Registers /\ e.num = c.num
    BY <2>2, SetArg, Zenon
  <2>4. b \in Registers /\ b.num = num
    BY <1>b, <2>3 DEF c
  <2> HIDE DEF b, t
  <2>5. Poked(x, t) /\ Aside(x, t) /\ t.cur = b /\ Noted(t)
    BY <1>a, <2>1, <2>4, PokeMore
  <2>6. Places(num) = {}
    BY <1>3, EmptyPlaces
  <2>7. Converted(x.cur, t.cur)
    BY <1>b, <1>3, <2>4, <2>5, <2>6 DEF Converted, Hosted
  <2> QED
    BY <2>5, <2>7 DEF t
<1>4. CASE num \notin {"chdir", "getcwd", "ptrace", "brk", "accept", "accept4"} /\ paths # {}
  <2> DEFINE a == Translated(paths, y.cur.args)
             b == [y.cur EXCEPT !.args = a]
             c == y.cur
             z == poke_reg(y, b)
  <2>1. t = z
    BY <1>4 DEF translate_syscall_enter
  <2>2. /\ Poked(x, y) /\ Aside(x, y) /\ Noted(y)
        /\ y.cur.num = x.cur.num /\ y.cur.args = x.cur.args
    BY <1>a, AllocMore
  <2>3. c \in Registers /\ y.cur.args \in [1 .. 6 -> Values] /\ y \in Tracee
    BY <2>2 DEF Poked, Core, Tracee, Registers
  <2>4. a \in [1 .. 6 -> Values]
    BY <2>3, TranslatedFacts
  <2>5. Guests(num, x.cur.args) => Hosted(num, a)
    BY <1>b, <2>2, TranslatedHosted
  <2>6. num # "void"
    BY <1>4 DEF PathArgs
  <2> HIDE DEF y, a, c
  <2>7. LET e == [c EXCEPT !.args = a] IN e \in Registers /\ e.num = c.num /\ e.args = a
    BY <2>3, <2>4, ArgsFields, Zenon
  <2>8. b \in Registers /\ b.num = num /\ b.args = a
    BY <1>b, <2>2, <2>7 DEF c
  <2> HIDE DEF b
  <2>9. Poked(y, z) /\ Aside(y, z) /\ z.cur = b /\ Noted(z)
    BY <2>2, <2>3, <2>8, PokeMore
  <2> HIDE DEF z, t
  <2>10. Poked(x, z) /\ Aside(x, z)
    BY <2>2, <2>9, PokedTransitive, AsideTransitive
  <2>11. Converted(x.cur, t.cur)
    <3> HIDE DEF num
    <3> QED
      BY <1>b, <2>1, <2>5, <2>6, <2>8, <2>9 DEF Converted
  <2> QED
    BY <2>1, <2>9, <2>10, <2>11 DEF t
<1>5. CASE num \notin {"chdir", "getcwd", "ptrace", "brk", "accept", "accept4"} /\ paths = {}
  <2>1. t = x
    BY <1>5 DEF translate_syscall_enter
  <2>2. Places(num) = {}
    BY <1>5, PlacesOf
  <2> HIDE DEF t
  <2>3. Converted(x.cur, t.cur)
    BY <1>b, <2>1, <2>2 DEF Converted, Hosted, Silent
  <2>4. Poked(x, t) /\ Aside(x, t) /\ Noted(t)
    BY <1>a, <2>1 DEF Poked, Core, Aside
  <2> QED
    BY <2>3, <2>4 DEF t
<1> QED
  BY <1>1, <1>2, <1>3, <1>4, <1>5

(* The path cannot be translated: the guest is answered with an error.      *)
Turned(x) ==
  /\ x.regs.num = "chdir" \/ PathArgs(x.regs.num, x.regs.args) # {}
  /\ Current # None
  /\ Current.refused

LEMMA TurnedGivesUp ==
  ASSUME NEW x
  PROVE  /\ Turned(x) => GivenUp
         /\ ~Turned(x) /\ GivenUp => Places(x.regs.num) = {}
<1>1. Turned(x) => GivenUp
  BY DEF Turned, GivenUp
<1>2. PathArgs(x.regs.num, x.regs.args) = {} => Places(x.regs.num) = {}
  BY PlacesOf
<1> QED
  BY <1>1, <1>2 DEF Turned, GivenUp

(* PRoot sets aside the same registers and keeps the original call.         *)
Beside(x, y) == Aside(x, y) /\ y.original = x.original /\ y.modified = x.modified

LEMMA BesideTransitive ==
  ASSUME NEW x, NEW y, NEW z, Beside(x, y), Beside(y, z)
  PROVE  Beside(x, z)
BY DEF Beside, Aside

LEMMA PokedBeside ==
  ASSUME NEW x, NEW y, Poked(x, y), Aside(x, y)
  PROVE  Beside(x, y)
BY DEF Poked, Beside

LEMMA StatusBeside ==
  ASSUME NEW x \in Tracee, NEW v \in {"enter", "ok", "error"}
  PROVE  Beside(x, [x EXCEPT !.status = v])
BY Zenon DEF Beside, Aside, Tracee

LEMMA PassedBeside ==
  ASSUME NEW x \in Tracee
  PROVE  Beside(x, [x EXCEPT !.how = "syscall", !.status = "ok"])
BY Zenon DEF Beside, Aside, Tracee

LEMMA RestoreBeside ==
  ASSUME NEW x \in Tracee, NEW v \in BOOLEAN
  PROVE  Beside(x, [x EXCEPT !.restore = v])
BY Zenon DEF Beside, Aside, Tracee

LEMMA ModifiedAside ==
  ASSUME NEW x \in Tracee, NEW b \in Registers
  PROVE  LET y == [x EXCEPT !.modified = b]
         IN  Aside(x, y) /\ y.modified = b
BY Zenon DEF Aside, Tracee

LEMMA SaveMore ==
  ASSUME NEW x \in Tracee
  PROVE  Aside(x, save_original(x)) /\ Noted(save_original(x))
<1> DEFINE b == x.cur
           y == [x EXCEPT !.original = b, !.regsChanged = FALSE]
<1>1. b \in Registers /\ save_original(x) = y /\ b = x.cur
  BY DEF Tracee, save_original
<1> HIDE DEF b
<1>2. Aside(x, y) /\ y.original = b /\ y.cur = x.cur
  BY <1>1, Zenon DEF Aside, Tracee
<1> QED
  BY <1>1, <1>2 DEF Noted

(* The status the entry would have set aside tells whether it failed.       *)
LEMMA SuppressedMore ==
  ASSUME NEW x \in Tracee
  PROVE  SuppressedStatus(x) = IF Turned(x) THEN "error" ELSE "ok"
<1> DEFINE y == fetch_regs(x)
           o == save_original(y)
<1>1. Poked(x, y) /\ y.cur = x.regs
  BY FetchFacts
<1>2. y \in Tracee
  BY <1>1 DEF Poked, Core
<1> HIDE DEF y
<1>3. o.cur = x.regs /\ o.original = x.regs
  BY <1>1, <1>2, SaveFacts
<1>4. SuppressedStatus(x) = IF Refused(o) THEN "error" ELSE "ok"
  BY DEF SuppressedStatus, y
<1> HIDE DEF o
<1>5. Refused(o) <=> Turned(x)
  BY <1>3 DEF Refused, Turned
<1> QED
  BY <1>4, <1>5

LEMMA WithoutExitMore ==
  ASSUME NEW x \in Tracee, Noted(x) \/ Chaining(x)
  PROVE  LET y == IF x.how = "cont"
                    THEN poke_reg([x EXCEPT !.status = "enter"],
                                  [x.cur EXCEPT !.sp = x.original.sp])
                    ELSE x
         IN  /\ Beside(x, y) /\ (Noted(x) => Noted(y))
             /\ y.status = IF x.how = "cont" THEN "enter" ELSE x.status
             /\ y.cur.num = x.cur.num /\ y.cur.args = x.cur.args
             /\ x.how # "cont" => y.cur = x.cur
<1>1. CASE x.how # "cont"
  BY <1>1 DEF Beside, Aside
<1>2. CASE x.how = "cont"
  <2> DEFINE w == [x EXCEPT !.status = "enter"]
             c == x.cur
             p == x.original.sp
             b == [x.cur EXCEPT !.sp = p]
             y == poke_reg(w, b)
  <2>1. c \in Registers /\ p \in {"top", "handler", "scratch"}
    BY DEF Tracee, Registers
  <2>2. /\ Staged(x, w) /\ w.status = "enter"
        /\ w.original = x.original /\ w.cur = x.cur /\ w.regsChanged = x.regsChanged
    BY SetStatus
  <2>3. Beside(x, w)
    BY StatusBeside
  <2> HIDE DEF w, c, p
  <2>4. LET e == [c EXCEPT !.sp = p] IN e \in Registers /\ e.num = c.num /\ e.args = c.args
    BY <2>1, SpFields, Zenon
  <2>5. b \in Registers /\ b.num = x.cur.num /\ b.args = x.cur.args
    BY <2>4 DEF c
  <2> HIDE DEF b
  <2>6. w \in Tracee
    BY <2>2 DEF Staged
  <2>7. Poked(w, y) /\ Aside(w, y) /\ y.cur = b /\ (Noted(w) => Noted(y))
    BY <2>5, <2>6, PokeMore
  <2> HIDE DEF y
  <2>8. Beside(x, y)
    BY <2>3, <2>7, PokedBeside, BesideTransitive
  <2>9. /\ Beside(x, y) /\ (Noted(x) => Noted(y)) /\ y.status = "enter"
        /\ y.cur.num = x.cur.num /\ y.cur.args = x.cur.args
    BY <2>2, <2>5, <2>7, <2>8 DEF Noted, Poked, Core
  <2> QED
    BY <1>2, <2>9 DEF w, b, p, y
<1> QED
  BY <1>1, <1>2

(* The entry keeps a chained call; it translates another, or refuses it.    *)
EntryTold(x, y) ==
  IF Chaining(x) THEN y.original = x.original /\ y.status = "ok" /\ y.cur = x.regs
  ELSE /\ Noted(y) /\ y.original = x.regs
       /\ IF Turned(x)
            THEN y.cur.num = "void" /\ y.status = IF x.how = "cont" THEN "enter" ELSE "error"
            ELSE /\ Converted(x.regs, y.cur)
                 /\ y.status = IF x.how = "cont" THEN "enter" ELSE "ok"
                 /\ y.modified.num = "void" => x.regs.num \in Silent

LEMMA EnterStageMore ==
  ASSUME NEW x \in Tracee, x.status = "enter", x.how \in Ways
  PROVE  Aside(x, EnterStage(x)) /\ EntryTold(x, EnterStage(x))
<1> DEFINE u == [x EXCEPT !.restore = FALSE]
           y == fetch_regs(u)
           o == save_original(y)
           e == IF Refused(o) THEN o ELSE translate_syscall_enter(o)
           c == e.cur
           m == [e EXCEPT !.modified = c]
           n == set_sysnum(m, "void")
           p == poke_result(n, "errno")
           refused == ~Chaining(y) /\ Refused(o)
           z == IF Chaining(y) THEN [y EXCEPT !.how = "syscall", !.status = "ok"]
                ELSE IF refused THEN [p EXCEPT !.status = "error"]
                ELSE [m EXCEPT !.status = "ok"]
           q == IF z.how = "cont"
                  THEN poke_reg([z EXCEPT !.status = "enter"],
                                [z.cur EXCEPT !.sp = z.original.sp])
                  ELSE z
<1>1. EnterStage(x) = q
  BY DEF EnterStage
<1>2. /\ Staged(x, u) /\ u.status = x.status /\ u.how = x.how
  BY SetRestore
<1>3. Beside(x, u) /\ u \in Tracee
  BY <1>2, RestoreBeside DEF Staged
<1> HIDE DEF u
<1>4. /\ y \in Tracee /\ Beside(x, y) /\ y.cur = x.regs /\ Tracked(y)
      /\ y.chain = x.chain /\ y.status = "enter" /\ y.how = x.how
  <2>1. Poked(u, y) /\ y.cur = u.regs /\ Tracked(y) /\ Aside(u, y)
    BY <1>3, FetchFacts, FetchMore
  <2> HIDE DEF y
  <2>2. Beside(x, y)
    BY <1>3, <2>1, PokedBeside, BesideTransitive
  <2> QED
    BY <1>2, <2>1, <2>2 DEF Poked, Core, Staged
<1> HIDE DEF y
<1>5. /\ o \in Tracee /\ Aside(x, o) /\ o.cur = x.regs /\ o.original = x.regs /\ Noted(o)
      /\ o.status = "enter" /\ o.how = x.how /\ Tracked(o)
  <2>1. /\ Core(y, o) /\ o.cur = y.cur /\ o.original = y.cur /\ o.regs = y.regs
    BY <1>4, SaveFacts
  <2>2. Aside(y, o) /\ Noted(o)
    BY <1>4, SaveMore
  <2>3. Tracked(o)
    <3>1. Poked(u, y) /\ y.cur = u.regs
      BY <1>3, FetchFacts DEF y
    <3> HIDE DEF o
    <3> QED
      BY <2>1, <3>1 DEF Tracked, Poked
  <2> HIDE DEF o
  <2>4. Aside(x, o)
    BY <1>4, <2>2, AsideTransitive DEF Beside
  <2> QED
    BY <1>4, <2>1, <2>2, <2>3, <2>4 DEF Core
<1>6. Refused(o) <=> Turned(x)
  <2> HIDE DEF o
  <2> QED
    BY <1>5 DEF Refused, Turned
<1> HIDE DEF o
<1>7. /\ e \in Tracee /\ Aside(x, e) /\ e.original = x.regs /\ Noted(e)
      /\ e.status = "enter" /\ e.how = x.how
      /\ ~Turned(x) => Converted(x.regs, e.cur)
  <2>1. CASE Turned(x)
    <3>1. e = o
      BY <1>6, <2>1
    <3> HIDE DEF e
    <3> QED
      BY <1>5, <2>1, <3>1
  <2>2. CASE ~Turned(x)
    <3> DEFINE t == translate_syscall_enter(o)
    <3>1. e = t
      BY <1>6, <2>2
    <3>2. Poked(o, t) /\ Aside(o, t) /\ Noted(t) /\ Converted(o.cur, t.cur)
      BY <1>5, TranslateEnterMore
    <3> HIDE DEF e, t
    <3>3. Aside(x, t)
      BY <1>5, <3>2, AsideTransitive
    <3> QED
      BY <1>5, <3>1, <3>2, <3>3 DEF Poked, Core
  <2> QED
    BY <2>1, <2>2
<1> HIDE DEF e
<1>8. /\ m \in Tracee /\ Aside(x, m) /\ m.original = x.regs /\ Noted(m)
      /\ m.status = "enter" /\ m.how = x.how /\ m.cur = e.cur /\ m.modified = e.cur
  <2>1. c \in Registers /\ c = e.cur
    BY <1>7 DEF Tracee
  <2> HIDE DEF c
  <2>2. /\ Core(e, m) /\ m.cur = e.cur /\ m.original = e.original
        /\ m.regsChanged = e.regsChanged
    BY <1>7, <2>1, SetModified, Zenon
  <2>3. Aside(e, m) /\ m.modified = c
    BY <1>7, <2>1, ModifiedAside, Zenon
  <2> HIDE DEF m
  <2>4. Aside(x, m)
    BY <1>7, <2>3, AsideTransitive
  <2> QED
    BY <1>7, <2>1, <2>2, <2>3, <2>4 DEF Core, Noted
<1> HIDE DEF m
<1>9. /\ p \in Tracee /\ Beside(m, p) /\ Noted(p) /\ p.cur.num = "void" /\ p.how = x.how
  <2>1. "void" \in Numbers /\ detranslate_sysnum("void") = "void" /\ "errno" \in Results
    BY DEF Numbers, detranslate_sysnum, Results
  <2>2. Poked(m, n) /\ Aside(m, n) /\ Noted(n) /\ n.cur.num = "void"
    BY <1>8, <2>1, SysnumMore
  <2> HIDE DEF n
  <2>3. n \in Tracee
    BY <2>2 DEF Poked, Core
  <2>4. Poked(n, p) /\ Aside(n, p) /\ Noted(p) /\ p.cur.num = "void"
    BY <2>1, <2>2, <2>3, ResultMore
  <2> HIDE DEF p
  <2>5. Beside(m, p)
    BY <2>2, <2>4, PokedBeside, BesideTransitive
  <2> QED
    BY <1>8, <2>2, <2>4, <2>5 DEF Poked, Core
<1> HIDE DEF p
<1>10. Chaining(y) <=> Chaining(x)
  BY <1>4 DEF Chaining
<1>11. /\ z \in Tracee /\ Aside(x, z) /\ (Noted(z) \/ Chaining(z))
       /\ IF Chaining(x)
            THEN z.how = "syscall" /\ z.status = "ok" /\ z.original = x.original
                 /\ z.cur = x.regs
            ELSE /\ Noted(z) /\ z.original = x.regs /\ z.how = x.how
                 /\ IF Turned(x) THEN z.cur.num = "void" /\ z.status = "error"
                    ELSE /\ Converted(x.regs, z.cur) /\ z.status = "ok"
                         /\ z.modified.num = "void" => x.regs.num \in Silent
  <2>1. CASE Chaining(x)
    <3> DEFINE v == [y EXCEPT !.how = "syscall", !.status = "ok"]
    <3>1. z = v
      BY <1>10, <2>1
    <3>2. Staged(y, v) /\ v.status = "ok" /\ v.how = "syscall" /\ v.cur = y.cur
      BY <1>4, SetPassed
    <3>3. Beside(y, v)
      BY <1>4, PassedBeside
    <3> HIDE DEF v, z
    <3>4. Beside(x, v)
      BY <1>4, <3>3, BesideTransitive
    <3> QED
      BY <1>4, <2>1, <3>1, <3>2, <3>4 DEF Staged, Beside, Chaining
  <2>2. CASE ~Chaining(x) /\ Turned(x)
    <3> DEFINE v == [p EXCEPT !.status = "error"]
    <3>1. z = v
      BY <1>6, <1>10, <2>2
    <3>2. /\ Staged(p, v) /\ v.status = "error" /\ v.how = p.how /\ v.cur = p.cur
          /\ v.regsChanged = p.regsChanged /\ v.original = p.original
      BY <1>9, SetStatus
    <3>3. Beside(p, v)
      BY <1>9, StatusBeside
    <3> HIDE DEF v, z
    <3>4. Aside(x, v) /\ v.original = x.regs
      BY <1>8, <1>9, <3>3, AsideTransitive DEF Beside
    <3>5. Noted(v)
      BY <1>9, <3>2 DEF Noted
    <3> QED
      BY <1>9, <2>2, <3>1, <3>2, <3>4, <3>5 DEF Staged
  <2>3. CASE ~Chaining(x) /\ ~Turned(x)
    <3> DEFINE v == [m EXCEPT !.status = "ok"]
    <3>1. z = v
      BY <1>6, <1>10, <2>3
    <3>2. /\ Staged(m, v) /\ v.status = "ok" /\ v.how = m.how /\ v.cur = m.cur
          /\ v.regsChanged = m.regsChanged /\ v.original = m.original
      BY <1>8, SetStatus
    <3>3. Beside(m, v)
      BY <1>8, StatusBeside
    <3> HIDE DEF v, z
    <3>4. Aside(x, v) /\ v.modified = m.cur
      BY <1>8, <3>3, AsideTransitive DEF Beside
    <3>5. Noted(v)
      BY <1>8, <3>2 DEF Noted
    <3>6. Converted(x.regs, v.cur)
      BY <1>7, <1>8, <2>3, <3>2
    <3>7. v.modified.num = "void" => x.regs.num \in Silent
      BY <1>8, <3>2, <3>4, <3>6 DEF Converted
    <3> QED
      BY <1>8, <2>3, <3>1, <3>2, <3>4, <3>5, <3>6, <3>7 DEF Staged
  <2> QED
    BY <2>1, <2>2, <2>3
<1> HIDE DEF z
<1>12. /\ Beside(z, q) /\ (Noted(z) => Noted(q))
       /\ q.status = (IF z.how = "cont" THEN "enter" ELSE z.status)
       /\ q.cur.num = z.cur.num /\ q.cur.args = z.cur.args
       /\ z.how # "cont" => q.cur = z.cur
  BY <1>11, WithoutExitMore
<1> HIDE DEF q
<1>13. Aside(x, q)
  BY <1>11, <1>12, AsideTransitive DEF Beside
<1>14. EntryTold(x, q)
  BY <1>11, <1>12 DEF EntryTold, Beside, Converted
<1> QED
  BY <1>1, <1>13, <1>14

LEMMA PokeChanged ==
  ASSUME NEW x \in Tracee, NEW b \in Registers, x.regsChanged
  PROVE  poke_reg(x, b).regsChanged
<1>1. CASE x.cur = b
  BY <1>1 DEF poke_reg
<1>2. CASE x.cur # b
  BY <1>2, ChangeCur DEF poke_reg
<1> QED
  BY <1>1, <1>2

LEMMA ChainedBeside ==
  ASSUME NEW x \in Tracee
  PROVE  Beside(x, restart_current_syscall_as_chained(x))
<1> DEFINE q == <<[num |-> x.cur.num, args |-> x.cur.args]>>
           v == x.aborted \/ x.workaround # "inactive"
           y == [x EXCEPT !.aborted = v, !.workaround = "faulty", !.chain = q]
<1>1. restart_current_syscall_as_chained(x) = y
  BY Zenon DEF restart_current_syscall_as_chained
<1> HIDE DEF q, v
<1>2. Beside(x, y)
  BY Zenon DEF Beside, Aside, Tracee
<1> QED
  BY <1>1, <1>2

LEMMA AnsweredBeside ==
  ASSUME NEW x \in Tracee, NEW v \in {"ok", "error"}
  PROVE  LET y == [x EXCEPT !.status = v, !.how = "syscall"]
         IN  /\ y \in Tracee /\ Beside(x, y) /\ y.status = v /\ y.chain = x.chain
             /\ y.regs = x.regs /\ y.nr = x.nr /\ y.cur = x.cur
             /\ y.regsChanged = x.regsChanged /\ y.restore = x.restore
<1>1. v \in {"enter", "ok", "error"} /\ "syscall" \in Ways \cup {None}
  BY DEF Ways
<1> QED
  BY <1>1, Zenon DEF Beside, Aside, Tracee

(* The call whose number could not be changed is made to fail.              *)
LEMMA WorkaroundMore ==
  ASSUME NEW x \in Tracee, NEW t, t \in {"ok", "error"} \/ t = None,
         ~x.restore, Tracked(x), x.regsChanged
  PROVE  LET y == SysnumWorkaround(x, t)
         IN  /\ Beside(x, y) /\ y.regsChanged /\ y.nr = x.nr /\ y.regs.args[2] = Bad
             /\ y.status = IF x.cur.num = "void" /\ t # None THEN t ELSE x.status
             /\ x.cur.num = "void" => y.chain = x.chain
             /\ x.cur.num # "void" => y.chain # None
<1> DEFINE r == restart_current_syscall_as_chained(x)
           w == [x EXCEPT !.status = t, !.how = "syscall"]
           y == IF x.cur.num # "void" THEN r ELSE IF t # None THEN w ELSE x
           first == IF x.original.num = "brk" THEN Zero ELSE Bad
           a == [i \in 1 .. 6 |-> IF i = 1 THEN first ELSE Bad]
           c == y.cur
           b == [y.cur EXCEPT !.args = a]
           z == poke_reg(y, b)
           q == push_regs(z, FALSE)
<1>1. SysnumWorkaround(x, t) = q
  BY DEF SysnumWorkaround
<1>2. /\ y \in Tracee /\ Beside(x, y) /\ ~y.restore /\ Tracked(y) /\ y.regsChanged
      /\ y.nr = x.nr
      /\ y.status = IF x.cur.num = "void" /\ t # None THEN t ELSE x.status
      /\ x.cur.num = "void" => y.chain = x.chain
      /\ x.cur.num # "void" => y.chain # None
  <2>1. CASE x.cur.num # "void"
    <3>1. y = r
      BY <2>1
    <3>2. /\ r \in Tracee /\ r.status = x.status /\ r.restore = x.restore /\ r.nr = x.nr
          /\ r.regsChanged = x.regsChanged /\ r.chain # None
      BY RestartChainedFacts
    <3>3. Beside(x, r)
      BY ChainedBeside
    <3> HIDE DEF r, y
    <3> QED
      BY <2>1, <3>1, <3>2, <3>3 DEF Tracked
  <2>2. CASE x.cur.num = "void" /\ t # None
    <3>1. y = w
      BY <2>2
    <3>2. t \in {"ok", "error"}
      BY <2>2
    <3>3. /\ w \in Tracee /\ Beside(x, w) /\ w.status = t /\ w.chain = x.chain
          /\ w.nr = x.nr /\ w.regsChanged = x.regsChanged /\ w.restore = x.restore
      BY <3>2, AnsweredBeside
    <3> HIDE DEF w, y
    <3> QED
      BY <2>2, <3>1, <3>3 DEF Tracked
  <2>3. CASE x.cur.num = "void" /\ t = None
    <3>1. y = x
      BY <2>3
    <3> QED
      BY <2>3, <3>1 DEF Beside, Aside
  <2> QED
    BY <2>1, <2>2, <2>3
<1>3. c \in Registers /\ a \in [1 .. 6 -> Values] /\ a[2] = Bad
  <2> HIDE DEF y
  <2>1. c \in Registers
    BY <1>2 DEF Tracee
  <2>2. first \in Values
    BY Constants
  <2> HIDE DEF first
  <2> QED
    BY <2>1, <2>2, Constants
<1> HIDE DEF y, a, c
<1>4. LET e == [c EXCEPT !.args = a] IN e \in Registers /\ e.args = a
  BY <1>3, ArgsFields, Zenon
<1>5. b \in Registers /\ b.args[2] = Bad
  BY <1>3, <1>4 DEF c
<1> HIDE DEF b
<1>6. Poked(y, z) /\ Aside(y, z) /\ z.cur = b /\ Tracked(z) /\ z.regsChanged
  BY <1>2, <1>5, PokeMore, PokeChanged
<1>7. z \in Tracee /\ ~z.restore /\ ~PushFails(z, FALSE)
  BY <1>2, <1>6 DEF Poked, Core, PushFails
<1> HIDE DEF z
<1>8. /\ Core(z, q) /\ Aside(z, q) /\ q.regs = z.cur /\ q.nr = z.nr
      /\ q.original = z.original /\ q.modified = z.modified
      /\ q.regsChanged = z.regsChanged
  BY <1>6, <1>7, PushMore
<1> HIDE DEF q
<1>9. Beside(y, q)
  BY <1>6, <1>8, AsideTransitive DEF Beside, Poked
<1>10. Beside(x, q)
  BY <1>2, <1>9, BesideTransitive
<1> QED
  BY <1>1, <1>2, <1>5, <1>6, <1>8, <1>10 DEF Poked, Core

(* The entry of a call, as far as its paths go.                             *)
EntryLeaves(x, y) ==
  IF Chaining(x)
    THEN /\ y.original = x.original /\ y.status = "ok" /\ y.regs = x.regs /\ y.nr = x.nr
         /\ y.chain = x.chain
    ELSE /\ y.original = x.regs
         /\ y.chain # None => x.regs.num = "brk"
         /\ y.status = "error" => GivenUp
         /\ y.status = "ok" /\ y.chain = None /\ y.modified.num = "void" => x.regs.num \in Silent
         /\ y.regsChanged \/ y.regs = x.regs
         /\ x.nr = x.regs.num =>
              /\ FromGuest(x.regs.num, x.regs.args) => Ready(y.nr, y.regs.args)
              /\ y.nr \in {x.regs.num, "void"} \cup Heap

LEMMA EntryMore ==
  ASSUME NEW x \in Tracee, x.status = "enter", x.how \in Ways
  PROVE  Aside(x, translate_syscall(x)) /\ EntryLeaves(x, translate_syscall(x))
<1> DEFINE t == IF x.how = "cont" /\ ~Chaining(x) THEN SuppressedStatus(x) ELSE None
           q == EnterStage(x)
           p == push_regs(q, TRUE)
           w == SysnumWorkaround(p, t)
           n == push_regs(q, ~Chaining(q))
           y == IF ~Chaining(q) /\ PushFails(q, TRUE) THEN w ELSE n
<1>1. translate_syscall(x) = y
  BY DEF translate_syscall
<1>2. t \in {"ok", "error"} \/ t = None
  BY DEF SuppressedStatus
<1>3. t = IF x.how = "cont" /\ ~Chaining(x)
            THEN IF Turned(x) THEN "error" ELSE "ok" ELSE None
  BY SuppressedMore
<1>4. /\ Staged(x, q) /\ Tracked(q) /\ ~q.restore
      /\ q.status = "enter" <=> q.how = "cont"
  BY EnterStageFacts
<1>5. Aside(x, q) /\ EntryTold(x, q)
  BY EnterStageMore
<1>6. Chaining(q) <=> Chaining(x)
  BY <1>4 DEF Chaining, Staged
<1>7. q \in Tracee /\ q.regs = x.regs /\ q.nr = x.nr
  BY <1>4 DEF Staged
<1>10. IF Chaining(x) THEN y.chain = x.chain ELSE y.chain # None => x.regs.num = "brk"
  <2>1. Continued(x, y)
    BY <1>1, EntryFacts
  <2> QED
    BY <2>1 DEF Continued, Chaining
<1> HIDE DEF q, t
<1>8. CASE ~Chaining(q) /\ PushFails(q, TRUE)
  <2>1. p = q /\ q.regsChanged
    BY <1>4, <1>8 DEF push_regs, PushFails, Restored, NeedsPush
  <2>2. /\ Beside(q, w) /\ w.regsChanged /\ w.nr = q.nr /\ w.regs.args[2] = Bad
        /\ w.status = IF q.cur.num = "void" /\ t # None THEN t ELSE q.status
        /\ q.cur.num = "void" => w.chain = q.chain
        /\ q.cur.num # "void" => w.chain # None
    <3>1. w = SysnumWorkaround(q, t)
      BY <2>1
    <3> HIDE DEF w, p
    <3>2. LET r == SysnumWorkaround(q, t)
          IN  /\ Beside(q, r) /\ r.regsChanged /\ r.nr = q.nr /\ r.regs.args[2] = Bad
              /\ r.status = IF q.cur.num = "void" /\ t # None THEN t ELSE q.status
              /\ q.cur.num = "void" => r.chain = q.chain
              /\ q.cur.num # "void" => r.chain # None
      BY <1>2, <1>4, <1>7, <2>1, WorkaroundMore
    <3> QED
      BY <3>1, <3>2
  <2> HIDE DEF w, p
  <2>3. Aside(x, w)
    BY <1>5, <2>2, AsideTransitive DEF Beside
  <2>4. w.original = x.regs
    BY <1>5, <1>6, <1>8, <2>2 DEF EntryTold, Beside
  <2>5. w.status = "error" => GivenUp
    <3>1. w.status = "error" => Turned(x)
      BY <1>3, <1>5, <1>6, <1>8, <2>2 DEF EntryTold
    <3> QED
      BY <3>1, TurnedGivesUp
  <2>6. w.status = "ok" /\ w.chain = None /\ w.modified.num = "void" => x.regs.num \in Silent
    <3>1. w.status = "ok" /\ w.chain = None => ~Turned(x)
      BY <1>3, <1>5, <1>6, <1>8, <2>2 DEF EntryTold
    <3>2. w.modified = q.modified
      BY <2>2 DEF Beside
    <3> QED
      BY <1>5, <1>6, <1>8, <3>1, <3>2 DEF EntryTold
  <2>7. Ready(w.nr, w.regs.args)
    BY <2>2 DEF Ready
  <2>9. y = w
    BY <1>8
  <2>8. EntryLeaves(x, w)
    BY <1>6, <1>7, <1>8, <1>10, <2>2, <2>4, <2>5, <2>6, <2>7, <2>9 DEF EntryLeaves
  <2> QED
    BY <1>1, <1>8, <2>3, <2>8 DEF y
<1>9. CASE Chaining(q) \/ ~PushFails(q, TRUE)
  <2> DEFINE v == ~Chaining(q)
  <2>1. v \in BOOLEAN /\ ~PushFails(q, v) /\ (Noted(q) \/ ~v)
    BY <1>5, <1>6, <1>9 DEF PushFails, EntryTold
  <2>2. y = push_regs(q, v)
    BY <1>9
  <2> HIDE DEF v, y
  <2>3. /\ Core(q, y) /\ Aside(q, y) /\ y.regs = q.cur
        /\ y.original = q.original /\ y.modified = q.modified
        /\ y.regsChanged = q.regsChanged
        /\ y.nr = IF v /\ q.cur.num # q.original.num THEN q.cur.num ELSE q.nr
    BY <1>4, <1>7, <2>1, <2>2, PushMore
  <2>4. Aside(x, y)
    BY <1>5, <2>3, AsideTransitive
  <2>5. CASE Chaining(x)
    <3>1. EntryLeaves(x, y)
      BY <1>5, <1>6, <1>7, <1>10, <2>3, <2>5 DEF EntryLeaves, EntryTold, Core, v
    <3> QED
      BY <1>1, <2>4, <3>1
  <2>6. CASE ~Chaining(x)
    <3>1. /\ q.original = x.regs
          /\ q.status = "error" => Turned(x)
          /\ q.status = "ok" => ~Turned(x)
          /\ ~Turned(x) => (q.modified.num = "void" => x.regs.num \in Silent)
          /\ Turned(x) => q.cur.num = "void"
          /\ ~Turned(x) => Converted(x.regs, q.cur)
          /\ Noted(q)
      BY <1>5, <2>6 DEF EntryTold
    <3>2. /\ y.original = x.regs
          /\ y.status = "error" => GivenUp
          /\ y.status = "ok" /\ y.modified.num = "void" => x.regs.num \in Silent
          /\ y.regsChanged \/ y.regs = x.regs
      BY <2>3, <3>1, TurnedGivesUp DEF Core, Noted
    <3>3. ASSUME x.nr = x.regs.num
          PROVE  y.nr = q.cur.num /\ y.nr \in {x.regs.num, "void"} \cup Heap
      BY <1>6, <1>7, <2>3, <2>6, <3>1, <3>3 DEF v, Converted
    <3>4. ASSUME x.nr = x.regs.num, FromGuest(x.regs.num, x.regs.args)
          PROVE  Ready(y.nr, y.regs.args)
      <4>1. CASE Turned(x)
        BY <3>1, <3>3, <3>4, <4>1 DEF Ready
      <4>2. CASE ~Turned(x) /\ GivenUp
        <5>1. Places(x.regs.num) = {}
          BY <4>2, TurnedGivesUp
        <5>2. Places(y.nr) = {}
          BY <3>3, <3>4, <5>1, EmptyPlaces
        <5> QED
          BY <5>2 DEF Ready, Hosted
      <4>3. CASE ~Turned(x) /\ ~GivenUp
        BY <2>3, <3>1, <3>3, <3>4, <4>3 DEF Ready, FromGuest, Converted
      <4> QED
        BY <4>1, <4>2, <4>3
    <3>5. EntryLeaves(x, y)
      BY <1>10, <2>6, <3>2, <3>3, <3>4 DEF EntryLeaves
    <3> QED
      BY <1>1, <2>4, <3>5
  <2> QED
    BY <2>5, <2>6
<1> QED
  BY <1>8, <1>9

-----------------------------------------------------------------------------
(* The exit of a call.                                                      *)

(* y is x but for the result of the call.                                   *)
Resulted(x, y) ==
  /\ y \in Tracee /\ Beside(x, y)
  /\ y.status = x.status /\ y.how = x.how /\ y.chain = x.chain /\ y.restore = x.restore
  /\ y.restoreRewrite = x.restoreRewrite /\ y.regs = x.regs
  /\ y.cur.num = x.cur.num /\ y.cur.pc = x.cur.pc
  /\ x.regsChanged => y.regsChanged
  /\ Tracked(x) => Tracked(y)

LEMMA ResultedTransitive ==
  ASSUME NEW x, NEW y, NEW z, Resulted(x, y), Resulted(y, z)
  PROVE  Resulted(x, z)
BY DEF Resulted, Beside, Aside

LEMMA ResultedSame ==
  ASSUME NEW x \in Tracee
  PROVE  Resulted(x, x)
BY DEF Resulted, Beside, Aside

LEMMA PokedResulted ==
  ASSUME NEW x \in Tracee, NEW v \in Values
  PROVE  Resulted(x, poke_reg(x, [x.cur EXCEPT !.args[1] = v]))
<1> DEFINE b == [x.cur EXCEPT !.args[1] = v]
           y == poke_reg(x, b)
<1>1. x.cur \in Registers /\ 1 \in 1 .. 6
  BY DEF Tracee
<1>2. b \in Registers /\ b.num = x.cur.num /\ b.pc = x.cur.pc
  BY <1>1, ArgFields
<1> HIDE DEF b
<1>3. /\ Poked(x, y) /\ Aside(x, y) /\ y.cur = b
      /\ Tracked(x) => Tracked(y)
  BY <1>2, PokeMore
<1>4. x.regsChanged => y.regsChanged
  BY <1>2, PokeChanged
<1>5. Beside(x, y)
  BY <1>3, PokedBeside
<1> HIDE DEF y
<1>6. Resulted(x, y)
  BY <1>2, <1>3, <1>4, <1>5 DEF Resulted, Poked, Core
<1> QED
  BY <1>6 DEF y, b

LEMMA ResultResulted ==
  ASSUME NEW x \in Tracee, NEW name \in Results
  PROVE  Resulted(x, poke_result(x, name))
<1>1. Value(name) \in Values
  BY DEF Values
<1> QED
  BY <1>1, PokedResulted DEF poke_result

LEMMA HeapResulted ==
  ASSUME NEW x \in Tracee
  PROVE  Resulted(x, [x EXCEPT !.heap = TRUE])
<1> DEFINE y == [x EXCEPT !.heap = TRUE]
<1>1. /\ Poked(x, y) /\ y.cur = x.cur /\ y.regsChanged = x.regsChanged
  BY SetHeap
<1>2. Aside(x, y)
  BY Zenon DEF Aside, Tracee
<1> HIDE DEF y
<1>3. Resulted(x, y)
  BY <1>1, <1>2, PokedBeside DEF Resulted, Poked, Core, Tracked
<1> QED
  BY <1>3 DEF y

LEMMA SeccompResulted ==
  ASSUME NEW x \in Tracee, NEW v \in {"enabled", "disabling", "disabled"}
  PROVE  Resulted(x, [x EXCEPT !.seccomp = v])
<1> DEFINE y == [x EXCEPT !.seccomp = v]
<1>1. /\ y \in Tracee
      /\ y.status = x.status /\ y.how = x.how /\ y.restore = x.restore /\ y.chain = x.chain
      /\ y.restoreRewrite = x.restoreRewrite /\ y.regs = x.regs
      /\ y.cur = x.cur /\ y.regsChanged = x.regsChanged
  BY SetSeccomp
<1>2. Beside(x, y)
  BY Zenon DEF Beside, Aside, Tracee
<1> HIDE DEF y
<1>3. Resulted(x, y)
  BY <1>1, <1>2 DEF Resulted, Tracked
<1> QED
  BY <1>3 DEF y

LEMMA BrkResulted ==
  ASSUME NEW x \in Tracee
  PROVE  Resulted(x, translate_brk_exit(x))
<1> DEFINE y == [x EXCEPT !.heap = TRUE]
<1>1. "zero" \in Results /\ "heap" \in Results
  BY DEF Results
<1>2. Resulted(x, y)
  BY HeapResulted
<1>3. translate_brk_exit(x) = poke_result(x, "zero") \/ translate_brk_exit(x) = poke_result(y, "heap")
  BY DEF translate_brk_exit
<1> HIDE DEF y
<1>4. Resulted(x, poke_result(x, "zero"))
  BY <1>1, ResultResulted
<1>5. Resulted(y, poke_result(y, "heap"))
  BY <1>1, <1>2, ResultResulted DEF Resulted
<1> QED
  BY <1>2, <1>3, <1>4, <1>5, ResultedTransitive

LEMMA PtraceResulted ==
  ASSUME NEW x \in Tracee
  PROVE  Resulted(x, poke_result([x EXCEPT !.seccomp = IF @ = "enabled" THEN "disabling" ELSE @],
                                 "zero"))
<1> DEFINE v == IF x.seccomp = "enabled" THEN "disabling" ELSE x.seccomp
           y == [x EXCEPT !.seccomp = v]
<1>1. v \in {"enabled", "disabling", "disabled"}
  BY DEF Tracee
<1> HIDE DEF v
<1>2. Resulted(x, y)
  BY <1>1, SeccompResulted
<1> HIDE DEF y
<1>3. "zero" \in Results
  BY DEF Results
<1>4. Resulted(y, poke_result(y, "zero"))
  BY <1>2, <1>3, ResultResulted DEF Resulted
<1>5. Resulted(x, poke_result(y, "zero"))
  BY <1>2, <1>4, ResultedTransitive
<1> QED
  BY <1>5 DEF y, v

(* y makes the call of x again with the registers of the guest.             *)
Fixed(x, y) ==
  /\ x.original.num = "utime"
  /\ y \in Tracee /\ y.chain = x.chain /\ y.how = "syscall"
  /\ y.restoreRewrite /\ ~y.restore /\ y.cur = y.regs
  /\ y.regs.pc = "trap" /\ y.regs.num = "utimensat"
  /\ Guests("utime", x.original.args) => Guests("utimensat", y.regs.args)
  /\ y.sysexitPending = x.sysexitPending /\ y.skip = x.skip

(* The registers are those the guest must find.                             *)
Unanswered(x) ==
  /\ x.original.num \in Legacy
  /\ x.status # "error" /\ x.modified.num # "void"
  /\ x.original.num = "rename" => x.cur.args[1] # Value("done")

LEMMA TranslateExitMore ==
  ASSUME NEW x \in Tracee
  PROVE  LET y == translate_syscall_exit(x)
         IN  /\ Resulted(x, y) \/ Fixed(x, y)
             /\ Unanswered(x) => y = x
<1> DEFINE v == x.modified.args[1]
           y == IF x.modified.num = "void" /\ x.original.num # "void"
                  THEN poke_reg(x, [x.cur EXCEPT !.args[1] = v]) ELSE x
           num == x.original.num
           f == fix_and_restart_enosys_syscall(y)
           g == poke_result([y EXCEPT !.seccomp = IF @ = "enabled" THEN "disabling" ELSE @],
                            "zero")
           t == translate_syscall_exit(x)
<1>1. "errno" \in Results /\ "length" \in Results /\ "zero" \in Results
  BY DEF Results
<1>2. Resulted(x, y)
  <2>1. v \in Values
    BY DEF Tracee, Registers
  <2> HIDE DEF v
  <2> QED
    BY <2>1, PokedResulted, ResultedSame
<1>3. \/ t = poke_result(x, "errno") \/ t = translate_brk_exit(y)
      \/ t = poke_result(y, "length") \/ t = poke_result(y, "zero")
      \/ t = y \/ (num = "utime" /\ t = f) \/ t = g
  BY DEF translate_syscall_exit
<1>4. Unanswered(x) => t = x
  <2> SUFFICES ASSUME Unanswered(x)
               PROVE  t = x
    OBVIOUS
  <2>1. y = x /\ x.status # "error"
    BY DEF Unanswered
  <2>2. num \notin {"brk", "getcwd", "chdir", "renameat", "readlinkat", "ptrace", "utime"}
    BY DEF Unanswered, Legacy
  <2>3. num = "rename" => y.cur.args[1] # Value("done")
    BY <2>1 DEF Unanswered
  <2>4. t = y
    BY <2>1, <2>2, <2>3 DEF translate_syscall_exit
  <2> QED
    BY <2>1, <2>4
<1> HIDE DEF y, t
<1>5. y \in Tracee /\ y.original = x.original
  BY <1>2 DEF Resulted, Beside
<1>6. Resulted(x, poke_result(x, "errno"))
  BY <1>1, ResultResulted
<1>7. Resulted(y, poke_result(y, "length")) /\ Resulted(y, poke_result(y, "zero"))
  BY <1>1, <1>5, ResultResulted
<1>8. Resulted(y, translate_brk_exit(y)) /\ Resulted(y, g) /\ Resulted(y, y)
  BY <1>5, BrkResulted, PtraceResulted, ResultedSame
<1>9. num = "utime" => Fixed(x, f)
  <2>1. num = "utime" =>
          /\ Ended(y, f) /\ f.how = "syscall" /\ f.restoreRewrite
          /\ f.regs.pc = "trap" /\ f.regs.num = "utimensat"
          /\ Guests("utime", y.original.args) => Guests("utimensat", f.regs.args)
          /\ f.sysexitPending = y.sysexitPending /\ f.skip = y.skip
    BY <1>5, FixFacts, FixMore
  <2> HIDE DEF f
  <2> QED
    BY <1>2, <1>5, <2>1 DEF Fixed, Ended, Resulted, Beside, Aside
<1> HIDE DEF f, g
<1>10. Resulted(x, t) \/ Fixed(x, t)
  BY <1>2, <1>3, <1>6, <1>7, <1>8, <1>9, ResultedTransitive
<1> QED
  BY <1>4, <1>10 DEF t

(* y is x with the registers of the thread, to be restored.                 *)
Prepared(x, y) ==
  /\ y \in Tracee /\ Beside(x, y)
  /\ y.status = x.status /\ y.how = x.how /\ y.chain = x.chain
  /\ y.restoreRewrite = x.restoreRewrite
  /\ y.regsChanged = x.regsChanged
  /\ y.cur = x.regs /\ y.restore /\ Tracked(y)

LEMMA FetchPrepared ==
  ASSUME NEW x \in Tracee
  PROVE  LET y == fetch_regs([x EXCEPT !.restore = TRUE])
         IN  Prepared(x, y) /\ y.workaround = x.workaround
<1> DEFINE u == [x EXCEPT !.restore = TRUE]
           y == fetch_regs(u)
<1>1. /\ Staged(x, u) /\ u.status = x.status /\ u.how = x.how /\ u.restore
      /\ u.regsChanged = x.regsChanged
  BY SetRestore
<1>2. Beside(x, u)
  BY RestoreBeside
<1> HIDE DEF u
<1>3. u \in Tracee
  BY <1>1 DEF Staged
<1>4. Poked(u, y) /\ y.cur = u.regs /\ Tracked(y)
  BY <1>3, FetchFacts
<1>5. Aside(u, y) /\ y.regsChanged = u.regsChanged
  BY <1>3, FetchMore
<1> HIDE DEF y
<1>6. Beside(x, y)
  BY <1>2, <1>4, <1>5, PokedBeside, BesideTransitive
<1>7. Prepared(x, y) /\ y.workaround = x.workaround
  BY <1>1, <1>4, <1>5, <1>6 DEF Prepared, Poked, Core, Staged
<1> QED
  BY <1>7 DEF y, u

LEMMA WorkaroundBeside ==
  ASSUME NEW x \in Tracee, NEW v \in {"inactive", "faulty", "replaced"}
  PROVE  Beside(x, [x EXCEPT !.workaround = v])
BY Zenon DEF Beside, Aside, Tracee

LEMMA WorkaroundPrepared ==
  ASSUME NEW x, NEW y, Prepared(x, y), NEW v \in {"inactive", "faulty", "replaced"}
  PROVE  Prepared(x, [y EXCEPT !.workaround = v])
<1> DEFINE z == [y EXCEPT !.workaround = v]
<1>1. y \in Tracee
  BY DEF Prepared
<1>2. /\ Left(y, z) /\ z.how = y.how /\ z.status = y.status /\ z.chain = y.chain
      /\ z.cur = y.cur /\ z.regs = y.regs /\ z.regsChanged = y.regsChanged
      /\ z.restore = y.restore /\ z.restoreRewrite = y.restoreRewrite
  BY <1>1, SetWorkaround
<1>3. Beside(y, z)
  BY <1>1, WorkaroundBeside
<1> HIDE DEF z
<1>4. Prepared(x, z)
  BY <1>2, <1>3, BesideTransitive DEF Prepared, Left, Tracked
<1> QED
  BY <1>4 DEF z

LEMMA ChainBeside ==
  ASSUME NEW x \in Tracee, NEW q \in Seq(Request) \cup {None}
  PROVE  Beside(x, [x EXCEPT !.chain = q])
BY Zenon DEF Beside, Aside, Tracee

LEMMA NextBeside ==
  ASSUME NEW x \in Tracee, NEW q \in Seq(Request)
  PROVE  Beside(x, [x EXCEPT !.restore = FALSE, !.chain = q, !.how = "syscall"])
BY Zenon DEF Beside, Aside, Tracee

LEMMA NextMore ==
  ASSUME NEW x \in Tracee, Chaining(x)
  PROVE  LET y == chain_next_syscall(x)
         IN  /\ Beside(x, y)
             /\ x.chain = <<>> => y.how = x.how /\ y.regsChanged = x.regsChanged
<1>1. x.chain \in Seq(Request)
  BY DEF Chaining, Tracee
<1>2. CASE x.chain = <<>>
  <2> DEFINE y == [x EXCEPT !.chain = None]
  <2>1. chain_next_syscall(x) = y
    BY <1>2 DEF chain_next_syscall
  <2>2. y.how = x.how /\ y.regsChanged = x.regsChanged
    BY SetChain
  <2>3. Beside(x, y)
    BY ChainBeside
  <2> HIDE DEF y
  <2> QED
    BY <2>1, <2>2, <2>3
<1>3. CASE x.chain # <<>>
  <2> DEFINE q == Tail(x.chain)
             h == Head(x.chain)
             u == [x EXCEPT !.restore = FALSE, !.chain = q, !.how = "syscall"]
             c == x.cur
             n == h.num
             a == h.args
             b == [x.cur EXCEPT !.num = n, !.args = a, !.pc = "trap"]
             z == poke_reg(u, b)
  <2>1. chain_next_syscall(x) = z
    BY <1>3 DEF chain_next_syscall
  <2>2. q \in Seq(Request) /\ h \in Request
    BY <1>1, <1>3
  <2>3. n \in Number /\ a \in [1 .. 6 -> Values] /\ c \in Registers
    <3> HIDE DEF h
    <3> QED
      BY <2>2 DEF Request, Tracee
  <2> HIDE DEF q, h, c, n, a
  <2>4. u \in Tracee
    BY <2>2, SetNext, Zenon DEF Left
  <2>5. Beside(x, u)
    BY <2>2, NextBeside, Zenon
  <2> DEFINE k == "trap"
  <2>6. k \in {"after", "trap"}
    OBVIOUS
  <2> HIDE DEF u, k
  <2>7. [c EXCEPT !.num = n, !.args = a, !.pc = k] \in Registers
    BY <2>3, <2>6, Zenon DEF Registers
  <2>8. b \in Registers
    BY <2>7 DEF c, k
  <2> HIDE DEF b
  <2>9. Poked(u, z) /\ Aside(u, z)
    BY <2>4, <2>8, PokeMore
  <2> HIDE DEF z
  <2>10. Beside(x, z)
    BY <2>5, <2>9, PokedBeside, BesideTransitive
  <2> QED
    BY <1>3, <2>1, <2>10
<1> QED
  BY <1>2, <1>3

(* The call of the guest was neither rewritten nor answered by PRoot, and   *)
(* its paths are in the registers it will find.                             *)
Unrewritten(x) ==
  LET args == [x.original.args EXCEPT ![1] = x.regs.args[1]]
  IN  /\ x.chain = None /\ ~x.restoreRewrite
      /\ x.original.num \in Legacy
      /\ x.status = "error" => GivenUp
      /\ x.status # "error" => x.modified.num # "void"
      /\ FromGuest(x.original.num, args)
      /\ x.regsChanged \/ (x.regs.num = x.original.num /\ x.regs.args = args)

ExitPaths(x, y) ==
  /\ y.restoreRewrite => y.regs.pc = "trap"
  /\ y.regs.pc = "trap" =>
       /\ y.how = "syscall"
       /\ FromGuest(x.original.num, x.original.args) => FromGuest(y.regs.num, y.regs.args)
       /\ x.chain = None \/ y.chain = None => y.regs.num = "utimensat"
       /\ x.original.num = "utime" \/ x.chain \notin {None, <<>>}
  /\ y.chain # None => y.original = x.original /\ y.chain = <<>>
  /\ Unrewritten(x) => FromGuest(y.regs.num, y.regs.args)
  /\ x.chain = None /\ x.original.num = "void" /\ x.restoreRewrite =>
       y.regs.num = x.rewrite.num

ExitLeaves(x, y) ==
  /\ y.skip = x.skip /\ y.sysexitPending = x.sysexitPending
  /\ y.how = x.how \/ y.chain # None \/ y.restoreRewrite
  /\ ExitPaths(x, y)

LEMMA UnansweredWhole ==
  ASSUME NEW x \in Tracee, NEW y, Unrewritten(x), ~GivenUp, Prepared(x, y)
  PROVE  Unanswered(y)
<1> DEFINE args == [x.original.args EXCEPT ![1] = x.regs.args[1]]
<1>1. /\ y.original = x.original /\ y.modified = x.modified /\ y.status = x.status
      /\ y.cur = x.regs
  BY DEF Prepared, Beside
<1>2. ASSUME x.original.num = "rename"
      PROVE  x.regs.args[1] # Value("done")
  <2>1. Guests("rename", args) /\ Places("rename") = {1, 2}
    BY <1>2, SomePlaces DEF Unrewritten, FromGuest, Renames
  <2>2. x.original.args \in [1 .. 6 -> Values]
    BY DEF Tracee, Registers
  <2>3. args[1] = x.regs.args[1]
    BY <2>2
  <2>4. x.regs.args[1][1] = "guest"
    BY <2>1, <2>3 DEF Guests
  <2> QED
    BY <2>4 DEF Value
<1> QED
  BY <1>1, <1>2 DEF Unanswered, Unrewritten

(* The registers are restored: those of the guest, or those it had before    *)
(* its call was rewritten.                                                  *)
LEMMA RestoreLeaves ==
  ASSUME NEW x \in Tracee, NEW y \in Tracee, Tracked(y), y.restore, y.chain = None,
         Aside(x, y), y.original = x.original, y.how = x.how, y.cur.pc = "after",
         y.restoreRewrite = x.restoreRewrite, x.regsChanged => y.regsChanged,
         Unrewritten(x) => GivenUp \/ y.cur = x.regs
  PROVE  ExitLeaves(x, push_regs(y, FALSE))
<1> DEFINE q == push_regs(y, FALSE)
           bank == IF y.restoreRewrite THEN y.rewrite ELSE y.original
<1>1. /\ q \in Tracee /\ Aside(y, q) /\ ~q.restoreRewrite /\ q.regs.pc = "after"
      /\ \/ /\ y.regsChanged \/ y.restoreRewrite
            /\ q.regs.num = bank.num
            /\ q.regs.args = [bank.args EXCEPT ![1] = y.cur.args[1]]
         \/ ~y.regsChanged /\ ~y.restoreRewrite /\ q.regs = y.cur
  BY RestoreMore
<1>2. q.how = y.how /\ q.chain = None
  BY PushFacts DEF Core
<1> HIDE DEF q
<1>3. ASSUME Unrewritten(x)
      PROVE  FromGuest(q.regs.num, q.regs.args)
  <2>1. CASE GivenUp
    BY <2>1 DEF FromGuest
  <2>2. CASE y.cur = x.regs
    <3> DEFINE args == [x.original.args EXCEPT ![1] = x.regs.args[1]]
    <3>1. FromGuest(x.original.num, args) /\ ~x.restoreRewrite
      BY <1>3 DEF Unrewritten
    <3>2. q.regs.num = x.original.num /\ q.regs.args = args
      BY <1>1, <1>3, <2>2, <3>1 DEF Unrewritten
    <3> HIDE DEF args
    <3> QED
      BY <3>1, <3>2
  <2> QED
    BY <1>3, <2>1, <2>2
<1>4. x.restoreRewrite => q.regs.num = x.rewrite.num
  BY <1>1 DEF Aside
<1>5. q.skip = x.skip /\ q.sysexitPending = x.sysexitPending
  BY <1>1 DEF Aside
<1>6. ExitLeaves(x, q)
  BY <1>1, <1>2, <1>3, <1>4, <1>5 DEF ExitLeaves, ExitPaths
<1> QED
  BY <1>6 DEF q

LEMMA ExitMore ==
  ASSUME NEW x \in Tracee, x.how \in Ways, ChainRight(x), x.regs.pc = "after",
         x.chain # None => x.original.num = "brk"
  PROVE  ExitLeaves(x, ExitStage(x))
<1> DEFINE u == [x EXCEPT !.restore = TRUE]
           y == fetch_regs(u)
           i == [y EXCEPT !.workaround = "inactive"]
           t == translate_syscall_exit(i)
           j == [y EXCEPT !.workaround = "replaced"]
           z == IF ~Chaining(y) \/ y.workaround = "replaced" THEN t
                ELSE IF y.workaround = "faulty" THEN j ELSE y
           e == [z EXCEPT !.status = "enter"]
           r == IF Chaining(e) THEN chain_next_syscall(e) ELSE e
           q == push_regs(r, FALSE)
<1>1. ExitStage(x) = q
  BY DEF ExitStage
<1>2. Prepared(x, y) /\ y.workaround = x.workaround
  BY FetchPrepared
<1> HIDE DEF y
<1>3. Prepared(x, i) /\ Prepared(x, j)
  BY <1>2, WorkaroundPrepared
<1> HIDE DEF i, j
<1>4. /\ Resulted(i, t) \/ Fixed(i, t)
      /\ Unanswered(i) => t = i
  BY <1>3, TranslateExitMore DEF Prepared
<1> HIDE DEF t
<1>5. /\ x.workaround \in {"inactive", "faulty", "replaced"}
      /\ x.workaround = "faulty" => x.chain # None /\ x.chain # <<>>
      /\ x.workaround = "replaced" => x.chain = <<>>
      /\ x.workaround = "inactive" <=> x.chain = None
  <2>1. \A h : <<h>> # <<>>
    OBVIOUS
  <2>2. <<>> # None
    <3>1. <<>> \in Seq(Request)
      OBVIOUS
    <3> QED
      BY <3>1, SyscallsAssumption
  <2> QED
    BY <2>1, <2>2 DEF ChainRight, Tracee
<1>6. z \in Tracee
  BY <1>2, <1>3, <1>4 DEF Prepared, Resulted, Fixed
<1>7. /\ e \in Tracee /\ Beside(z, e) /\ e.how = z.how /\ e.restore = z.restore
      /\ e.cur = z.cur /\ e.regsChanged = z.regsChanged /\ e.chain = z.chain
      /\ e.restoreRewrite = z.restoreRewrite /\ e.regs = z.regs
  <2> HIDE DEF z
  <2>1. /\ Staged(z, e) /\ e.status = "enter" /\ e.how = z.how /\ e.restore = z.restore
        /\ e.original = z.original /\ e.cur = z.cur /\ e.regsChanged = z.regsChanged
    BY <1>6, SetStatus
  <2>2. Beside(z, e)
    BY <1>6, StatusBeside
  <2> HIDE DEF e
  <2> QED
    BY <2>1, <2>2 DEF Staged
<1>8. CASE x.chain = None
  <2>1. z = t
    BY <1>2, <1>8 DEF Chaining, Prepared
  <2> HIDE DEF z, e
  <2>2. t.chain = None
    BY <1>3, <1>4, <1>8 DEF Resulted, Fixed, Prepared
  <2>3. r = e
    BY <1>7, <2>1, <2>2 DEF Chaining
  <2> HIDE DEF r
  <2>4. CASE Resulted(i, t)
    <3>1. Unrewritten(x) => GivenUp \/ r.cur = x.regs
      <4>1. Unrewritten(x) /\ ~GivenUp => Unanswered(i)
        BY <1>3, UnansweredWhole
      <4> QED
        BY <1>3, <1>4, <1>7, <2>1, <2>3, <4>1 DEF Prepared
    <3>2. Beside(x, r)
      BY <1>3, <1>7, <2>1, <2>3, <2>4, BesideTransitive DEF Prepared, Resulted
    <3>3. /\ r \in Tracee /\ Tracked(r) /\ r.restore /\ r.chain = None
          /\ r.how = x.how /\ r.cur.pc = "after"
          /\ r.restoreRewrite = x.restoreRewrite /\ (x.regsChanged => r.regsChanged)
      BY <1>3, <1>7, <2>1, <2>2, <2>3, <2>4 DEF Prepared, Resulted, Tracked
    <3>4. Aside(x, r) /\ r.original = x.original
      BY <3>2 DEF Beside
    <3>5. ExitLeaves(x, push_regs(r, FALSE))
      BY <3>1, <3>3, <3>4, RestoreLeaves
    <3> QED
      BY <1>1, <3>5
  <2>5. CASE Fixed(i, t)
    <3>1. /\ r \in Tracee /\ ~r.restore /\ Tracked(r) /\ r.restoreRewrite
          /\ r.how = "syscall" /\ r.chain = None
          /\ r.cur.pc = "trap" /\ r.cur.num = "utimensat"
          /\ Guests("utime", i.original.args) => Guests("utimensat", r.cur.args)
          /\ r.sysexitPending = i.sysexitPending /\ r.skip = i.skip
      BY <1>7, <2>1, <2>2, <2>3, <2>5 DEF Fixed, Tracked, Beside, Aside
    <3>2. ~PushFails(r, FALSE)
      BY DEF PushFails
    <3>3. /\ Core(r, q) /\ Aside(r, q) /\ q.regs = r.cur
          /\ q.restoreRewrite = r.restoreRewrite
      BY <3>1, <3>2, PushMore
    <3> HIDE DEF q
    <3>4. i.original = x.original /\ i.original.num = "utime"
      BY <1>3, <2>5 DEF Prepared, Beside, Fixed
    <3>5. q.skip = x.skip /\ q.sysexitPending = x.sysexitPending
      BY <1>3, <3>1, <3>3 DEF Aside, Beside, Prepared
    <3>6. FromGuest(x.original.num, x.original.args) => FromGuest(q.regs.num, q.regs.args)
      BY <3>1, <3>3, <3>4 DEF FromGuest
    <3>7. ~Unrewritten(x) /\ x.original.num # "void"
      BY <3>4 DEF Unrewritten, Legacy
    <3>8. ExitLeaves(x, q)
      BY <3>1, <3>3, <3>4, <3>5, <3>6, <3>7 DEF ExitLeaves, ExitPaths, Core
    <3> QED
      BY <1>1, <3>8
  <2> QED
    BY <1>4, <2>4, <2>5
<1>9. CASE x.chain # None /\ x.chain = <<>>
  <2>1. z = t
    BY <1>2, <1>5, <1>9 DEF Chaining, Prepared
  <2>2. Resulted(i, t)
    <3>1. i.original.num = "brk"
      BY <1>3, <1>9 DEF Prepared, Beside
    <3> QED
      BY <1>4, <3>1 DEF Fixed
  <2> HIDE DEF z, e
  <2>3. e.chain = <<>> /\ Chaining(e)
    BY <1>3, <1>7, <1>9, <2>1, <2>2 DEF Chaining, Resulted, Prepared
  <2>4. r = chain_next_syscall(e)
    BY <2>3
  <2> HIDE DEF r
  <2>5. Beside(e, r) /\ r.how = e.how /\ r.regsChanged = e.regsChanged
    BY <1>7, <2>3, <2>4, NextMore
  <2>6. e.how \in Ways
    BY <1>3, <1>7, <2>1, <2>2 DEF Resulted, Prepared
  <2>7. /\ Left(e, r) /\ (Tracked(e) => Tracked(r))
        /\ r.chain = None /\ r.cur = e.cur /\ r.restore = e.restore
        /\ r.restoreRewrite = e.restoreRewrite
    BY <1>7, <2>3, <2>4, <2>6, NextFacts
  <2>8. Beside(x, r)
    BY <1>3, <1>7, <2>1, <2>2, <2>5, BesideTransitive DEF Prepared, Resulted
  <2>9. /\ r \in Tracee /\ Tracked(r) /\ r.restore
        /\ r.how = x.how /\ r.cur.pc = "after"
        /\ r.restoreRewrite = x.restoreRewrite /\ (x.regsChanged => r.regsChanged)
    BY <1>3, <1>7, <2>1, <2>2, <2>5, <2>7 DEF Prepared, Resulted, Tracked, Left
  <2>10. Aside(x, r) /\ r.original = x.original /\ ~Unrewritten(x)
    BY <1>9, <2>8 DEF Beside, Unrewritten
  <2>11. ExitLeaves(x, push_regs(r, FALSE))
    BY <2>7, <2>9, <2>10, RestoreLeaves
  <2> QED
    BY <1>1, <2>11
<1>10. CASE x.chain # None /\ x.chain # <<>>
  <2>1. z = j
    BY <1>2, <1>5, <1>10 DEF Chaining, Prepared
  <2>2. Head(x.chain).num \in Heap
    BY <1>5, <1>10 DEF ChainRight
  <2> HIDE DEF z, e
  <2>3. e.chain = x.chain /\ e.chain # <<>> /\ Chaining(e) /\ e.how \in Ways
    BY <1>3, <1>7, <1>10, <2>1 DEF Chaining, Prepared
  <2>4. r = chain_next_syscall(e)
    BY <2>3
  <2> HIDE DEF r
  <2>5. Beside(e, r)
    BY <1>7, <2>3, <2>4, NextMore
  <2>6. /\ Left(e, r) /\ (Tracked(e) => Tracked(r))
        /\ r.chain = Tail(e.chain) /\ r.how = "syscall" /\ ~r.restore
        /\ r.cur.pc = "trap" /\ r.cur.num = Head(e.chain).num
    BY <1>7, <2>3, <2>4, NextFacts
  <2>7. r.chain # None /\ r.chain = <<>>
    <3>1. Head(x.chain) \in Request /\ x.chain = <<Head(x.chain)>>
      <4>1. x.chain \in Seq(Request)
        BY <1>10 DEF Tracee
      <4> QED
        BY <1>5, <1>10, <4>1 DEF ChainRight
    <3>2. Tail(x.chain) = <<>>
      BY <3>1, TailOfOne
    <3>3. <<>> \in Seq(Request)
      OBVIOUS
    <3> QED
      BY <2>3, <2>6, <3>2, <3>3, SyscallsAssumption
  <2>8. r \in Tracee /\ Tracked(r) /\ ~PushFails(r, FALSE)
    BY <1>3, <1>7, <2>1, <2>6 DEF Left, Prepared, Tracked, PushFails
  <2>9. /\ Core(r, q) /\ Aside(r, q) /\ q.regs = r.cur /\ q.original = r.original
    BY <2>6, <2>8, PushMore
  <2> HIDE DEF q
  <2>10. Beside(x, r)
    BY <1>3, <1>7, <2>1, <2>5, BesideTransitive DEF Prepared
  <2>11. q.skip = x.skip /\ q.sysexitPending = x.sysexitPending
    BY <2>9, <2>10 DEF Beside, Aside
  <2>12. Places(q.regs.num) = {}
    BY <2>2, <2>3, <2>6, <2>9, EmptyPlaces
  <2>13. FromGuest(q.regs.num, q.regs.args)
    BY <2>12 DEF FromGuest, Guests
  <2>14. ExitLeaves(x, q)
    BY <1>10, <2>6, <2>7, <2>9, <2>10, <2>11, <2>13
       DEF ExitLeaves, ExitPaths, Core, Beside, Unrewritten
  <2> QED
    BY <1>1, <2>14
<1> QED
  BY <1>8, <1>9, <1>10

-----------------------------------------------------------------------------
(* The stops.                                                               *)

(* y is x but for how the thread is restarted and what PRoot remembers of    *)
(* the stop.                                                                *)
Held(x, y) ==
  /\ y.status = x.status /\ y.chain = x.chain /\ y.restoreRewrite = x.restoreRewrite
  /\ y.regs = x.regs /\ y.nr = x.nr /\ y.rewrite = x.rewrite
  /\ y.original = x.original /\ y.modified = x.modified /\ y.regsChanged = x.regsChanged

Untouched(x, y) == Held(x, y) /\ y.sysexitPending = x.sysexitPending /\ y.skip = x.skip

LEMMA SkipHeld ==
  ASSUME NEW x \in Tracee, NEW v \in BOOLEAN
  PROVE  LET y == [x EXCEPT !.skip = v]
         IN  Held(x, y) /\ y.skip = v /\ y.sysexitPending = x.sysexitPending
BY Zenon DEF Held, Tracee

LEMMA DisabledUntouched ==
  ASSUME NEW x \in Tracee
  PROVE  Untouched(x, [x EXCEPT !.how = "syscall", !.seccomp = "disabled"])
BY Zenon DEF Untouched, Held, Tracee

LEMMA HandledUntouched ==
  ASSUME NEW x \in Tracee, NEW v \in BOOLEAN
  PROVE  Untouched(x, [x EXCEPT !.aborted = v, !.handledEnter = FALSE, !.how = "syscall"])
BY Zenon DEF Untouched, Held, Tracee

LEMMA HowUntouched ==
  ASSUME NEW x \in Tracee, NEW w
  PROVE  Untouched(x, [x EXCEPT !.how = w])
BY Zenon DEF Untouched, Held, Tracee

LEMMA BeginUntouched ==
  ASSUME NEW x \in Tracee
  PROVE  Untouched(x, Begin(x))
<1> DEFINE w == IF x.seccomp = "enabled" /\ ~Necessary(x) THEN "cont" ELSE "syscall"
<1>1. Begin(x) = [x EXCEPT !.how = w]
  BY DEF Begin
<1> HIDE DEF w
<1> QED
  BY <1>1, HowUntouched, Zenon

LEMMA RestartedUntouched ==
  ASSUME NEW x \in Tracee
  PROVE  Untouched(x, Restarted(x))
<1> DEFINE w == x.how
           y == [x EXCEPT !.last = w, !.how = None]
<1>1. Restarted(x) = y
  BY DEF Restarted
<1> HIDE DEF w
<1>2. Untouched(x, y)
  BY Zenon DEF Untouched, Held, Tracee
<1> QED
  BY <1>1, <1>2

LEMMA SuppressedUntouched ==
  ASSUME NEW x \in Tracee, NEW v
  PROVE  Untouched(x, [x EXCEPT !.suppressed = v])
BY Zenon DEF Untouched, Held, Tracee

LEMMA UntouchedTransitive ==
  ASSUME NEW x, NEW y, NEW z, Untouched(x, y), Untouched(y, z)
  PROVE  Untouched(x, z)
BY DEF Untouched, Held

LEMMA EntryLeavesHeld ==
  ASSUME NEW x, NEW p, NEW t, NEW y, Held(x, p), EntryLeaves(p, t), Held(t, y)
  PROVE  EntryLeaves(x, y)
BY DEF Held, EntryLeaves, Chaining

LEMMA ExitPathsHeld ==
  ASSUME NEW x, NEW p, NEW t, NEW y, Held(x, p), ExitPaths(p, t), Held(t, y),
         y.how \in {t.how, "syscall"}
  PROVE  ExitPaths(x, y)
<1>1. Unrewritten(x) => Unrewritten(p)
  BY DEF Held, Unrewritten
<1> QED
  BY <1>1 DEF Held, ExitPaths

LEMMA SyscallStopMore ==
  ASSUME NEW x \in Tracee, x.how \in Ways, x.seccomp \in {"enabled", "disabled"},
         ChainRight(x),
         ~Expects(x) => x.regs.pc = "after",
         ~Expects(x) /\ x.chain # None => x.original.num = "brk"
  PROVE  LET y == OnSyscallStop(x)
         IN  /\ ~After /\ ~x.skip => ~y.skip
             /\ y.seccomp = "enabled" => y.sysexitPending = Expects(x)
             /\ IF x.handledEnter THEN Held(x, y)
                ELSE IF Expects(x)
                  THEN /\ EntryLeaves(x, y)
                       /\ y.rewrite = x.rewrite /\ y.restoreRewrite = x.restoreRewrite
                  ELSE /\ ExitPaths(x, y)
                       /\ y.seccomp = "enabled" /\ y.how = "syscall" =>
                            y.chain # None \/ y.restoreRewrite
<1> DEFINE entry == x.status = "enter"
           w == IF entry THEN "syscall" ELSE "cont"
           p == IF x.seccomp = "enabled" THEN [x EXCEPT !.how = w, !.sysexitPending = entry]
                ELSE x
           t == translate_syscall(p)
           v == p.aborted \/ entry \/ After
           h == [p EXCEPT !.aborted = v, !.handledEnter = FALSE, !.how = "syscall"]
           c == After /\ t.cur.num = "void"
           e == [t EXCEPT !.skip = c]
           q == IF p.handledEnter THEN h ELSE IF entry THEN e ELSE t
           d == [q EXCEPT !.how = "syscall", !.seccomp = "disabled"]
           y == IF q.seccomp = "disabling" THEN d ELSE q
<1>1. OnSyscallStop(x) = y
  BY Zenon DEF OnSyscallStop
<1>2. /\ p \in Tracee /\ Held(x, p) /\ p.skip = x.skip /\ p.how \in Ways
      /\ p.seccomp = x.seccomp /\ p.handledEnter = x.handledEnter
      /\ p.workaround = x.workaround
      /\ x.seccomp = "enabled" => p.sysexitPending = entry /\ p.how = w
  <2>1. CASE x.seccomp = "enabled"
    <3>1. w \in Ways /\ entry \in BOOLEAN
      BY DEF Ways
    <3> DEFINE f == [x EXCEPT !.how = w, !.sysexitPending = entry]
    <3>2. p = f
      BY <2>1
    <3> HIDE DEF w, entry, p
    <3>3. Staged(x, f) /\ f.how = w /\ f.status = x.status
      BY <3>1, SetEntered, Zenon
    <3>4. Held(x, f) /\ f.sysexitPending = entry /\ f.skip = x.skip
      BY <3>1, Zenon DEF Held, Tracee
    <3> HIDE DEF f
    <3> QED
      BY <2>1, <3>1, <3>2, <3>3, <3>4 DEF Staged
  <2>2. CASE x.seccomp # "enabled"
    <3>1. p = x
      BY <2>2
    <3> HIDE DEF p
    <3> QED
      BY <2>2, <3>1 DEF Held
  <2> QED
    BY <2>1, <2>2
<1> HIDE DEF p
<1>3. /\ p.status = x.status /\ p.regs = x.regs /\ p.chain = x.chain
      /\ p.original = x.original /\ ChainRight(p)
  BY <1>2 DEF Held, ChainRight
<1>4. /\ q \in Tracee /\ (~After /\ ~x.skip => ~q.skip)
      /\ q.seccomp = p.seccomp \/ (p.seccomp = "enabled" /\ q.seccomp = "disabling")
      /\ p.sysexitPending = q.sysexitPending
      /\ IF x.handledEnter THEN Held(x, q)
         ELSE IF Expects(x)
           THEN /\ EntryLeaves(x, q)
                /\ q.rewrite = x.rewrite /\ q.restoreRewrite = x.restoreRewrite
           ELSE ExitLeaves(p, q)
  <2>1. CASE p.handledEnter
    <3>1. v \in BOOLEAN
      BY <1>2 DEF Tracee
    <3> HIDE DEF v
    <3>2. h \in Tracee /\ h.seccomp = p.seccomp
      BY <1>2, <3>1, SetHandled, Zenon
    <3>3. Untouched(p, h)
      BY <1>2, <3>1, HandledUntouched, Zenon
    <3>4. q = h
      BY <2>1
    <3> HIDE DEF h, q
    <3> QED
      BY <1>2, <2>1, <3>2, <3>3, <3>4 DEF Untouched, Held
  <2>2. CASE ~p.handledEnter /\ entry
    <3>1. Aside(p, t) /\ EntryLeaves(p, t) /\ Continued(p, t)
      BY <1>2, <1>3, <2>2, EntryMore, EntryFacts
    <3>2. t \in Tracee
      BY <3>1 DEF Continued
    <3>3. c \in BOOLEAN /\ (~After => ~c)
      OBVIOUS
    <3>4. q = e
      BY <2>2
    <3> HIDE DEF c, t, q
    <3>5. Staged(t, e)
      BY <3>2, <3>3, SetSkip, Zenon
    <3>6. Held(t, e) /\ e.skip = c /\ e.sysexitPending = t.sysexitPending
      BY <3>2, <3>3, SkipHeld, Zenon
    <3> HIDE DEF e
    <3>7. EntryLeaves(x, e)
      BY <1>2, <3>1, <3>6, EntryLeavesHeld
    <3>8. e.rewrite = x.rewrite /\ e.restoreRewrite = x.restoreRewrite
      BY <1>2, <3>1, <3>6 DEF Held, Aside, Continued
    <3> QED
      BY <1>2, <2>2, <3>1, <3>3, <3>4, <3>5, <3>6, <3>7, <3>8
         DEF Staged, Aside, Continued, Expects
  <2>3. CASE ~p.handledEnter /\ ~entry
    <3>1. t = ExitStage(p)
      BY <1>3, <2>3 DEF translate_syscall
    <3>2. q = t
      BY <2>3
    <3> HIDE DEF t, q
    <3>3. ExitLeaves(p, t) /\ Left(p, t)
      BY <1>2, <1>3, <2>3, <3>1, ExitMore, ExitFacts DEF Expects
    <3> QED
      BY <1>2, <2>3, <3>2, <3>3 DEF Left, ExitLeaves, Expects
  <2> QED
    BY <2>1, <2>2, <2>3
<1> HIDE DEF q
<1>5. /\ Untouched(q, y) /\ y.how \in {q.how, "syscall"}
      /\ y.seccomp = "enabled" => q.seccomp = "enabled" /\ y.how = q.how
  <2>1. Untouched(q, d) /\ d.how = "syscall" /\ d.seccomp = "disabled"
    BY <1>4, DisabledUntouched, SetDisabled
  <2> HIDE DEF d
  <2> QED
    BY <2>1 DEF Untouched, Held
<1> HIDE DEF y
<1>6. ~After /\ ~x.skip => ~y.skip
  BY <1>4, <1>5 DEF Untouched
<1>7. y.seccomp = "enabled" => y.sysexitPending = Expects(x)
  BY <1>2, <1>4, <1>5 DEF Untouched, Expects
<1>8. x.handledEnter => Held(x, y)
  BY <1>4, <1>5 DEF Untouched, Held
<1>9. ~x.handledEnter /\ Expects(x) =>
        /\ EntryLeaves(x, y)
        /\ y.rewrite = x.rewrite /\ y.restoreRewrite = x.restoreRewrite
  <2>1. Held(x, x) /\ Held(q, y)
    BY <1>5 DEF Held, Untouched
  <2> QED
    BY <1>4, <2>1, EntryLeavesHeld DEF Held
<1>10. ~x.handledEnter /\ ~Expects(x) =>
         /\ ExitPaths(x, y)
         /\ y.seccomp = "enabled" /\ y.how = "syscall" => y.chain # None \/ y.restoreRewrite
  <2> SUFFICES ASSUME ~x.handledEnter, ~Expects(x)
               PROVE  /\ ExitPaths(x, y)
                      /\ y.seccomp = "enabled" /\ y.how = "syscall" =>
                           y.chain # None \/ y.restoreRewrite
    OBVIOUS
  <2>1. ExitPaths(p, q) /\ (q.how = p.how \/ q.chain # None \/ q.restoreRewrite)
    BY <1>4 DEF ExitLeaves
  <2>2. ExitPaths(x, y)
    BY <1>2, <1>5, <2>1, ExitPathsHeld DEF Untouched
  <2>3. y.seccomp = "enabled" => p.how = "cont"
    BY <1>2, <1>4, <1>5 DEF Expects
  <2> QED
    BY <1>5, <2>1, <2>2, <2>3 DEF Untouched, Held
<1> QED
  BY <1>1, <1>6, <1>7, <1>8, <1>9, <1>10

LEMMA AssertedUntouched ==
  ASSUME NEW x \in Tracee, NEW v
  PROVE  Untouched(x, [x EXCEPT !.aborted = v])
BY Zenon DEF Untouched, Held, Tracee

LEMMA SeccompStopMore ==
  ASSUME NEW x \in Tracee, x.how \in Ways, x.seccomp \in {"enabled", "disabled"},
         x.seccomp = "disabled" /\ Expects(x) => ~After /\ x.how = "syscall",
         ~After => Expects(x)
  PROVE  LET y == OnSeccompStop(x)
         IN  /\ ~y.skip /\ y.sysexitPending = x.sysexitPending
             /\ y.rewrite = x.rewrite /\ y.restoreRewrite = x.restoreRewrite
             /\ \/ Held(x, y) /\ (Expects(x) => ~After /\ y.how = "syscall")
                \/ Expects(x) /\ EntryLeaves(x, y) /\ (After \/ ~x.restoreRewrite)
<1> DEFINE entry == x.status = "enter"
           u == [x EXCEPT !.skip = FALSE]
           va == u.aborted \/ u.last = "cont"
           vb == u.aborted \/ ~entry
           wa == u.last
           ws == "syscall"
           wc == "cont"
           a == [u EXCEPT !.how = wa, !.aborted = va]
           b == [u EXCEPT !.aborted = vb]
           us == [u EXCEPT !.how = ws]
           ts == translate_syscall(us)
           c1 == [ts EXCEPT !.how = ws]
           c2 == [u EXCEPT !.how = ws, !.aborted = vb]
           uc == [u EXCEPT !.how = wc]
           z == translate_syscall(uc)
           w == IF z.seccomp = "disabling" THEN "syscall" ELSE z.how
           vz == z.aborted \/ ~entry
           h == z.handledEnter \/ (~After /\ w = "syscall")
           d == [z EXCEPT !.how = w, !.aborted = vz, !.handledEnter = h]
           exit == x.nr \in FilterSysexit \/ Necessary(x)
           y == OnSeccompStop(x)
           Goal(r) == /\ ~r.skip /\ r.sysexitPending = x.sysexitPending
                      /\ r.rewrite = x.rewrite /\ r.restoreRewrite = x.restoreRewrite
                      /\ \/ Held(x, r) /\ (Expects(x) => ~After /\ r.how = "syscall")
                         \/ Expects(x) /\ EntryLeaves(x, r) /\ (After \/ ~x.restoreRewrite)
<1>1. y = IF After /\ ~entry THEN a
          ELSE IF u.seccomp # "enabled" THEN b
          ELSE IF exit THEN IF After THEN c1 ELSE c2
          ELSE d
  BY Zenon DEF OnSeccompStop
<1>2. /\ u \in Tracee /\ u.how = x.how /\ u.status = x.status /\ u.seccomp = x.seccomp
      /\ Held(x, u) /\ ~u.skip /\ u.sysexitPending = x.sysexitPending
  <2>1. Staged(x, u) /\ u.how = x.how /\ u.status = x.status
    BY SetSkip
  <2>2. Held(x, u) /\ u.skip = FALSE /\ u.sysexitPending = x.sysexitPending
    BY SkipHeld
  <2> HIDE DEF u
  <2> QED
    BY <2>1, <2>2 DEF Staged
<1>3. ws \in Ways /\ wc \in Ways /\ ws = "syscall" /\ wc = "cont"
  BY DEF Ways
<1> HIDE DEF u, ws, wc
<1>4. ASSUME NEW r, Untouched(u, r), Expects(x) => ~After /\ r.how = "syscall"
      PROVE  Goal(r)
  BY <1>2, <1>4 DEF Untouched, Held
<1>5. Goal(a) \/ ~(After /\ ~entry)
  <2> HIDE DEF wa, va
  <2>1. Untouched(u, a)
    BY <1>2, Zenon DEF Untouched, Held, Tracee
  <2> HIDE DEF a
  <2> QED
    BY <1>4, <2>1 DEF Expects
<1>6. Goal(b) \/ u.seccomp = "enabled"
  <2> HIDE DEF vb
  <2>1. Untouched(u, b)
    BY <1>2, AssertedUntouched
  <2>2. b.how = u.how
    BY <1>2, Zenon DEF Tracee
  <2> HIDE DEF b
  <2>3. u.seccomp # "enabled" => (Expects(x) => ~After /\ b.how = "syscall")
    BY <1>2, <2>2
  <2> QED
    BY <1>4, <2>1, <2>3
<1>7. Goal(c2) \/ After
  <2> HIDE DEF vb
  <2>1. Untouched(u, c2)
    BY <1>2, Zenon DEF Untouched, Held, Tracee
  <2>2. c2.how = ws
    BY <1>2, Zenon DEF Tracee
  <2> HIDE DEF c2
  <2> QED
    BY <1>3, <1>4, <2>1, <2>2
<1>8. ASSUME NEW r, NEW t, NEW v \in Ways, Expects(x), r = [u EXCEPT !.how = v],
             t = translate_syscall(r)
      PROVE  /\ t \in Tracee /\ ~t.skip /\ t.sysexitPending = x.sysexitPending
             /\ t.rewrite = x.rewrite /\ t.restoreRewrite = x.restoreRewrite
             /\ EntryLeaves(x, t)
  <2>1. Staged(u, r) /\ r.how = v /\ r.status = u.status
    BY <1>2, <1>8, SetHow, Zenon
  <2>2. Untouched(u, r)
    BY <1>2, <1>8, HowUntouched
  <2>3. r \in Tracee /\ r.status = "enter" /\ r.how \in Ways
    BY <1>2, <1>8, <2>1 DEF Staged, Expects
  <2>4. Aside(r, t) /\ EntryLeaves(r, t) /\ Continued(r, t)
    BY <1>8, <2>3, EntryMore, EntryFacts
  <2>5. Held(x, r) /\ Held(t, t)
    BY <1>2, <2>2 DEF Untouched, Held
  <2>6. EntryLeaves(x, t)
    BY <2>4, <2>5, EntryLeavesHeld
  <2> QED
    BY <1>2, <2>2, <2>4, <2>5, <2>6 DEF Aside, Continued, Untouched, Held
<1>9. ASSUME NEW t, NEW r, Expects(x), Untouched(t, r),
             ~t.skip /\ t.sysexitPending = x.sysexitPending,
             t.rewrite = x.rewrite /\ t.restoreRewrite = x.restoreRewrite,
             EntryLeaves(x, t), After \/ ~x.restoreRewrite
      PROVE  Goal(r)
  <2>1. Held(x, x)
    BY DEF Held
  <2>2. EntryLeaves(x, r)
    BY <1>9, <2>1, EntryLeavesHeld DEF Untouched
  <2> QED
    BY <1>9, <2>2 DEF Untouched, Held
<1>10. Goal(c1) \/ ~entry \/ ~After
  <2> SUFFICES ASSUME entry, After PROVE Goal(c1)
    OBVIOUS
  <2>1. Expects(x) /\ us = [u EXCEPT !.how = ws]
    BY DEF Expects
  <2> HIDE DEF us
  <2>2. ts = translate_syscall(us)
    OBVIOUS
  <2> HIDE DEF ts
  <2>3. /\ ts \in Tracee /\ ~ts.skip /\ ts.sysexitPending = x.sysexitPending
        /\ ts.rewrite = x.rewrite /\ ts.restoreRewrite = x.restoreRewrite
        /\ EntryLeaves(x, ts)
    BY <1>3, <1>8, <2>1, <2>2
  <2>4. Untouched(ts, c1)
    BY <2>3, HowUntouched
  <2> HIDE DEF c1
  <2> QED
    BY <1>9, <2>1, <2>3, <2>4
<1>11. Goal(d) \/ ~entry \/ exit
  <2> SUFFICES ASSUME entry, ~exit PROVE Goal(d)
    OBVIOUS
  <2>5. ~x.restoreRewrite
    BY DEF Necessary
  <2>1. Expects(x) /\ uc = [u EXCEPT !.how = wc]
    BY DEF Expects
  <2> HIDE DEF uc
  <2>2. z = translate_syscall(uc)
    OBVIOUS
  <2> HIDE DEF z
  <2>3. /\ z \in Tracee /\ ~z.skip /\ z.sysexitPending = x.sysexitPending
        /\ z.rewrite = x.rewrite /\ z.restoreRewrite = x.restoreRewrite
        /\ EntryLeaves(x, z)
    BY <1>3, <1>8, <2>1, <2>2
  <2> HIDE DEF w, vz, h
  <2>4. Untouched(z, d)
    BY <2>3, Zenon DEF Untouched, Held, Tracee
  <2> HIDE DEF d
  <2> QED
    BY <1>9, <2>1, <2>3, <2>4, <2>5
<1> HIDE DEF a, b, c1, c2, d, y
<1>12. Goal(y)
  BY <1>1, <1>5, <1>6, <1>7, <1>10, <1>11 DEF Expects
<1> QED
  BY <1>12 DEF y

(* The stop for SIGSYS: the exit first if the kernel skipped its stop.      *)
SigsysLeaves(x, y) ==
  \E e \in Tracee :
    /\ IF Expects(x) THEN e = x ELSE ExitLeaves(x, e)
    /\ y.sysexitPending = e.sysexitPending /\ ~y.skip
    /\ \/ /\ e.skip \/ (After /\ sigsys = "void")
          /\ Held(e, y) /\ y.how = e.how
       \/ /\ ~(e.skip \/ (After /\ sigsys = "void"))
          /\ y.rewrite = e.regs /\ Remade(e, e.regs, y)

LEMMA SigsysMore ==
  ASSUME NEW x \in Tracee, x.how \in Ways, ChainRight(x), x.chain = None,
         ~Expects(x) => x.regs.pc = "after"
  PROVE  SigsysLeaves(x, OnSigsys(x))
<1> DEFINE e == IF x.status = "enter" THEN x ELSE translate_syscall(x)
           k == [e EXCEPT !.skip = FALSE]
           skips == e.skip \/ (After /\ sigsys = "void")
           h == handle_seccomp_event(e)
           y == IF skips THEN k ELSE h
<1>1. OnSigsys(x) = y
  BY Zenon DEF OnSigsys
<1>2. e \in Tracee /\ IF Expects(x) THEN e = x ELSE ExitLeaves(x, e)
  <2>1. CASE x.status = "enter"
    BY <2>1 DEF Expects
  <2>2. CASE x.status # "enter"
    <3>1. e = ExitStage(x)
      BY <2>2 DEF translate_syscall
    <3> HIDE DEF e
    <3>2. ExitLeaves(x, e) /\ Left(x, e)
      BY <2>2, <3>1, ExitMore, ExitFacts DEF Expects
    <3> QED
      BY <2>2, <3>2 DEF Left, Expects
  <2> QED
    BY <2>1, <2>2
<1> HIDE DEF e
<1>3. CASE skips
  <2>1. Held(e, k) /\ k.skip = FALSE /\ k.sysexitPending = e.sysexitPending
    BY <1>2, SkipHeld
  <2>2. k.how = e.how
    BY <1>2, SetSkip
  <2>3. y = k
    BY <1>3
  <2> HIDE DEF k, y
  <2>4. SigsysLeaves(x, y)
    BY <1>2, <1>3, <2>1, <2>2, <2>3 DEF SigsysLeaves
  <2> QED
    BY <1>1, <2>4
<1>4. CASE ~skips
  <2>1. /\ h.rewrite = e.regs /\ h.sysexitPending = e.sysexitPending /\ h.skip = e.skip
        /\ Remade(e, e.regs, h)
    BY <1>2, HandleMore
  <2>2. y = h
    BY <1>4
  <2> HIDE DEF h, y
  <2>3. SigsysLeaves(x, y)
    BY <1>2, <1>4, <2>1, <2>2 DEF SigsysLeaves
  <2> QED
    BY <1>1, <2>3
<1> QED
  BY <1>3, <1>4

-----------------------------------------------------------------------------
(* What the guest asked for stays while PRoot and the kernel work for it.    *)

Queried == call \in Asking \cup {None} /\ frame \in Frames \cup {None}

Steadfast == Queried' /\ (GivenUp' <=> GivenUp) /\ (Current' = None <=> Current = None)

LEMMA Tuples ==
  ASSUME NEW S, NEW a \in S
  PROVE  /\ <<a>> \in Seq(S)
         /\ \A b, c \in S : <<a, b>> \in Seq(S) /\ <<a, b, c>> \in Seq(S)
         /\ \A b, c, d \in S : <<a, b, c, d>> \in Seq(S)
         /\ \A b, c, d, e \in S : <<a, b, c, d, e>> \in Seq(S)
         /\ \A b, c, d, e, f \in S : <<a, b, c, d, e, f>> \in Seq(S)
         /\ \A b, c, d, e, f, g \in S : <<a, b, c, d, e, f, g>> \in Seq(S)
OBVIOUS

LEMMA EffectTyped ==
  ASSUME NEW num \in Number, NEW a \in [1 .. 6 -> Values]
  PROVE  Effect(num, a) \in Effects
<1> DEFINE S == Number \cup Values \cup {"heap"}
<1>1. /\ a[1] \in S /\ a[2] \in S /\ a[3] \in S /\ a[4] \in S /\ a[5] \in S /\ a[6] \in S
      /\ num \in S
  OBVIOUS
<1>2. /\ Cwd \in S /\ Zero \in S /\ Nofollow \in S /\ Removedir \in S
      /\ Scratch(2) \in S /\ Scratch(3) \in S /\ Scratch(5) \in S
  BY Constants
<1>3. \A n \in Numbers \cup {"heap"} : n \in S
  BY DEF Number
<1> HIDE DEF S
<1>4. Effect(num, a) \in Seq(S)
  BY <1>1, <1>2, <1>3, Tuples, SMTT(60) DEF Effect, Numbers, AllKinds, Legacy
<1> QED
  BY <1>4 DEF Effects, S

(* y is the call x of the guest, or no call if x is none.                   *)
SameCall(x, y) ==
  /\ y \in Asking \cup {None}
  /\ y = None <=> x = None
  /\ x # None => y.refused = x.refused

LEMMA CountedSame ==
  ASSUME NEW c \in Asking \cup {None}, s \in Tracee
  PROVE  SameCall(c, Counted(c))
<1> DEFINE e == Append(c.effects, Effect(s.nr, s.regs.args))
           d == [c EXCEPT !.effects = e]
<1>1. CASE c = None \/ Result # "done" \/ s.nr = "brk"
  BY <1>1 DEF Counted, SameCall
<1>2. CASE ~(c = None \/ Result # "done" \/ s.nr = "brk")
  <2>1. Counted(c) = d /\ c \in Asking
    BY <1>2 DEF Counted
  <2>2. Effect(s.nr, s.regs.args) \in Effects
    <3>1. s.nr \in Number /\ s.regs.args \in [1 .. 6 -> Values]
      BY DEF Tracee, Registers
    <3> QED
      BY <3>1, EffectTyped
  <2>3. e \in Seq(Effects)
    BY <2>1, <2>2 DEF Asking
  <2> HIDE DEF e
  <2>4. d \in Asking /\ d.refused = c.refused
    BY <2>1, <2>3, Zenon DEF Asking
  <2> HIDE DEF d
  <2> QED
    BY <1>2, <2>1, <2>4, SyscallsAssumption DEF SameCall
<1> QED
  BY <1>1, <1>2

LEMMA StopSame ==
  ASSUME NEW c \in Asking \cup {None}
  PROVE  SameCall(c, IF c = None \/ s.nr = "rt_sigreturn" \/ c.stops > MaxStops THEN c
                      ELSE [c EXCEPT !.stops = @ + 1])
<1> DEFINE n == c.stops + 1
           d == [c EXCEPT !.stops = n]
<1>1. CASE c = None \/ s.nr = "rt_sigreturn" \/ c.stops > MaxStops
  BY <1>1 DEF SameCall
<1>2. CASE ~(c = None \/ s.nr = "rt_sigreturn" \/ c.stops > MaxStops)
  <2>1. c \in Asking /\ n \in Nat
    BY <1>2 DEF Asking
  <2>2. [c EXCEPT !.stops = @ + 1] = d
    OBVIOUS
  <2> HIDE DEF n
  <2>3. d \in Asking /\ d.refused = c.refused
    BY <2>1, Zenon DEF Asking
  <2> HIDE DEF d
  <2> QED
    BY <1>2, <2>1, <2>2, <2>3, SyscallsAssumption DEF SameCall
<1> QED
  BY <1>1, <1>2

LEMMA FramesCall ==
  ASSUME NEW f \in Frames, NEW c \in Asking \cup {None}
  PROVE  LET g == [f EXCEPT !.call = c]
         IN  g \in Frames /\ g.call = c /\ g # None
<1> DEFINE g == [f EXCEPT !.call = c]
<1>1. g \in Frames /\ g.call = c
  BY Zenon DEF Frames
<1> HIDE DEF g
<1>2. g # None
  BY <1>1, SyscallsAssumption
<1> QED
  BY <1>1, <1>2 DEF g

LEMMA SameSteadfast ==
  ASSUME Queried,
         IF frame = None THEN SameCall(call, call') /\ frame' = frame
         ELSE \E c : SameCall(frame.call, c) /\ frame' = [frame EXCEPT !.call = c] /\ call' = call
  PROVE  Steadfast
<1>1. CASE frame = None
  BY <1>1 DEF Steadfast, Queried, SameCall, GivenUp, Current
<1>2. CASE frame # None
  <2>1. PICK c : SameCall(frame.call, c) /\ frame' = [frame EXCEPT !.call = c] /\ call' = call
    BY <1>2
  <2>2. frame \in Frames /\ c \in Asking \cup {None}
    BY <1>2, <2>1 DEF Queried, SameCall
  <2>3. frame' \in Frames /\ frame'.call = c /\ frame' # None
    BY <2>1, <2>2, FramesCall
  <2> QED
    BY <1>2, <2>1, <2>3 DEF Queried, Steadfast, SameCall, GivenUp, Current
<1> QED
  BY <1>1, <1>2

LEMMA CountStopSteadfast ==
  ASSUME Queried, CountStop
  PROVE  Steadfast
<1>1. CASE frame = None
  <2>1. SameCall(call, call') /\ frame' = frame
    BY <1>1, StopSame DEF CountStop, Queried
  <2> QED
    BY <1>1, <2>1, SameSteadfast
<1>2. CASE frame # None
  <2> DEFINE a == frame.call
             c == IF a = None \/ s.nr = "rt_sigreturn" \/ a.stops > MaxStops THEN a
                  ELSE [a EXCEPT !.stops = @ + 1]
  <2>1. frame' = [frame EXCEPT !.call = c] /\ call' = call
    BY <1>2 DEF CountStop
  <2>2. SameCall(frame.call, c)
    BY <1>2, StopSame DEF Queried, Frames
  <2> HIDE DEF c
  <2> QED
    BY <1>2, <2>1, <2>2, SameSteadfast
<1> QED
  BY <1>1, <1>2

LEMMA UnchangedSteadfast ==
  ASSUME Queried, UNCHANGED <<call, frame>>
  PROVE  Steadfast
BY DEF Steadfast, Queried, GivenUp, Current

-----------------------------------------------------------------------------
(* The invariant.                                                           *)

(* Kernels that report the exit of every call, and those of them that       *)
(* report an event first and refuse calls.                                  *)
Steady == ~(host.order = "old" /\ host.skipsExit)
Old    == host.order = "old" /\ host.policy /\ ~host.skipsExit

(* Until its entry, and wherever it may be made again, a call has the paths *)
(* of the guest, in the registers and in the copy of the kernel.            *)
AsGuest ==
  /\ Expects(s) /\ at \in InSyscall => FromGuest(s.nr, s.regs.args)
  /\ at \in InSyscall /\ 1 \in Places(IF Expects(s) THEN s.nr ELSE s.original.num) =>
       GivenUp \/ entryA[1] = "guest"
  /\ s.regs.pc = "trap" =>
       /\ FromGuest(s.regs.num, s.regs.args)
       /\ trace = "syscall"
       /\ s.chain = None => s.regs.num \in Targets
  /\ Expects(s) /\ sigsys # None /\ (host.order = "old" \/ sigsys # "void") =>
       FromGuest(s.regs.num, s.regs.args)

(* From then on it has those of the host.                                   *)
AsHost ==
  at = "exec" \/ (~Expects(s) /\ at \in InSyscall) => Ready(s.nr, s.regs.args)

(* The original registers are those of the guest.                           *)
Saved ==
  /\ ~Expects(s) =>
       /\ FromGuest(s.original.num, s.original.args)
       /\ s.status = "error" => GivenUp
       /\ s.chain = None /\ s.status = "ok" /\ s.modified.num = "void" =>
            s.original.num \in Silent
  /\ ~Expects(s) /\ at \in InSyscall /\ s.chain = None =>
       /\ s.nr \in {s.original.num, "void"} \cup Heap
       /\ \/ s.regsChanged
          \/ s.regs.num = s.original.num /\ s.regs.args = s.original.args
  /\ s.chain # None => s.original.num = "brk"

(* A forbidden call that was not rewritten is found as the guest made it.   *)
Refound ==
  ~Expects(s) /\ sigsys \notin {None, "void"} =>
    LET args == [s.original.args EXCEPT ![1] = s.regs.args[1]]
    IN  /\ host.order = "new" /\ s.original.num \in Legacy /\ ~s.restoreRewrite
        /\ FromGuest(s.original.num, args)
        /\ s.regsChanged \/ (s.regs.num = s.original.num /\ s.regs.args = args)

(* A rewritten call is made by the trap instruction, and stopped twice.     *)
Rewriting ==
  /\ Expects(s) /\ s.restoreRewrite /\ at \in {"user", "signals", "signal", "SIGSYS"} =>
       s.regs.pc = "trap"
  /\ Expects(s) /\ s.restoreRewrite /\ s.chain = None /\ at \in InSyscall => s.nr \in Targets
  /\ ~Expects(s) /\ s.restoreRewrite /\ s.chain = None => s.original.num \in Targets
  /\ Expects(s) /\ s.restoreRewrite /\ at \in InSyscall \cup {"exec", "leave", "exit"} =>
       trace = "syscall"

(* On an old kernel only a rewritten call is stopped twice before its       *)
(* event, and then SIGSYS can only be for one that has no number.           *)
Delayed ==
  /\ Expects(s) /\ trace = "syscall"
       /\ at \in {"user", "entry", "filter", "signals", "signal", "SIGSYS"} =>
       s.chain # None \/ s.restoreRewrite
  /\ sigsys # None =>
       /\ s.regs.pc = "after"
       /\ at \in {"leave", "exit"} => Expects(s)
       /\ trace = "syscall" =>
            /\ sigsys = "void" /\ s.restoreRewrite /\ s.rewrite.num \in {"stat", "lstat"}
            /\ IF Expects(s) THEN s.regs.num = "void" ELSE s.original.num = "void"
  /\ s.restoreRewrite /\ s.chain = None /\ s.regs.num = "void"
       /\ (s.regs.pc = "trap" \/ (Expects(s) /\ at \in InSyscall)) =>
       s.rewrite.num \in {"stat", "lstat"}
  /\ Expects(s) /\ ~s.restoreRewrite /\ at # "exit" => ~s.sysexitPending

(* Where the exit is expected the kernel will stop there.                   *)
Awaited ==
  /\ ~Expects(s) \/ at = "exit" => trace = "syscall"
  /\ host.order = "old" => ~s.skip
  /\ host.order = "old" /\ host.skipsExit /\ sigsys # None =>
       Expects(s) /\ at \in {"signals", "SIGSYS"}
  /\ ~host.traced => s.seccomp = "disabled"
  /\ at \in InSyscall \cup {"exec"} /\ s.nr = "rt_sigreturn" => Current = None

Paths ==
  /\ AsGuest /\ AsHost /\ Saved /\ Refound /\ Awaited
  /\ Steady => Rewriting
  /\ Old => Delayed

HInv == Queried /\ (Regular => Paths)

-----------------------------------------------------------------------------
(* The kernel goes on with a call, without a change of the registers.       *)

LEMMA SoFar ==
  ASSUME IInv, HInv, host' = host, mixed => mixed',
         s'.seccomp = "enabled" => s.seccomp = "enabled", Regular'
  PROVE  Control /\ Paths /\ Regular
BY RegularBefore DEF IInv, HInv

LEMMA EntryPaths ==
  ASSUME IInv, HInv, Entry
  PROVE  HInv'
<1>1. /\ at = "entry" /\ at' \in {"enter", "filter"}
      /\ UNCHANGED <<host, s, entryA, trace, sigsys, signals, call, frame, made, mixed>>
  BY DEF Entry
<1>2. Steadfast
  BY <1>1, UnchangedSteadfast DEF HInv
<1>3. ASSUME Regular' PROVE Paths'
  <2>1. Control /\ Paths
    BY <1>1, <1>3, SoFar
  <2>2. AsGuest' /\ AsHost' /\ Saved'
    BY <1>1, <1>2, <2>1
       DEF Paths, AsGuest, AsHost, Saved, Expects, InSyscall, FromGuest, Steadfast
  <2>3. Refound' /\ Awaited'
    BY <1>1, <1>2, <2>1
       DEF Paths, Refound, Awaited, Expects, InSyscall, FromGuest, Steadfast
  <2>4. Steady' => Rewriting'
    BY <1>1, <2>1 DEF Paths, Steady, Rewriting, Expects, InSyscall
  <2>5. Old' => Delayed'
    BY <1>1, <2>1 DEF Paths, Old, Delayed, Expects, InSyscall
  <2> QED
    BY <2>2, <2>3, <2>4, <2>5 DEF Paths
<1> QED
  BY <1>2, <1>3 DEF HInv, Steadfast

LEMMA LeavePaths ==
  ASSUME IInv, HInv, Leave
  PROVE  HInv'
<1>1. /\ at = "leave" /\ at' = IF trace = "syscall" THEN "exit" ELSE "signals"
      /\ UNCHANGED <<host, s, entryA, trace, sigsys, signals, call, frame, made, mixed>>
  BY DEF Leave
<1>2. Steadfast
  BY <1>1, UnchangedSteadfast DEF HInv
<1>3. ASSUME Regular' PROVE Paths'
  <2>1. Control /\ Paths
    BY <1>1, <1>3, SoFar
  <2>2. AsGuest' /\ AsHost' /\ Saved'
    BY <1>1, <1>2, <2>1
       DEF Paths, AsGuest, AsHost, Saved, Expects, InSyscall, FromGuest, Steadfast
  <2>3. Refound' /\ Awaited'
    BY <1>1, <1>2, <2>1
       DEF Paths, Refound, Awaited, Expects, InSyscall, FromGuest, Steadfast
  <2>4. Steady' => Rewriting'
    BY <1>1, <2>1 DEF Paths, Steady, Rewriting, Expects, InSyscall
  <2>5. Old' => Delayed'
    BY <1>1, <2>1 DEF Paths, Old, Delayed, Expects, InSyscall
  <2> QED
    BY <2>2, <2>3, <2>4, <2>5 DEF Paths
<1> QED
  BY <1>2, <1>3 DEF HInv, Steadfast

(* Whether a signal is taken does not matter to the call.                   *)
LEMMA BetweenPaths ==
  ASSUME IInv, HInv,
         \/ at' = at
         \/ /\ at \in {"user", "signals"} /\ at' \in {"user", "signals", "signal", "SIGSYS"}
            /\ at' \in {"user", "signal"} => sigsys = None,
         UNCHANGED <<host, s, entryA, trace, sigsys, call, frame, mixed>>
  PROVE  HInv'
<1>1. Steadfast
  BY UnchangedSteadfast DEF HInv
<1>2. ASSUME Regular' PROVE Paths'
  <2>1. Control /\ Paths
    BY <1>2, SoFar
  <2>2. AsGuest' /\ AsHost' /\ Saved'
    BY <1>1, <2>1
       DEF Paths, AsGuest, AsHost, Saved, Expects, InSyscall, FromGuest, Steadfast
  <2>3. Refound' /\ Awaited'
    <3>1. at = "user" => sigsys = None
      BY DEF IInv, Types
    <3> QED
      BY <1>1, <2>1, <3>1
         DEF Paths, Refound, Awaited, Expects, InSyscall, FromGuest, Steadfast
  <2>4. Steady' => Rewriting'
    BY <2>1 DEF Paths, Steady, Rewriting, Expects, InSyscall
  <2>5. Old' => Delayed'
    BY <2>1 DEF Paths, Old, Delayed, Expects, InSyscall
  <2> QED
    BY <2>2, <2>3, <2>4, <2>5 DEF Paths
<1> QED
  BY <1>1, <1>2 DEF HInv, Steadfast

LEMMA SignalsPaths ==
  ASSUME IInv, HInv, Signals
  PROVE  HInv'
<1>1. /\ at = "signals" /\ at' \in {"user", "signals", "signal", "SIGSYS"}
      /\ at' \in {"user", "signal"} => sigsys = None
      /\ UNCHANGED <<host, s, entryA, trace, sigsys, call, frame, mixed>>
  BY DEF Signals
<1> QED
  BY <1>1, BetweenPaths

LEMMA KillPaths ==
  ASSUME IInv, HInv, Kill
  PROVE  HInv'
<1>1. /\ at' = at \/ (at = "user" /\ at' = "signals")
      /\ UNCHANGED <<host, s, entryA, trace, sigsys, call, frame, mixed>>
  BY DEF Kill
<1> QED
  BY <1>1, BetweenPaths

-----------------------------------------------------------------------------
(* The registers of the thread change.                                      *)

(* Nothing PRoot keeps for later changes.                                   *)
Kept(x, y) ==
  /\ Aside(x, y) /\ y.original = x.original /\ y.modified = x.modified
  /\ y.regsChanged = x.regsChanged

LEMMA SetRegsKept ==
  ASSUME NEW x \in Tracee, NEW b \in Registers
  PROVE  Kept(x, [x EXCEPT !.regs = b])
BY Zenon DEF Kept, Aside, Tracee

LEMMA SetEntryKept ==
  ASSUME NEW x \in Tracee, NEW b \in Registers, NEW n \in Number
  PROVE  LET y == [x EXCEPT !.regs = b, !.nr = n]
         IN  Kept(x, y) /\ y.regs = b
BY Zenon DEF Kept, Aside, Tracee

LEMMA EntersKept ==
  ASSUME Types, NEW regs \in Registers, Enters(regs)
  PROVE  /\ Kept(s, s') /\ entryA' = regs.args[1]
         /\ regs.num # "void" => s'.regs.args = regs.args
<1> DEFINE first == IF regs.num = "void" THEN Value("enosys") ELSE regs.args[1]
           a == [regs.args EXCEPT ![1] = first]
           p == "after"
           b == [regs EXCEPT !.pc = p, !.args = a]
           n == regs.num
           y == [s EXCEPT !.regs = b, !.nr = n]
<1>1. n \in Number /\ regs.args \in [1 .. 6 -> Values] /\ regs.args[1] \in Values
  BY DEF Registers
<1>2. first \in Values
  BY <1>1 DEF Values, Results
<1>3. a \in [1 .. 6 -> Values] /\ (regs.num # "void" => a = regs.args)
  <2>1. regs.num # "void" => first = regs.args[1]
    OBVIOUS
  <2> HIDE DEF first
  <2> QED
    BY <1>1, <1>2, <2>1
<1>4. s' = y /\ entryA' = regs.args[1]
  BY DEF Enters
<1>5. p \in {"after", "trap"} /\ s \in Tracee
  BY DEF Types
<1> HIDE DEF a, p, n
<1>6. b \in Registers /\ b.args = a
  BY <1>3, <1>5, Zenon DEF Registers
<1> HIDE DEF b
<1>7. Kept(s, y) /\ y.regs = b
  BY <1>1, <1>5, <1>6, SetEntryKept
<1> HIDE DEF y
<1> QED
  BY <1>3, <1>4, <1>6, <1>7

(* The guest makes a call of its own, or the one PRoot has it make.         *)
LEMMA EnteredPaths ==
  ASSUME IInv, HInv, NEW regs \in Registers, Enters(regs), at = "user",
         UNCHANGED <<host, trace, sigsys>>, mixed => mixed', Queried',
         Control /\ Paths =>
           /\ GivenUp' \/ Guests(regs.num, regs.args)
           /\ IF s.regs.pc = "trap" THEN regs = s.regs ELSE regs.num # "void"
           /\ regs.num = "rt_sigreturn" => Current' = None
  PROVE  HInv'
<1>1. Types
  BY DEF IInv
<1>2. /\ Moved(s, s')
      /\ s'.regs.pc = "after" /\ s'.regs.num = regs.num /\ s'.nr = regs.num
      /\ at' = "entry"
  BY <1>1, EntersFacts
<1>3. /\ Kept(s, s') /\ entryA' = regs.args[1]
      /\ regs.num # "void" => s'.regs.args = regs.args
  BY <1>1, EntersKept
<1>4. sigsys = None
  BY <1>1 DEF Types
<1>5. ASSUME Regular' PROVE Paths'
  <2>1. Control /\ Paths
    BY <1>2, <1>5, SoFar DEF Moved
  <2>2. Expects(s) /\ Expects(s')
    BY <1>2, <2>1 DEF Control, Paired, Expects, Moved
  <2>3. /\ GivenUp' \/ Guests(regs.num, regs.args)
        /\ IF s.regs.pc = "trap" THEN regs = s.regs ELSE regs.num # "void"
        /\ regs.num = "rt_sigreturn" => Current' = None
    BY <2>1
  <2>4. Places("void") = {}
    BY EmptyPlaces
  <2>5. GivenUp' \/ Guests(regs.num, s'.regs.args)
    BY <1>3, <2>3, <2>4 DEF Guests
  <2>6. 1 \in Places(regs.num) => GivenUp' \/ regs.args[1][1] = "guest"
    BY <2>3 DEF Guests
  <2>7. AsGuest' /\ AsHost'
    BY <1>2, <1>3, <1>4, <2>2, <2>5, <2>6 DEF AsGuest, AsHost, FromGuest, InSyscall
  <2>8. Saved' /\ Refound' /\ Awaited'
    BY <1>2, <1>3, <1>4, <2>1, <2>2, <2>3
       DEF Paths, Saved, Refound, Awaited, Kept, Aside, Moved, InSyscall
  <2>9. Steady' => Rewriting'
    BY <1>2, <1>3, <2>1, <2>2, <2>3 DEF Paths, AsGuest, Steady, Rewriting, Moved, InSyscall
  <2>10. Old' => Delayed'
    BY <1>2, <1>3, <1>4, <2>1, <2>2, <2>3
       DEF Paths, Old, Delayed, Kept, Aside, Moved, InSyscall
  <2> QED
    BY <2>7, <2>8, <2>9, <2>10 DEF Paths
<1> QED
  BY <1>5 DEF HInv

LEMMA AskedTyped ==
  ASSUME NEW kind \in AllKinds, NEW refused \in Refusals(kind)
  PROVE  Asked(kind, refused) \in Asking
<1>1. refused \in BOOLEAN
  BY DEF Refusals
<1> QED
  BY <1>1 DEF Asked, Asking

(* The guest asks with its own paths.                                       *)
LEMMA FreshGuests ==
  ASSUME NEW num, NEW p, NEW n \in Number, p \in {"top", "handler", "scratch"}
  PROVE  LET regs == [NoCall(p) EXCEPT !.num = n]
         IN  regs \in Registers /\ regs.num = n /\ Guests(num, regs.args)
<1> DEFINE b == NoCall(p)
           regs == [b EXCEPT !.num = n]
<1>1. b \in Registers /\ b.args = GuestArgs
  BY NoCallFacts DEF NoCall
<1> HIDE DEF b
<1>2. regs \in Registers /\ regs.num = n /\ regs.args = GuestArgs
  BY <1>1, NumFields
<1> HIDE DEF regs
<1>3. Guests(num, regs.args)
  BY <1>2 DEF Guests, Places, GuestArgs, Guest
<1> QED
  BY <1>2, <1>3 DEF regs, b

LEMMA CallPaths ==
  ASSUME IInv, HInv, NEW kind \in Kinds \cup LaterKinds, Call(kind)
  PROVE  HInv'
<1> DEFINE regs == [NoCall(s.regs.sp) EXCEPT !.num = kind]
<1>1. kind \in AllKinds /\ kind \in Number /\ kind # "void" /\ kind # "rt_sigreturn"
  BY SyscallsAssumption DEF Number, Numbers, AllKinds, Legacy
<1>2. s.regs.sp \in {"top", "handler", "scratch"}
  BY DEF IInv, Types, Tracee, Registers
<1>3. regs \in Registers /\ regs.num = kind /\ Guests(kind, regs.args)
  BY <1>1, <1>2, FreshGuests
<1>4. Enters(regs)
  BY DEF Call
<1> HIDE DEF regs
<1>5. at = "user" /\ s.regs.pc = "after" /\ UNCHANGED <<host, trace, sigsys, mixed, frame>>
  BY DEF Call, InUser
<1>6. call' \in Asking
  BY <1>1, AskedTyped DEF Call
<1>7. Queried'
  BY <1>5, <1>6 DEF HInv, Queried
<1> QED
  BY <1>1, <1>3, <1>4, <1>5, <1>7, EnteredPaths

LEMMA HandlerCallPaths ==
  ASSUME IInv, HInv, NEW kind \in HandlerKinds, HandlerCall(kind)
  PROVE  HInv'
<1> DEFINE regs == [NoCall(s.regs.sp) EXCEPT !.num = kind]
<1>1. kind \in AllKinds /\ kind \in Number /\ kind # "void" /\ kind # "rt_sigreturn"
  BY SyscallsAssumption DEF Number, Numbers, AllKinds, Legacy
<1>2. s.regs.sp \in {"top", "handler", "scratch"}
  BY DEF IInv, Types, Tracee, Registers
<1>3. regs \in Registers /\ regs.num = kind /\ Guests(kind, regs.args)
  BY <1>1, <1>2, FreshGuests
<1>4. Enters(regs)
  BY DEF HandlerCall
<1> HIDE DEF regs
<1>5. at = "user" /\ s.regs.pc = "after" /\ UNCHANGED <<host, trace, sigsys, mixed, call>>
  BY DEF HandlerCall, InUser
<1>6. frame' \in Frames
  <2>1. PICK refused \in Refusals(kind) :
          frame' = [frame EXCEPT !.call = Asked(kind, refused), !.called = TRUE]
    BY DEF HandlerCall
  <2> DEFINE c == Asked(kind, refused)
             g == [frame EXCEPT !.call = c, !.called = TRUE]
  <2>2. frame \in Frames /\ c \in Asking \cup {None}
    BY <1>1, AskedTyped DEF HandlerCall, HInv, Queried
  <2>3. frame' = g
    BY <2>1
  <2> HIDE DEF c
  <2>4. g \in Frames
    BY <2>2, Zenon DEF Frames
  <2> QED
    BY <2>3, <2>4
<1>7. Queried'
  BY <1>5, <1>6 DEF HInv, Queried
<1> QED
  BY <1>1, <1>3, <1>4, <1>5, <1>7, EnteredPaths

LEMMA SigreturnPaths ==
  ASSUME IInv, HInv, Sigreturn
  PROVE  HInv'
<1> DEFINE b == s.regs
           n == "rt_sigreturn"
           regs == [b EXCEPT !.num = n]
<1>1. b \in Registers /\ n \in Number /\ n = "rt_sigreturn"
  BY DEF IInv, Types, Tracee, Number, Numbers
<1>2. Enters(regs)
  BY DEF Sigreturn
<1> HIDE DEF b, n
<1>3. regs \in Registers /\ regs.num = n
  BY <1>1, NumFields
<1> HIDE DEF regs
<1>4. /\ at = "user" /\ s.regs.pc = "after"
      /\ UNCHANGED <<host, trace, sigsys, call, frame>>
      /\ mixed => mixed'
  BY DEF Sigreturn, InUser
<1>5. Queried' /\ Current' = None
  BY DEF Sigreturn, HInv, Queried, Current
<1>6. Guests(regs.num, regs.args)
  BY <1>1, <1>3, EmptyPlaces DEF Guests
<1> QED
  BY <1>1, <1>2, <1>3, <1>4, <1>5, <1>6, EnteredPaths

LEMMA RetrapPaths ==
  ASSUME IInv, HInv, Retrap
  PROVE  HInv'
<1>1. s.regs \in Registers /\ Enters(s.regs) /\ at = "user" /\ s.regs.pc = "trap"
  BY DEF Retrap, IInv, Types, Tracee
<1>2. UNCHANGED <<host, trace, sigsys, mixed, call, frame>>
  BY DEF Retrap
<1>3. Steadfast
  BY <1>2, UnchangedSteadfast DEF HInv
<1>4. ASSUME Control, Paths
      PROVE  /\ GivenUp' \/ Guests(s.regs.num, s.regs.args)
             /\ s.regs.num # "rt_sigreturn"
  <2>1. FromGuest(s.regs.num, s.regs.args) /\ (s.chain = None => s.regs.num \in Targets)
    BY <1>1, <1>4 DEF Paths, AsGuest
  <2>2. s.chain # None => s.regs.num \in Heap
    BY <1>1, <1>4 DEF Control, ChainSafe
  <2>3. s.regs.num # "rt_sigreturn"
    BY <2>1, <2>2 DEF Targets, Heap
  <2> QED
    BY <1>3, <2>1, <2>3 DEF FromGuest, Steadfast
<1> QED
  BY <1>1, <1>2, <1>3, <1>4, EnteredPaths DEF Steadfast

LEMMA ReturnPaths ==
  ASSUME IInv, HInv, Return
  PROVE  HInv'
<1>1. /\ at = "user" /\ s.regs.pc = "after"
      /\ UNCHANGED <<host, s, at, entryA, trace, sigsys, signals, made, mixed>>
  BY DEF Return, InUser
<1>2. Queried'
  <2>1. CASE frame = None
    BY <2>1 DEF Return, HInv, Queried
  <2>2. CASE frame # None
    BY <2>2, FramesCall DEF Return, HInv, Queried
  <2> QED
    BY <2>1, <2>2
<1>3. sigsys = None
  BY <1>1 DEF IInv, Types
<1>4. ASSUME Regular' PROVE Paths'
  <2>1. Control /\ Paths
    BY <1>1, <1>4, SoFar
  <2>2. Expects(s)
    BY <1>1, <2>1 DEF Control, Paired
  <2>3. AsGuest' /\ AsHost' /\ Saved' /\ Refound' /\ Awaited'
    BY <1>1, <1>3, <2>1, <2>2
       DEF Paths, AsGuest, AsHost, Saved, Refound, Awaited, Expects, InSyscall
  <2>4. Steady' => Rewriting'
    BY <1>1, <2>1 DEF Paths, Steady, Rewriting, Expects, InSyscall
  <2>5. Old' => Delayed'
    BY <1>1, <2>1 DEF Paths, Old, Delayed, Expects, InSyscall
  <2> QED
    BY <2>3, <2>4, <2>5 DEF Paths
<1> QED
  BY <1>2, <1>4 DEF HInv

-----------------------------------------------------------------------------
(* The policy and the filter of PRoot; the call is run.                     *)

(* The kernel lets the call go on.                                          *)
LEMMA PassedPaths ==
  ASSUME IInv, HInv, Filter, ~Trapped(s.nr)
  PROVE  HInv'
<1>1. /\ at = "filter"
      /\ at' = IF host.traced /\ s.nr \in Filtered THEN "seccomp" ELSE AfterFilter
      /\ UNCHANGED <<host, s, entryA, trace, sigsys, call, frame, mixed>>
  BY DEF Filter
<1>2. Steadfast
  BY <1>1, UnchangedSteadfast DEF HInv
<1>3. sigsys = None /\ host.order \in {"old", "new"}
  BY <1>1 DEF IInv, Types, AllHosts
<1>4. /\ at' \in {"seccomp", "enter", "exec"}
      /\ at' = "exec" => /\ ~host.traced \/ s.nr \notin Filtered
                         /\ host.order # "old" \/ trace # "syscall"
  BY <1>1 DEF AfterFilter
<1>5. ASSUME Regular' PROVE Paths'
  <2>1. Control /\ Paths
    BY <1>1, <1>5, SoFar
  <2>2. at' = "exec" => Ready(s.nr, s.regs.args)
    <3>1. SUFFICES ASSUME at' = "exec" PROVE Ready(s.nr, s.regs.args)
      OBVIOUS
    <3>2. CASE s.nr \notin Filtered
      BY <3>2, PathsFiltered DEF Ready, Hosted
    <3>3. CASE ~host.traced
      <4>1. trace = "syscall" /\ host.order = "new"
        BY <1>3, <1>4, <2>1, <3>1, <3>3 DEF Paths, Awaited, Control
      <4>2. ~Expects(s)
        BY <1>1, <2>1, <4>1 DEF Control, Paired
      <4> QED
        BY <1>1, <2>1, <4>2 DEF Paths, AsHost, InSyscall
    <3> QED
      BY <1>4, <3>1, <3>2, <3>3
  <2>3. AsGuest' /\ AsHost' /\ Saved'
    BY <1>1, <1>2, <1>3, <1>4, <2>1, <2>2
       DEF Paths, AsGuest, AsHost, Saved, Expects, InSyscall, FromGuest, Steadfast
  <2>4. Refound' /\ Awaited'
    BY <1>1, <1>2, <1>3, <1>4, <2>1
       DEF Paths, Refound, Awaited, Expects, InSyscall, FromGuest, Steadfast
  <2>5. Steady' => Rewriting'
    BY <1>1, <1>4, <2>1 DEF Paths, Steady, Rewriting, Expects, InSyscall
  <2>6. Old' => Delayed'
    BY <1>1, <1>3, <1>4, <2>1 DEF Paths, Old, Delayed, Expects, InSyscall
  <2> QED
    BY <2>3, <2>4, <2>5, <2>6 DEF Paths
<1> QED
  BY <1>2, <1>5 DEF HInv, Steadfast

(* The policy forbids it: the kernel puts its copy of the first argument    *)
(* where the result would be.                                               *)
LEMMA TrappedMoves ==
  ASSUME Types, Filter, Trapped(s.nr)
  PROVE  /\ Moved(s, s') /\ Kept(s, s') /\ s'.nr = s.nr
         /\ s'.regs.num = s.regs.num /\ s'.regs.pc = s.regs.pc
         /\ s'.regs.args = [s.regs.args EXCEPT ![1] = entryA]
<1> DEFINE r == s.regs
           b == [r EXCEPT !.args[1] = entryA]
<1>1. s \in Tracee /\ r \in Registers /\ entryA \in Values
  BY DEF Types, Tracee
<1>2. b \in Registers /\ b.num = r.num /\ b.pc = r.pc /\ b.args = [r.args EXCEPT ![1] = entryA]
  BY <1>1, ArgFields, 1 \in 1 .. 6
<1>3. s' = [s EXCEPT !.regs = b]
  BY DEF Filter
<1> HIDE DEF b
<1>4. Moved(s, s') /\ s'.regs = b /\ s'.nr = s.nr /\ Kept(s, s')
  BY <1>1, <1>2, <1>3, SetRegs, SetRegsKept
<1> QED
  BY <1>2, <1>4

LEMMA TrappedPaths ==
  ASSUME IInv, HInv, Filter, Trapped(s.nr)
  PROVE  HInv'
<1> DEFINE a == [s.regs.args EXCEPT ![1] = entryA]
<1>1. /\ at = "filter" /\ sigsys' = s.nr
      /\ at' = IF host.skipsExit THEN "signals" ELSE "leave"
      /\ UNCHANGED <<host, entryA, trace, call, frame, mixed>>
  BY DEF Filter
<1>2. Steadfast
  BY <1>1, UnchangedSteadfast DEF HInv
<1>3. /\ s \in Tracee /\ s.regs \in Registers /\ entryA \in Values
      /\ s.regs.args \in [1 .. 6 -> Values] /\ host.order \in {"old", "new"}
      /\ sigsys = None
  BY <1>1 DEF IInv, Types, Tracee, Registers, AllHosts
<1>4. /\ Moved(s, s') /\ Kept(s, s') /\ s'.nr = s.nr
      /\ s'.regs.num = s.regs.num /\ s'.regs.pc = s.regs.pc /\ s'.regs.args = a
  BY TrappedMoves DEF IInv
<1>5. host.policy /\ s.nr \in Legacy \cup {"void"}
  BY DEF Trapped
<1>6. /\ s.nr # None /\ s.nr # "brk" /\ s.nr \notin Heap
      /\ s.nr \in Targets => s.nr = "void"
      /\ s.nr = "void" => s.nr \notin Legacy
  BY <1>5, SyscallsAssumption DEF Legacy, Heap, Numbers, AllKinds, Targets
<1>7. a[1] = entryA /\ \A i \in 2 .. 6 : a[i] = s.regs.args[i]
  BY <1>3
<1>8. ASSUME Regular' PROVE Paths'
  <2>1. Control /\ Paths
    BY <1>1, <1>4, <1>8, SoFar DEF Moved
  <2>2. s.chain = None /\ s.regs.pc = "after"
    BY <1>1, <1>3, <1>5, <1>6, <2>1
       DEF Control, ChainSafe, Retrapped, InSyscall, Registers
  <2>3. Expects(s') <=> Expects(s)
    BY <1>4 DEF Expects, Moved
  <2>4. Expects(s) => s.regs.num = s.nr
    BY <1>1, <2>1 DEF Control, Numbered, InSyscall
  <2>5. /\ host.order = "old" => Expects(s)
        /\ host.order = "new" => (Expects(s) <=> trace = "cont")
    BY <1>1, <2>1 DEF Control, Paired
  <2>6. ASSUME Expects(s) PROVE FromGuest(s.regs.num, a)
    <3>1. FromGuest(s.regs.num, s.regs.args)
      BY <1>1, <2>1, <2>4, <2>6 DEF Paths, AsGuest, InSyscall
    <3>2. 1 \in Places(s.regs.num) => GivenUp \/ entryA[1] = "guest"
      BY <1>1, <2>1, <2>4, <2>6 DEF Paths, AsGuest, InSyscall
    <3>3. \A i \in Places(s.regs.num) : i = 1 \/ i \in 2 .. 6
      BY DEF Places
    <3> HIDE DEF a
    <3> QED
      BY <1>7, <3>1, <3>2, <3>3 DEF FromGuest, Guests
  <2>7. AsGuest' /\ AsHost'
    <3> HIDE DEF a
    <3>1. FromGuest(s.regs.num, a)' <=> FromGuest(s.regs.num, a)'
      OBVIOUS
    <3> QED
      BY <1>1, <1>2, <1>4, <2>2, <2>3, <2>6
         DEF AsGuest, AsHost, FromGuest, InSyscall, Steadfast
  <2>8. ASSUME ~Expects(s), s.nr # "void"
        PROVE  LET args == [s.original.args EXCEPT ![1] = s'.regs.args[1]]
               IN  /\ host.order = "new" /\ s.original.num \in Legacy /\ ~s.restoreRewrite
                   /\ FromGuest(s.original.num, args)
                   /\ s.regsChanged \/ (s.regs.num = s.original.num /\ s'.regs.args = args)
    <3> DEFINE args == [s.original.args EXCEPT ![1] = s'.regs.args[1]]
    <3>1. host.order = "new"
      BY <1>3, <2>5, <2>8
    <3>2. /\ s.nr \in {s.original.num, "void"} \cup Heap
          /\ \/ s.regsChanged
             \/ s.regs.num = s.original.num /\ s.regs.args = s.original.args
      BY <1>1, <2>1, <2>2, <2>8 DEF Paths, Saved, InSyscall
    <3>3. s.nr = s.original.num /\ s.original.num \in Legacy
      BY <1>5, <1>6, <2>8, <3>2
    <3>4. ~s.restoreRewrite
      BY <1>6, <2>1, <2>2, <2>8, <3>1, <3>3 DEF Paths, Steady, Rewriting
    <3>5. s'.regs.args[1] = entryA
      BY <1>4, <1>7
    <3>6. s.original.args \in [1 .. 6 -> Values]
      BY <1>3 DEF Tracee, Registers
    <3>7. args[1] = entryA /\ \A i \in 2 .. 6 : args[i] = s.original.args[i]
      BY <3>5, <3>6
    <3>8. FromGuest(s.original.num, args)
      <4>1. FromGuest(s.original.num, s.original.args)
        BY <2>1, <2>8 DEF Paths, Saved
      <4>2. 1 \in Places(s.original.num) => GivenUp \/ entryA[1] = "guest"
        BY <1>1, <2>1, <2>8 DEF Paths, AsGuest, InSyscall
      <4>3. \A i \in Places(s.original.num) : i = 1 \/ i \in 2 .. 6
        BY DEF Places
      <4> HIDE DEF args
      <4> QED
        BY <3>7, <4>1, <4>2, <4>3 DEF FromGuest, Guests
    <3>9. s.regsChanged \/ (s.regs.num = s.original.num /\ s'.regs.args = args)
      BY <1>4, <3>2, <3>5
    <3> HIDE DEF args
    <3>10. /\ host.order = "new" /\ s.original.num \in Legacy /\ ~s.restoreRewrite
           /\ FromGuest(s.original.num, args)
           /\ s.regsChanged \/ (s.regs.num = s.original.num /\ s'.regs.args = args)
      BY <3>1, <3>3, <3>4, <3>8, <3>9
    <3> QED
      BY <3>10 DEF args
  <2>9. Refound'
    BY <1>1, <1>2, <1>4, <2>3, <2>8
       DEF Refound, Kept, Moved, FromGuest, Steadfast
  <2>10. Saved'
    BY <1>1, <1>2, <1>4, <2>1, <2>2, <2>3
       DEF Paths, Saved, Kept, Moved, FromGuest, InSyscall, Steadfast
  <2>11. Awaited'
    BY <1>1, <1>4, <2>1, <2>3, <2>5
       DEF Paths, Awaited, Kept, Aside, Moved, InSyscall
  <2>12. Steady' => Rewriting'
    BY <1>1, <1>3, <1>4, <2>1, <2>2, <2>3, <2>5
       DEF Paths, Steady, Rewriting, Kept, Moved, InSyscall
  <2>13. Old' => Delayed'
    <3>1. SUFFICES ASSUME Old PROVE Delayed'
      BY <1>1 DEF Old
    <3>2. Expects(s) /\ at' = "leave" /\ Steady
      BY <1>1, <2>5, <3>1 DEF Old, Steady
    <3>3. ASSUME trace = "syscall"
          PROVE  /\ s.nr = "void" /\ s.regs.num = "void" /\ s.restoreRewrite
                 /\ s.rewrite.num \in {"stat", "lstat"}
      <4>1. s.restoreRewrite
        BY <1>1, <2>1, <2>2, <3>1, <3>2, <3>3 DEF Paths, Delayed
      <4>2. s.nr \in Targets
        BY <1>1, <2>1, <2>2, <3>2, <4>1 DEF Paths, Rewriting, InSyscall
      <4>3. s.nr = "void" /\ s.regs.num = "void"
        BY <1>6, <2>4, <3>2, <4>2
      <4> QED
        BY <1>1, <2>1, <2>2, <3>1, <3>2, <4>1, <4>3 DEF Paths, Delayed, InSyscall
    <3> QED
      BY <1>1, <1>4, <2>1, <2>2, <2>3, <3>1, <3>2, <3>3
         DEF Paths, Delayed, Kept, Aside, Moved, InSyscall
  <2> QED
    BY <2>7, <2>9, <2>10, <2>11, <2>12, <2>13 DEF Paths
<1> QED
  BY <1>2, <1>8 DEF HInv, Steadfast

(* The kernel runs the call.  After the return from a handler the call is    *)
(* another one, but then none was in progress.                              *)
LEMMA ExecQueried ==
  ASSUME IInv, HInv, Exec
  PROVE  /\ Kept(s, s')
         /\ Queried'
         /\ (s.nr = "rt_sigreturn" => Current = None) => (GivenUp => GivenUp')
<1>1. s \in Tracee /\ s.regs \in Registers /\ Queried
  BY DEF IInv, Types, Tracee, HInv
<1>2. CASE s.nr = "void"
  <2>1. UNCHANGED <<s, call, frame>>
    BY <1>2 DEF Exec
  <2>2. Steadfast
    BY <1>1, <2>1, UnchangedSteadfast
  <2> QED
    BY <2>1, <2>2 DEF Kept, Aside, Steadfast
<1>3. CASE s.nr # "void" /\ s.nr = "rt_sigreturn"
  <2> DEFINE b == frame.regs
  <2>1. frame # None /\ s' = [s EXCEPT !.regs = b] /\ frame' = None /\ call' = call
    BY <1>3 DEF Exec
  <2>2. b \in Registers
    BY <2>1 DEF IInv, Types
  <2> HIDE DEF b
  <2>3. Kept(s, s')
    BY <1>1, <2>1, <2>2, SetRegsKept
  <2> QED
    BY <1>1, <1>3, <2>1, <2>3 DEF Queried, GivenUp
<1>4. CASE s.nr # "void" /\ s.nr # "rt_sigreturn"
  <2> DEFINE v == Value(Result)
             r == s.regs
             b == [r EXCEPT !.args[1] = v]
  <2>1. s' = [s EXCEPT !.regs = b]
    BY <1>4 DEF Exec
  <2>2. v \in Values /\ 1 \in 1 .. 6 /\ r \in Registers
    <3>1. Result \in Results
      BY DEF Result, Results
    <3> QED
      BY <1>1, <3>1 DEF Values
  <2> HIDE DEF v, r
  <2>3. b \in Registers
    BY <2>2, SetArg
  <2> HIDE DEF b
  <2>4. Kept(s, s')
    BY <1>1, <2>1, <2>3, SetRegsKept
  <2>5. Steadfast
    <3>1. CASE frame = None
      <4>1. call' = Counted(call) /\ frame' = frame
        BY <1>4, <3>1 DEF Exec
      <4>2. SameCall(call, Counted(call))
        BY <1>1, CountedSame DEF Queried
      <4> QED
        BY <1>1, <3>1, <4>1, <4>2, SameSteadfast
    <3>2. CASE frame # None
      <4> DEFINE c == Counted(frame.call)
      <4>1. frame' = [frame EXCEPT !.call = c] /\ call' = call
        BY <1>4, <3>2 DEF Exec
      <4>2. SameCall(frame.call, c)
        BY <1>1, <3>2, CountedSame DEF Queried, Frames
      <4> HIDE DEF c
      <4> QED
        BY <1>1, <3>2, <4>1, <4>2, SameSteadfast
    <3> QED
      BY <3>1, <3>2
  <2> QED
    BY <2>4, <2>5 DEF Steadfast
<1> QED
  BY <1>2, <1>3, <1>4

LEMMA ExecPaths ==
  ASSUME IInv, HInv, Exec
  PROVE  HInv'
<1>1. /\ at = "exec" /\ at' = "leave"
      /\ UNCHANGED <<host, entryA, trace, sigsys, mixed>>
  BY DEF Exec
<1>2. Moved(s, s') /\ IInv'
  BY ExecMoves, ExecKept DEF IInv
<1>3. /\ Kept(s, s') /\ Queried'
      /\ (s.nr = "rt_sigreturn" => Current = None) => (GivenUp => GivenUp')
  BY ExecQueried
<1>4. sigsys = None
  BY <1>1 DEF IInv, Types
<1>5. ASSUME Regular' PROVE Paths'
  <2>1. Control /\ Paths
    BY <1>1, <1>2, <1>5, SoFar DEF Moved
  <2>2. s'.regs.pc # "trap"
    BY <1>1, <1>2, <1>5 DEF IInv, Control, Retrapped
  <2>3. GivenUp => GivenUp'
    BY <1>1, <1>3, <2>1 DEF Paths, Awaited
  <2>4. AsGuest' /\ AsHost' /\ Refound'
    BY <1>1, <1>4, <2>2 DEF AsGuest, AsHost, Refound, InSyscall
  <2>5. Saved'
    BY <1>1, <1>2, <1>3, <2>1, <2>3
       DEF Paths, Saved, Kept, Moved, FromGuest, Expects, InSyscall
  <2>6. Awaited'
    BY <1>1, <1>2, <1>3, <1>4, <2>1
       DEF Paths, Awaited, Kept, Aside, Moved, Expects, InSyscall
  <2>7. Steady' => Rewriting'
    BY <1>1, <1>2, <1>3, <2>1 DEF Paths, Steady, Rewriting, Kept, Moved, Expects, InSyscall
  <2>8. Old' => Delayed'
    BY <1>1, <1>2, <1>3, <1>4, <2>1, <2>2
       DEF Paths, Old, Delayed, Kept, Aside, Moved, Expects, InSyscall
  <2> QED
    BY <2>4, <2>5, <2>6, <2>7, <2>8 DEF Paths
<1> QED
  BY <1>3, <1>5 DEF HInv

-----------------------------------------------------------------------------
(* A stop at the entry or at the exit of a call.                            *)

LEMMA UntouchedSame ==
  ASSUME NEW x
  PROVE  Held(x, x) /\ Untouched(x, x)
BY DEF Untouched, Held

LEMMA SyscallStopUntouched ==
  ASSUME Types, SyscallStop
  PROVE  Untouched(OnSyscallStop(Begin(s)), s')
<1> DEFINE b == Begin(s)
           x == OnSyscallStop(b)
           v == x.suppressed /\ ~Redelivers(x)
           y == [x EXCEPT !.suppressed = v]
<1>1. s' = Restarted(y)
  BY DEF SyscallStop, Restart
<1>2. b \in Tracee /\ b.how \in Ways
  BY BeginFacts DEF Types, Staged
<1> HIDE DEF b
<1>3. x \in Tracee
  BY <1>2, SyscallStopFacts
<1>4. x = OnSyscallStop(Begin(s))
  BY DEF b
<1> HIDE DEF x
<1>5. v \in BOOLEAN
  BY <1>3 DEF Tracee
<1> HIDE DEF v
<1>6. y \in Tracee
  BY <1>3, <1>5, SetSuppressed, Zenon
<1>7. Untouched(x, y)
  BY <1>3, SuppressedUntouched, Zenon
<1> HIDE DEF y
<1>8. Untouched(y, s')
  BY <1>1, <1>6, RestartedUntouched
<1> QED
  BY <1>4, <1>7, <1>8, UntouchedTransitive

(* How the stage of the thread goes on at such a stop.                      *)
LEMMA SyscallStopStages ==
  ASSUME IInv, SyscallStop, Control, Saved
  PROVE  \E x \in Tracee :
           /\ Held(x, s') /\ s' \in Tracee /\ trace' = x.how
           /\ s'.seccomp = "enabled" => s.seccomp = "enabled"
           /\ ~After /\ ~s.skip => ~s'.skip
           /\ s'.seccomp = "enabled" => s'.sysexitPending = Expects(s)
           /\ s'.seccomp \in {"enabled", "disabled"}
           /\ s'.status \in {"enter", "ok", "error"}
           /\ IF s.handledEnter \/ Expects(s)
                THEN ~Expects(s') /\ trace' = "syscall" /\ s'.regs.pc = "after"
                ELSE Expects(s') /\ (s.chain = None => s'.chain = None)
           /\ s.handledEnter => Held(s, s')
           /\ Expects(s) /\ ~s.handledEnter =>
                /\ EntryLeaves(s, s')
                /\ s'.rewrite = s.rewrite /\ s'.restoreRewrite = s.restoreRewrite
           /\ ~Expects(s) /\ ~s.handledEnter =>
                /\ ExitPaths(s, x)
                /\ s'.seccomp = "enabled" /\ trace' = "syscall" =>
                     s'.chain # None \/ s'.restoreRewrite
<1> DEFINE b == Begin(s)
<1>1. Types /\ Accounted /\ s \in Tracee /\ at \in {"enter", "exit"}
  BY DEF IInv, Types, SyscallStop
<1>2. PICK x \in Tracee :
        /\ x = OnSyscallStop(b)
        /\ x.how \in Ways
        /\ s' \in Tracee /\ s'.status = x.status
        /\ s'.how = None /\ s'.last = x.how /\ trace' = x.how
        /\ s'.seccomp = x.seccomp /\ s'.handledEnter = x.handledEnter
        /\ s'.chain = x.chain /\ s'.workaround = x.workaround
        /\ s'.aborted = x.aborted
        /\ s'.restoreRewrite = x.restoreRewrite /\ s'.regs = x.regs /\ s'.nr = x.nr
        /\ s'.seccomp = "enabled" => s.seccomp = "enabled"
        /\ s'.suppressed => s'.chain # None
        /\ signals' \in [toCome : Nat, pending : Nat, delivered : Nat, overwritten : Nat]
        /\ Accounted'
  BY <1>1, SyscallStopMoves
<1>3. Untouched(x, s')
  BY <1>1, <1>2, SyscallStopUntouched
<1>4. /\ Staged(s, b) /\ b.status = s.status /\ b.how \in Ways
      /\ (s.seccomp # "enabled" \/ Chaining(s)) => b.how = "syscall"
      /\ Untouched(s, b)
  BY <1>1, BeginFacts, BeginUntouched
<1> HIDE DEF b
<1>5. s.regs.pc = "after"
  BY <1>1 DEF Control, Retrapped, Tracee, Registers
<1>6. s.handledEnter => at = "enter" /\ host.order = "old" /\ ~Expects(s)
  BY DEF Control, Paired
<1>7. InOrder(b) /\ b \in Tracee
  BY <1>4, <1>5, <1>6 DEF Control, ChainSafe, ChainRight, InOrder, Staged, Expects, After
<1>8. /\ ~x.aborted /\ ~x.handledEnter /\ ChainRight(x)
      /\ x.seccomp \in {"enabled", "disabled"}
      /\ x.seccomp = "disabled" => x.how = "syscall"
      /\ IF b.status = "enter" \/ b.handledEnter THEN EntryDone(b, x) ELSE ExitDone(b, x)
  <2>1. b.regs.pc = "after"
    BY <1>4, <1>5 DEF Staged
  <2> QED
    BY <1>2, <1>4, <1>7, <2>1, SyscallStopFacts
<1>9. /\ ~After /\ ~b.skip => ~x.skip
      /\ x.seccomp = "enabled" => x.sysexitPending = Expects(b)
      /\ IF b.handledEnter THEN Held(b, x)
         ELSE IF Expects(b)
           THEN /\ EntryLeaves(b, x)
                /\ x.rewrite = b.rewrite /\ x.restoreRewrite = b.restoreRewrite
           ELSE /\ ExitPaths(b, x)
                /\ x.seccomp = "enabled" /\ x.how = "syscall" =>
                     x.chain # None \/ x.restoreRewrite
  <2>1. b.seccomp \in {"enabled", "disabled"} /\ ChainRight(b)
    BY <1>7 DEF InOrder
  <2>2. ~Expects(b) => b.regs.pc = "after"
    BY <1>7 DEF InOrder, Expects
  <2>3. ~Expects(b) /\ b.chain # None => b.original.num = "brk"
    BY <1>4 DEF Saved, Untouched, Held
  <2> QED
    BY <1>2, <1>4, <1>7, <2>1, <2>2, <2>3, SyscallStopMore
<1>10. Held(x, s') /\ Held(s, b) /\ Held(x, x)
  BY <1>3, <1>4, UntouchedSame DEF Untouched
<1>11. s.handledEnter => Held(s, s')
  BY <1>4, <1>9, <1>10 DEF Held, Staged
<1>12. Expects(s) /\ ~s.handledEnter =>
         /\ EntryLeaves(s, s')
         /\ s'.rewrite = s.rewrite /\ s'.restoreRewrite = s.restoreRewrite
  <2>1. Expects(s) /\ ~s.handledEnter =>
          EntryLeaves(b, x) /\ x.rewrite = b.rewrite /\ x.restoreRewrite = b.restoreRewrite
    BY <1>4, <1>9 DEF Staged, Expects
  <2> QED
    BY <1>10, <2>1, EntryLeavesHeld DEF Held
<1>13. ~Expects(s) /\ ~s.handledEnter =>
         /\ ExitPaths(s, x)
         /\ s'.seccomp = "enabled" /\ trace' = "syscall" =>
              s'.chain # None \/ s'.restoreRewrite
  <2>1. ~Expects(s) /\ ~s.handledEnter =>
          /\ ExitPaths(b, x)
          /\ x.seccomp = "enabled" /\ x.how = "syscall" => x.chain # None \/ x.restoreRewrite
    BY <1>4, <1>9 DEF Staged, Expects
  <2> QED
    BY <1>2, <1>10, <2>1, ExitPathsHeld
<1>14. IF s.handledEnter \/ Expects(s)
         THEN ~Expects(s') /\ trace' = "syscall" /\ s'.regs.pc = "after"
         ELSE Expects(s') /\ (s.chain = None => s'.chain = None)
  BY <1>2, <1>4, <1>8 DEF EntryDone, ExitDone, Staged, Expects
<1>15. /\ ~After /\ ~s.skip => ~s'.skip
       /\ s'.seccomp = "enabled" => s'.sysexitPending = Expects(s)
  BY <1>2, <1>3, <1>4, <1>9 DEF Untouched, Expects
<1>16. s'.seccomp \in {"enabled", "disabled"} /\ s'.status \in {"enter", "ok", "error"}
  BY <1>2, <1>8 DEF Tracee
<1> QED
  BY <1>2, <1>10, <1>11, <1>12, <1>13, <1>14, <1>15, <1>16

(* The entry of a call: its paths are translated, its original registers    *)
(* are those of the guest.                                                  *)
LEMMA EntrySaved ==
  ASSUME Types, Control, Paths, at \in InSyscall, Expects(s), EntryLeaves(s, s')
  PROVE  /\ 1 \in Places(s'.original.num) => GivenUp \/ entryA[1] = "guest"
         /\ Ready(s'.nr, s'.regs.args)
         /\ FromGuest(s'.original.num, s'.original.args)
         /\ s'.chain # None => s'.original.num = "brk"
         /\ s'.status = "error" => GivenUp
         /\ s'.chain = None /\ s'.status = "ok" /\ s'.modified.num = "void" =>
              s'.original.num \in Silent
         /\ s'.chain = None =>
              /\ s'.nr \in {s'.original.num, "void"} \cup Heap
              /\ \/ s'.regsChanged
                 \/ s'.regs.num = s'.original.num /\ s'.regs.args = s'.original.args
         /\ s'.nr = "rt_sigreturn" => s.nr = "rt_sigreturn"
         /\ Steady /\ s.restoreRewrite /\ s'.chain = None => s'.original.num \in Targets
<1>1. s.regs.num = s.nr /\ FromGuest(s.nr, s.regs.args)
  BY DEF Control, Numbered, Paths, AsGuest
<1>2. IF s.chain # None
        THEN /\ s'.original = s.original /\ s'.status = "ok" /\ s'.nr = s.nr
             /\ s'.chain = s.chain
        ELSE /\ s'.original = s.regs
             /\ s'.chain # None => s.regs.num = "brk"
             /\ s'.status = "error" => GivenUp
             /\ s'.status = "ok" /\ s'.chain = None /\ s'.modified.num = "void" =>
                  s.regs.num \in Silent
             /\ s'.regsChanged \/ s'.regs = s.regs
             /\ s.nr = s.regs.num =>
                  /\ FromGuest(s.regs.num, s.regs.args) => Ready(s'.nr, s'.regs.args)
                  /\ s'.nr \in {s.regs.num, "void"} \cup Heap
  BY DEF EntryLeaves, Chaining
<1>3. s.chain # None => s.original.num = "brk"
  BY DEF Paths, Saved
<1>4. Places("brk") = {}
  BY EmptyPlaces
<1>5. FromGuest("brk", s.original.args)
  BY <1>4 DEF FromGuest, Guests
<1>6. 1 \in Places(s'.original.num) => GivenUp \/ entryA[1] = "guest"
  BY <1>1, <1>2, <1>3, <1>4 DEF Paths, AsGuest
<1>7. Ready(s'.nr, s'.regs.args)
  <2>1. CASE s.chain # None
    <3>1. s'.nr \in Heap \cup {"brk"}
      BY <1>2, <2>1 DEF Control, ChainSafe
    <3>2. Places(s'.nr) = {}
      BY <3>1, EmptyPlaces
    <3> QED
      BY <3>2 DEF Ready, Hosted
  <2>2. CASE s.chain = None
    BY <1>1, <1>2, <2>2
  <2> QED
    BY <2>1, <2>2
<1>8. FromGuest(s'.original.num, s'.original.args)
  BY <1>1, <1>2, <1>3, <1>5
<1>9. Steady /\ s.restoreRewrite /\ s'.chain = None => s'.original.num \in Targets
  BY <1>1, <1>2 DEF Paths, Rewriting
<1>10. s'.nr = "rt_sigreturn" => s.nr = "rt_sigreturn"
  BY <1>1, <1>2 DEF Heap
<1> QED
  BY <1>1, <1>2, <1>3, <1>6, <1>7, <1>8, <1>9, <1>10

(* A forbidden call found as the guest made it is neither rewritten nor     *)
(* answered yet.                                                            *)
LEMMA RefoundUnrewritten ==
  ASSUME Types, Control, Paths, ~Expects(s), sigsys \notin {None, "void"}
  PROVE  Unrewritten(s)
<1>1. s.chain = None
  BY DEF Control, ChainSafe
<1>2. LET args == [s.original.args EXCEPT ![1] = s.regs.args[1]]
      IN  /\ host.order = "new" /\ s.original.num \in Legacy /\ ~s.restoreRewrite
          /\ FromGuest(s.original.num, args)
          /\ s.regsChanged \/ (s.regs.num = s.original.num /\ s.regs.args = args)
  BY DEF Paths, Refound
<1>3. s.status = "ok" /\ s.modified.num = "void" => s.original.num \in Silent
  BY <1>1 DEF Paths, Saved
<1>4. s.status \in {"enter", "ok", "error"}
  BY DEF Types, Tracee
<1>5. s.original.num \in Legacy => s.original.num \notin Silent
  BY DEF Legacy, Silent
<1>6. s.status # "error" => s.modified.num # "void"
  BY <1>2, <1>3, <1>4, <1>5 DEF Expects
<1>7. s.status = "error" => GivenUp
  BY DEF Paths, Saved
<1> QED
  BY <1>1, <1>2, <1>6, <1>7 DEF Unrewritten

LEMMA SyscallStopPaths ==
  ASSUME IInv, HInv, SyscallStop
  PROVE  HInv'
<1>1. /\ at \in {"enter", "exit"}
      /\ at' = IF at = "exit" THEN "signals"
               ELSE IF host.order = "new" THEN "filter" ELSE "exec"
      /\ CountStop
      /\ UNCHANGED <<host, entryA, sigsys, mixed>>
  BY DEF SyscallStop
<1>2. Steadfast
  BY <1>1, CountStopSteadfast DEF HInv
<1>3. host.order \in {"old", "new"} /\ (at = "enter" => sigsys = None)
  BY DEF IInv, Types, AllHosts
<1>5. ASSUME Regular' PROVE Paths'
  <2>1. s'.seccomp = "enabled" => s.seccomp = "enabled"
    BY SyscallStopMoves DEF IInv
  <2>2. Control /\ Paths
    BY <1>1, <1>5, <2>1, SoFar
  <2>3. PICK x \in Tracee :
          /\ Held(x, s') /\ s' \in Tracee /\ trace' = x.how
          /\ s'.seccomp = "enabled" => s.seccomp = "enabled"
          /\ ~After /\ ~s.skip => ~s'.skip
          /\ s'.seccomp = "enabled" => s'.sysexitPending = Expects(s)
          /\ s'.seccomp \in {"enabled", "disabled"}
          /\ s'.status \in {"enter", "ok", "error"}
          /\ IF s.handledEnter \/ Expects(s)
               THEN ~Expects(s') /\ trace' = "syscall" /\ s'.regs.pc = "after"
               ELSE Expects(s') /\ (s.chain = None => s'.chain = None)
          /\ s.handledEnter => Held(s, s')
          /\ Expects(s) /\ ~s.handledEnter =>
               /\ EntryLeaves(s, s')
               /\ s'.rewrite = s.rewrite /\ s'.restoreRewrite = s.restoreRewrite
          /\ ~Expects(s) /\ ~s.handledEnter =>
               /\ ExitPaths(s, x)
               /\ s'.seccomp = "enabled" /\ trace' = "syscall" =>
                    s'.chain # None \/ s'.restoreRewrite
    BY <2>2, SyscallStopStages DEF Paths
  <2>4. host.order = "old" => ~s'.skip
    BY <1>3, <2>2, <2>3 DEF Paths, Awaited, After
  <2>5. ~host.traced => s'.seccomp = "disabled"
    BY <2>2, <2>3 DEF Paths, Awaited
  <2>6. CASE s.handledEnter
    <3>1. at = "enter" /\ at' = "exec" /\ ~Expects(s) /\ sigsys = None
      BY <1>1, <1>3, <2>2, <2>6 DEF Control, Paired
    <3>2. Held(s, s') /\ ~Expects(s') /\ trace' = "syscall" /\ s'.regs.pc = "after"
      BY <2>3, <2>6
    <3>3. AsGuest' /\ AsHost' /\ Refound'
      BY <1>1, <2>2, <3>1, <3>2 DEF Paths, AsGuest, AsHost, Refound, Held, InSyscall
    <3>4. Saved'
      BY <1>1, <1>2, <2>2, <3>1, <3>2
         DEF Paths, Saved, Held, FromGuest, InSyscall, Steadfast
    <3>5. Awaited'
      BY <1>1, <1>2, <2>2, <2>4, <2>5, <3>1, <3>2
         DEF Paths, Awaited, Held, InSyscall, Steadfast
    <3>6. Steady' => Rewriting'
      BY <1>1, <2>2, <3>1, <3>2 DEF Paths, Steady, Rewriting, Held, InSyscall
    <3>7. Delayed'
      BY <1>1, <3>1, <3>2 DEF Delayed, InSyscall
    <3> QED
      BY <3>3, <3>4, <3>5, <3>6, <3>7 DEF Paths
  <2>7. CASE Expects(s) /\ ~s.handledEnter
    <3>1. /\ ~Expects(s') /\ trace' = "syscall" /\ s'.regs.pc = "after"
          /\ s'.rewrite = s.rewrite /\ s'.restoreRewrite = s.restoreRewrite
      BY <2>3, <2>7
    <3>2. IF s.chain # None
            THEN /\ s'.original = s.original /\ s'.status = "ok" /\ s'.nr = s.nr
                 /\ s'.chain = s.chain
            ELSE /\ s'.original = s.regs
                 /\ s'.chain # None => s.regs.num = "brk"
                 /\ s'.status = "error" => GivenUp
                 /\ s'.status = "ok" /\ s'.chain = None /\ s'.modified.num = "void" =>
                      s.regs.num \in Silent
                 /\ s'.regsChanged \/ s'.regs = s.regs
                 /\ s.nr = s.regs.num =>
                      /\ FromGuest(s.regs.num, s.regs.args) => Ready(s'.nr, s'.regs.args)
                      /\ s'.nr \in {s.regs.num, "void"} \cup Heap
      BY <2>3, <2>7 DEF EntryLeaves, Chaining
    <3>5. CASE at = "enter"
      <4>1. sigsys = None /\ at' \in {"filter", "exec"} /\ at \in InSyscall
        BY <1>1, <1>3, <3>5 DEF InSyscall
      <4>2. /\ 1 \in Places(s'.original.num) => GivenUp \/ entryA[1] = "guest"
            /\ Ready(s'.nr, s'.regs.args)
            /\ FromGuest(s'.original.num, s'.original.args)
            /\ s'.chain # None => s'.original.num = "brk"
            /\ s'.status = "error" => GivenUp
            /\ s'.chain = None /\ s'.status = "ok" /\ s'.modified.num = "void" =>
                 s'.original.num \in Silent
            /\ s'.chain = None =>
                 /\ s'.nr \in {s'.original.num, "void"} \cup Heap
                 /\ \/ s'.regsChanged
                    \/ s'.regs.num = s'.original.num /\ s'.regs.args = s'.original.args
            /\ s'.nr = "rt_sigreturn" => s.nr = "rt_sigreturn"
            /\ Steady /\ s.restoreRewrite /\ s'.chain = None => s'.original.num \in Targets
        BY <2>2, <2>3, <2>7, <4>1, EntrySaved DEF IInv
      <4>3. AsGuest' /\ AsHost' /\ Refound'
        BY <1>1, <1>2, <3>1, <4>1, <4>2 DEF AsGuest, AsHost, Refound, InSyscall, Steadfast
      <4>4. Saved'
        BY <1>2, <3>1, <4>2 DEF Saved, FromGuest, Steadfast
      <4>5. Awaited'
        BY <1>1, <1>2, <2>2, <2>4, <2>5, <3>1, <4>1, <4>2
           DEF Paths, Awaited, InSyscall, Steadfast
      <4>6. Steady' => Rewriting'
        BY <1>1, <3>1, <4>2 DEF Steady, Rewriting
      <4>7. Delayed'
        BY <1>1, <3>1, <4>1 DEF Delayed
      <4> QED
        BY <4>3, <4>4, <4>5, <4>6, <4>7 DEF Paths
    <3>6. CASE at = "exit"
      <4>1. /\ sigsys # None /\ host.order = "old" /\ host.policy /\ at' = "signals"
            /\ s.chain = None
        BY <1>1, <2>2, <2>7, <3>6 DEF Control, Paired, Late, Numbered, ChainSafe
      <4>2. ~host.skipsExit /\ trace = "syscall"
        BY <2>2, <3>6, <4>1 DEF Paths, Awaited
      <4>3. /\ sigsys = "void" /\ s.restoreRewrite /\ s.rewrite.num \in {"stat", "lstat"}
            /\ s.regs.num = "void"
        BY <2>2, <2>7, <4>1, <4>2 DEF Paths, Old, Delayed
      <4>4. FromGuest(s.regs.num, s.regs.args)
        BY <2>2, <2>7, <4>1 DEF Paths, AsGuest
      <4>5. /\ s'.original = s.regs /\ s'.chain = None
            /\ s'.status = "error" => GivenUp
            /\ s'.status = "ok" /\ s'.modified.num = "void" => s.regs.num \in Silent
        BY <3>2, <4>1, <4>3
      <4>6. AsGuest' /\ AsHost' /\ Refound'
        BY <1>1, <3>1, <4>1, <4>3 DEF AsGuest, AsHost, Refound, InSyscall
      <4>7. Saved'
        BY <1>1, <1>2, <3>1, <4>1, <4>4, <4>5 DEF Saved, FromGuest, InSyscall, Steadfast
      <4>8. Awaited'
        BY <1>1, <2>4, <2>5, <3>1, <4>1, <4>2 DEF Awaited, InSyscall
      <4>9. Rewriting'
        BY <1>1, <3>1, <4>1, <4>3, <4>5 DEF Rewriting, Targets
      <4>10. Delayed'
        BY <1>1, <3>1, <4>1, <4>3, <4>5 DEF Delayed, InSyscall
      <4> QED
        BY <4>6, <4>7, <4>8, <4>9, <4>10 DEF Paths
    <3> QED
      BY <1>1, <3>5, <3>6
  <2>8. CASE ~Expects(s) /\ ~s.handledEnter
    <3>1. at = "exit" /\ at' = "signals" /\ Expects(s')
      BY <1>1, <2>2, <2>3, <2>8 DEF Control, Paired
    <3>2. /\ s'.restoreRewrite => s'.regs.pc = "trap"
          /\ s'.regs.pc = "trap" =>
               /\ trace' = "syscall"
               /\ FromGuest(s.original.num, s.original.args) =>
                    FromGuest(s'.regs.num, s'.regs.args)
               /\ s.chain = None \/ s'.chain = None => s'.regs.num = "utimensat"
          /\ s'.chain # None => s'.original = s.original
          /\ Unrewritten(s) => FromGuest(s'.regs.num, s'.regs.args)
      BY <2>3, <2>8 DEF ExitPaths, Held
    <3>3. FromGuest(s.original.num, s.original.args)
      BY <2>2, <2>8 DEF Paths, Saved
    <3>4. host.order = "old" => sigsys = None
      <4>1. SUFFICES ASSUME host.order = "old", sigsys # None PROVE FALSE
        OBVIOUS
      <4>2. host.policy /\ ~host.skipsExit
        BY <2>2, <2>8, <4>1 DEF Control, Numbered, Paths, Awaited
      <4> QED
        BY <2>2, <2>8, <3>1, <4>1, <4>2 DEF Paths, Old, Delayed
    <3>5. sigsys \notin {None, "void"} => Unrewritten(s)
      BY <2>2, <2>8, RefoundUnrewritten DEF IInv
    <3>6. AsGuest' /\ AsHost'
      <4>1. s'.regs.pc = "trap" /\ s'.chain = None => s'.regs.num \in Targets
        BY <3>2 DEF Targets
      <4>2. sigsys # None /\ (host.order = "old" \/ sigsys # "void") =>
              FromGuest(s'.regs.num, s'.regs.args)
        BY <3>2, <3>4, <3>5
      <4> QED
        BY <1>1, <1>2, <3>1, <3>2, <3>3, <4>1, <4>2
           DEF AsGuest, AsHost, FromGuest, InSyscall, Steadfast
    <3>7. Saved' /\ Refound'
      BY <2>2, <2>3, <2>8, <3>1, <3>2 DEF Paths, Saved, Refound
    <3>8. Awaited'
      BY <1>1, <2>4, <2>5, <3>1, <3>4 DEF Awaited, InSyscall
    <3>9. Rewriting'
      BY <3>1, <3>2 DEF Rewriting, InSyscall
    <3>10. Old' => Delayed'
      <4>1. SUFFICES ASSUME Old PROVE Delayed'
        BY <1>1 DEF Old
      <4>2. sigsys = None /\ s'.seccomp = "enabled"
        BY <1>1, <1>5, <3>4, <4>1 DEF Old, Regular, Unpaired
      <4>3. /\ trace' = "syscall" => s'.chain # None \/ s'.restoreRewrite
            /\ ~s'.sysexitPending
        BY <2>3, <2>8, <4>2
      <4> QED
        BY <1>1, <3>1, <3>2, <4>2, <4>3 DEF Delayed, InSyscall
    <3> QED
      BY <3>6, <3>7, <3>8, <3>9, <3>10 DEF Paths
  <2> QED
    BY <2>6, <2>7, <2>8
<1> QED
  BY <1>2, <1>5 DEF HInv, Steadfast

-----------------------------------------------------------------------------
(* A stop at a seccomp event.                                               *)

LEMMA RestartUntouched ==
  ASSUME NEW x \in Tracee, Restart(x)
  PROVE  Untouched(x, s')
BY RestartedUntouched DEF Restart

LEMMA SeccompStopStages ==
  ASSUME IInv, SeccompStop, Control
  PROVE  /\ s' \in Tracee /\ trace' \in Ways
         /\ s.nr \in Filtered /\ s.nr # "void" /\ (host.order = "old" => Expects(s))
         /\ at' = IF s'.nr = "void" THEN "leave"
                  ELSE IF host.order = "old" /\ trace' = "syscall" THEN "enter" ELSE "exec"
         /\ s'.seccomp = s.seccomp /\ s'.regs.pc = "after"
         /\ ~s'.skip /\ s'.sysexitPending = s.sysexitPending
         /\ s'.rewrite = s.rewrite /\ s'.restoreRewrite = s.restoreRewrite
         /\ s'.chain # None => trace' = "syscall"
         /\ host.order = "new" \/ trace' = "cont" => (Expects(s') <=> trace' = "cont")
         /\ host.order = "old" /\ trace' = "syscall" =>
              /\ s'.nr = s.nr
              /\ s'.chain # None => s.chain # None
              /\ Expects(s') => s'.regs = s.regs
         /\ \/ Held(s, s') /\ (Expects(s) => host.order = "old" /\ trace' = "syscall")
            \/ Expects(s) /\ EntryLeaves(s, s') /\ (host.order = "new" \/ ~s.restoreRewrite)
<1> DEFINE b == Begin(s)
           x == OnSeccompStop(b)
<1>1. /\ at = "seccomp"
      /\ Restart(x)
      /\ at' = IF x.nr = "void" THEN "leave"
               ELSE IF host.order = "old" /\ x.how = "syscall" THEN "enter" ELSE "exec"
  BY DEF SeccompStop
<1>2. /\ s \in Tracee /\ host.order \in {"old", "new"} /\ s.last = trace
      /\ trace \in Ways
  BY DEF IInv, Types, AllHosts, Tracee
<1>3. /\ Staged(s, b) /\ b.status = s.status /\ b.how \in Ways
      /\ (s.seccomp # "enabled" \/ Chaining(s)) => b.how = "syscall"
      /\ Chaining(s) => Necessary(b)
      /\ Untouched(s, b)
  BY <1>2, BeginFacts, BeginUntouched
<1> HIDE DEF b
<1>4. SeccompKept(b, x) /\ (Reported(b) => Passed(b, x))
  BY <1>3, SeccompStopFacts DEF Staged
<1>5. After <=> host.order = "new"
  BY <1>1 DEF Control, Numbered, After
<1>6. s.nr \in Filtered /\ s.nr # "void" /\ (host.order = "old" => Expects(s))
  BY <1>1 DEF Control, Numbered, Paired, Filtered, FilterSysexit
<1>7. s.regs.pc = "after" /\ ~s.handledEnter
  BY <1>1, <1>2 DEF Control, Retrapped, Paired, Tracee, Registers
<1>8. Reported(b)
  <2>1. InOrder(b)
    BY <1>3, <1>7 DEF Control, ChainSafe, ChainRight, InOrder, Staged
  <2>2. b.chain # None => b.how = "syscall" /\ Necessary(b)
    BY <1>3 DEF Staged, Chaining
  <2>3. b.status = "enter" => b.regs.num = b.nr
    BY <1>1, <1>3 DEF Control, Numbered, Staged, Expects, InSyscall
  <2>4. IF After THEN b.status = "enter" <=> b.last = "cont" ELSE b.status = "enter"
    BY <1>1, <1>2, <1>3, <1>5 DEF Control, Paired, Staged, Expects
  <2>5. b.seccomp = "disabled" => b.last = "syscall"
    BY <1>2, <1>3 DEF Control, Staged
  <2> QED
    BY <1>3, <1>7, <2>1, <2>2, <2>3, <2>4, <2>5 DEF Reported, Staged
<1>9. /\ ~x.skip /\ x.sysexitPending = b.sysexitPending
      /\ x.rewrite = b.rewrite /\ x.restoreRewrite = b.restoreRewrite
      /\ \/ Held(b, x) /\ (Expects(b) => ~After /\ x.how = "syscall")
         \/ Expects(b) /\ EntryLeaves(b, x) /\ (After \/ ~b.restoreRewrite)
  <2>1. b \in Tracee /\ b.seccomp \in {"enabled", "disabled"}
    BY <1>3 DEF Control, Staged
  <2>2. b.seccomp = "disabled" /\ Expects(b) => ~After /\ b.how = "syscall"
    BY <1>1, <1>3, <1>5 DEF Control, Paired, Staged, Expects
  <2>3. ~After => Expects(b)
    BY <1>2, <1>3, <1>5, <1>6 DEF Expects
  <2> QED
    BY <1>3, <2>1, <2>2, <2>3, SeccompStopMore
<1> HIDE DEF x
<1>10. x \in Tracee /\ x.how \in Ways
  BY <1>4 DEF SeccompKept
<1>11. /\ s' \in Tracee /\ s'.status = x.status /\ trace' = x.how
       /\ s'.seccomp = x.seccomp /\ s'.handledEnter = x.handledEnter
       /\ s'.chain = x.chain /\ s'.regs = x.regs /\ s'.nr = x.nr
       /\ Untouched(x, s')
  BY <1>1, <1>10, RestartFacts, RestartUntouched
<1>12. Passed(b, x)
  BY <1>4, <1>8
<1>13. /\ s'.seccomp = s.seccomp /\ s'.regs.pc = "after"
       /\ s'.chain # None => trace' = "syscall"
       /\ host.order = "new" \/ trace' = "cont" => (Expects(s') <=> trace' = "cont")
       /\ host.order = "old" /\ trace' = "syscall" =>
            /\ s'.nr = s.nr
            /\ s'.chain # None => s.chain # None
            /\ Expects(s') => s'.regs = s.regs
  BY <1>3, <1>5, <1>11, <1>12 DEF Passed, Staged, Expects
<1>14. /\ ~s'.skip /\ s'.sysexitPending = s.sysexitPending
       /\ s'.rewrite = s.rewrite /\ s'.restoreRewrite = s.restoreRewrite
  BY <1>3, <1>9, <1>11 DEF Untouched, Held
<1>15. \/ Held(s, s') /\ (Expects(s) => host.order = "old" /\ trace' = "syscall")
       \/ Expects(s) /\ EntryLeaves(s, s') /\ (host.order = "new" \/ ~s.restoreRewrite)
  <2>1. CASE Held(b, x) /\ (Expects(b) => ~After /\ x.how = "syscall")
    BY <1>2, <1>3, <1>5, <1>11, <2>1 DEF Untouched, Held, Expects
  <2>2. CASE Expects(b) /\ EntryLeaves(b, x) /\ (After \/ ~b.restoreRewrite)
    BY <1>3, <1>5, <1>11, <2>2, EntryLeavesHeld DEF Untouched, Staged, Expects
  <2> QED
    BY <1>9, <2>1, <2>2
<1> QED
  BY <1>1, <1>6, <1>10, <1>11, <1>13, <1>14, <1>15

LEMMA SeccompStopReported ==
  ASSUME IInv, SeccompStop
  PROVE  s'.seccomp = "enabled" => s.seccomp = "enabled"
<1> DEFINE b == Begin(s)
           x == OnSeccompStop(b)
<1>1. Restart(x)
  BY DEF SeccompStop
<1>2. Staged(s, b) /\ b.how \in Ways
  BY BeginFacts DEF IInv, Types
<1> HIDE DEF b
<1>3. SeccompKept(b, x)
  BY <1>2, SeccompStopFacts DEF Staged
<1> HIDE DEF x
<1>4. s'.seccomp = x.seccomp
  BY <1>1, <1>3, RestartFacts DEF SeccompKept
<1> QED
  BY <1>2, <1>3, <1>4 DEF SeccompKept, Staged

LEMMA SeccompStopPaths ==
  ASSUME IInv, HInv, SeccompStop
  PROVE  HInv'
<1>1. at = "seccomp" /\ CountStop /\ UNCHANGED <<host, entryA, sigsys, mixed>>
  BY DEF SeccompStop
<1>2. Steadfast
  BY <1>1, CountStopSteadfast DEF HInv
<1>3. host.order \in {"old", "new"} /\ sigsys = None /\ at \in InSyscall
  BY <1>1 DEF IInv, Types, AllHosts, InSyscall
<1>4. s'.seccomp = "enabled" => s.seccomp = "enabled"
  BY SeccompStopReported
<1>5. ASSUME Regular' PROVE Paths'
  <2>1. Control /\ Paths
    BY <1>1, <1>4, <1>5, SoFar
  <2>2. /\ s' \in Tracee /\ trace' \in Ways
        /\ s.nr # "void" /\ (host.order = "old" => Expects(s))
        /\ at' = IF s'.nr = "void" THEN "leave"
                 ELSE IF host.order = "old" /\ trace' = "syscall" THEN "enter" ELSE "exec"
        /\ s'.seccomp = s.seccomp /\ s'.regs.pc = "after"
        /\ ~s'.skip /\ s'.sysexitPending = s.sysexitPending
        /\ s'.rewrite = s.rewrite /\ s'.restoreRewrite = s.restoreRewrite
        /\ s'.chain # None => trace' = "syscall"
        /\ host.order = "new" \/ trace' = "cont" => (Expects(s') <=> trace' = "cont")
        /\ host.order = "old" /\ trace' = "syscall" =>
             /\ s'.nr = s.nr
             /\ s'.chain # None => s.chain # None
             /\ Expects(s') => s'.regs = s.regs
        /\ \/ Held(s, s') /\ (Expects(s) => host.order = "old" /\ trace' = "syscall")
           \/ Expects(s) /\ EntryLeaves(s, s') /\ (host.order = "new" \/ ~s.restoreRewrite)
    BY <2>1, SeccompStopStages
  <2>3. CASE Held(s, s') /\ (Expects(s) => host.order = "old" /\ trace' = "syscall")
    <3>1. Expects(s') <=> Expects(s)
      BY <2>3 DEF Held, Expects
    <3>2. /\ Expects(s) => at' = "enter" /\ trace' = "syscall"
          /\ ~Expects(s) => at' = "exec" /\ trace' = "syscall" /\ host.order = "new"
      BY <1>3, <2>2, <2>3, <3>1 DEF Held, Ways
    <3>3. AsGuest' /\ AsHost' /\ Refound'
      BY <1>1, <1>2, <1>3, <2>1, <2>2, <2>3, <3>1, <3>2
         DEF Paths, AsGuest, AsHost, Refound, Held, FromGuest, InSyscall, Steadfast
    <3>4. Saved'
      BY <1>1, <1>2, <1>3, <2>1, <2>3, <3>1, <3>2
         DEF Paths, Saved, Held, FromGuest, InSyscall, Steadfast
    <3>5. Awaited'
      BY <1>1, <1>2, <1>3, <2>1, <2>2, <2>3, <3>1, <3>2
         DEF Paths, Awaited, Held, InSyscall, Steadfast
    <3>6. Steady' => Rewriting'
      BY <1>1, <1>3, <2>1, <2>2, <2>3, <3>1, <3>2
         DEF Paths, Steady, Rewriting, Held, InSyscall
    <3>7. Old' => Delayed'
      BY <1>1, <1>3, <2>1, <2>2, <2>3, <3>1, <3>2
         DEF Paths, Old, Delayed, Held, InSyscall
    <3> QED
      BY <3>3, <3>4, <3>5, <3>6, <3>7 DEF Paths
  <2>4. CASE Expects(s) /\ EntryLeaves(s, s') /\ (host.order = "new" \/ ~s.restoreRewrite)
    <3>1. /\ 1 \in Places(s'.original.num) => GivenUp \/ entryA[1] = "guest"
          /\ Ready(s'.nr, s'.regs.args)
          /\ FromGuest(s'.original.num, s'.original.args)
          /\ s'.chain # None => s'.original.num = "brk"
          /\ s'.status = "error" => GivenUp
          /\ s'.chain = None /\ s'.status = "ok" /\ s'.modified.num = "void" =>
               s'.original.num \in Silent
          /\ s'.chain = None =>
               /\ s'.nr \in {s'.original.num, "void"} \cup Heap
               /\ \/ s'.regsChanged
                  \/ s'.regs.num = s'.original.num /\ s'.regs.args = s'.original.args
          /\ s'.nr = "rt_sigreturn" => s.nr = "rt_sigreturn"
          /\ Steady /\ s.restoreRewrite /\ s'.chain = None => s'.original.num \in Targets
      BY <1>3, <2>1, <2>4, EntrySaved DEF IInv
    <3>2. s.restoreRewrite => host.order = "new" /\ trace = "syscall" /\ ~Expects(s)
      BY <1>1, <1>3, <2>1, <2>4 DEF Paths, Steady, Rewriting, Control, Paired
    <3>3. ~s'.restoreRewrite
      BY <2>2, <2>4, <3>2
    <3>4. Awaited'
      <4>1. s'.nr = "rt_sigreturn" => Current' = None
        BY <1>1, <1>2, <1>3, <2>1, <3>1 DEF Paths, Awaited, Steadfast
      <4>2. ~Expects(s') => trace' = "syscall"
        BY <2>2 DEF Ways
      <4>3. ~host.traced => s'.seccomp = "disabled"
        BY <2>1, <2>2 DEF Paths, Awaited
      <4> QED
        BY <1>1, <1>3, <2>2, <4>1, <4>2, <4>3 DEF Awaited
    <3>5. Old' => Delayed'
      <4>1. SUFFICES ASSUME Old PROVE Delayed'
        BY <1>1 DEF Old
      <4>2. ~s.sysexitPending
        BY <1>1, <2>1, <2>2, <2>4, <3>3, <4>1 DEF Paths, Delayed
      <4> QED
        BY <1>1, <1>3, <2>2, <3>3, <4>2 DEF Delayed
    <3>6. Rewriting'
      BY <3>3 DEF Rewriting
    <3>7. CASE Expects(s')
      <4>1. s'.chain = None
        <5>1. SUFFICES ASSUME s'.chain # None PROVE FALSE
          OBVIOUS
        <5>2. s.chain # None
          BY <1>3, <2>2, <3>7, <5>1
        <5> QED
          BY <2>4, <3>7, <5>2 DEF EntryLeaves, Chaining, Expects
      <4>2. at' \notin InSyscall \/ (at' = "enter" /\ s'.nr = s.nr /\ s'.regs = s.regs)
        BY <2>2, <3>7 DEF InSyscall
      <4>3. AsGuest' /\ AsHost'
        BY <1>1, <1>2, <1>3, <2>1, <2>2, <2>4, <3>1, <3>7, <4>2
           DEF Paths, AsGuest, AsHost, FromGuest, Steadfast
      <4>4. Saved' /\ Refound'
        BY <3>7, <4>1 DEF Saved, Refound
      <4> QED
        BY <3>4, <3>5, <3>6, <4>3, <4>4 DEF Paths
    <3>8. CASE ~Expects(s')
      <4>1. AsGuest' /\ AsHost' /\ Refound'
        BY <1>1, <1>2, <1>3, <2>2, <3>1, <3>8 DEF AsGuest, AsHost, Refound, Steadfast
      <4>2. Saved'
        BY <1>2, <3>1, <3>8 DEF Saved, FromGuest, Steadfast
      <4> QED
        BY <3>4, <3>5, <3>6, <4>1, <4>2 DEF Paths
    <3> QED
      BY <3>7, <3>8
  <2> QED
    BY <2>2, <2>3, <2>4
<1> QED
  BY <1>2, <1>5 DEF HInv, Steadfast

-----------------------------------------------------------------------------
(* A stop for SIGSYS.                                                       *)

(* Without the acceleration every stop is asked for, with it only where     *)
(* PRoot needs the exit.                                                    *)
LEMMA BeginHow ==
  ASSUME NEW x \in Tracee
  PROVE  /\ Necessary(x) => Begin(x).how = "syscall"
         /\ x.seccomp = "enabled" /\ Begin(x).how = "syscall" => Necessary(x)
<1> DEFINE w == IF x.seccomp = "enabled" /\ ~Necessary(x) THEN "cont" ELSE "syscall"
           y == [x EXCEPT !.how = w]
<1>1. Begin(x) = y
  BY DEF Begin
<1>2. y.how = w
  <2> HIDE DEF w
  <2> QED
    BY Zenon DEF Tracee
<1> QED
  BY <1>1, <1>2

LEMMA GuestsResult ==
  ASSUME NEW num \in Targets, NEW a \in [1 .. 6 -> Values], NEW v, FromGuest(num, a)
  PROVE  FromGuest(num, [a EXCEPT ![1] = v])
<1>1. 1 \notin Places(num)
  BY TargetsFacts
<1>2. \A i \in Places(num) : i \in 1 .. 6 /\ i # 1
  BY <1>1 DEF Places
<1>3. \A i \in Places(num) : [a EXCEPT ![1] = v][i] = a[i]
  BY <1>2
<1> QED
  BY <1>3 DEF FromGuest, Guests

LEMMA SigsysAnswered ==
  ASSUME Types, Regular, Control, Paths, at = "SIGSYS", NEW x, SigsysLeaves(Begin(s), x)
  PROVE  /\ x.regs.pc = "trap" =>
              /\ FromGuest(x.regs.num, x.regs.args)
              /\ x.how = "syscall" /\ x.regs.num \in Targets
         /\ Steady /\ x.restoreRewrite => x.regs.pc = "trap"
         /\ Old =>
              /\ x.how = "syscall" => x.restoreRewrite
              /\ x.restoreRewrite /\ x.regs.num = "void" /\ x.regs.pc = "trap" =>
                   x.rewrite.num \in {"stat", "lstat"}
              /\ ~x.restoreRewrite => ~x.sysexitPending
<1> DEFINE b == Begin(s)
           Goal(z) ==
             /\ z.regs.pc = "trap" =>
                  /\ FromGuest(z.regs.num, z.regs.args)
                  /\ z.how = "syscall" /\ z.regs.num \in Targets
             /\ Steady /\ z.restoreRewrite => z.regs.pc = "trap"
             /\ Old =>
                  /\ z.how = "syscall" => z.restoreRewrite
                  /\ z.restoreRewrite /\ z.regs.num = "void" /\ z.regs.pc = "trap" =>
                       z.rewrite.num \in {"stat", "lstat"}
                  /\ ~z.restoreRewrite => ~z.sysexitPending
<1>1. /\ s \in Tracee /\ sigsys # None /\ host \in AllHosts
      /\ host.order \in {"old", "new"}
  BY DEF Types, AllHosts
<1>2. s.chain = None /\ host.policy /\ host.traced
  BY <1>1 DEF Control, ChainSafe, Numbered, AllHosts
<1>3. /\ Untouched(s, b) /\ b.status = s.status
      /\ s.restoreRewrite => b.how = "syscall"
      /\ Old /\ b.how = "syscall" => s.sysexitPending \/ s.restoreRewrite
  <2>1. Old => s.seccomp = "enabled"
    BY DEF Old, Regular, Unpaired
  <2> QED
    BY <1>1, <1>2, <2>1, BeginFacts, BeginUntouched, BeginHow DEF Necessary, Chaining
<1> HIDE DEF b
<1>4. PICK e \in Tracee :
        /\ IF Expects(b) THEN e = b ELSE ExitLeaves(b, e)
        /\ x.sysexitPending = e.sysexitPending /\ ~x.skip
        /\ \/ /\ e.skip \/ (After /\ sigsys = "void")
              /\ Held(e, x) /\ x.how = e.how
           \/ /\ ~(e.skip \/ (After /\ sigsys = "void"))
              /\ x.rewrite = e.regs /\ Remade(e, e.regs, x)
  BY DEF SigsysLeaves, b
<1>5. After <=> host.order = "new"
  BY <1>2 DEF After
<1>6. /\ e.skip = s.skip /\ e.sysexitPending = s.sysexitPending
      /\ host.order = "old" => ~s.skip
  BY <1>3, <1>4 DEF ExitLeaves, Untouched, Paths, Awaited
<1>7. e.regs.args \in [1 .. 6 -> Values]
  BY DEF Tracee, Registers
<1>8. CASE Expects(s)
  <2>1. e = b
    BY <1>3, <1>4, <1>8 DEF Expects
  <2>2. /\ e.regs = s.regs /\ e.chain = None /\ e.restoreRewrite = s.restoreRewrite
        /\ e.how = b.how
    BY <1>2, <1>3, <2>1 DEF Untouched, Held
  <2>3. s.regs.pc = "trap" =>
          /\ FromGuest(s.regs.num, s.regs.args) /\ s.regs.num \in Targets
          /\ s.restoreRewrite
    BY <1>2 DEF Paths, AsGuest, Control, Retrapped
  <2>4. Steady /\ s.restoreRewrite => s.regs.pc = "trap"
    BY <1>8 DEF Paths, Rewriting
  <2>5. CASE e.skip \/ (After /\ sigsys = "void")
    <3>1. Held(e, x) /\ x.how = e.how
      BY <1>4, <2>5
    <3>2. ~Old
      BY <1>5, <1>6, <2>5 DEF Old
    <3>3. Goal(x)
      BY <1>3, <2>2, <2>3, <2>4, <3>1, <3>2 DEF Held
    <3> QED
      BY <3>3
  <2>6. CASE ~(e.skip \/ (After /\ sigsys = "void"))
    <3>1. x.rewrite = s.regs /\ Remade(e, s.regs, x)
      BY <1>4, <2>2, <2>6
    <3>2. FromGuest(s.regs.num, s.regs.args)
      BY <1>1, <1>5, <1>8, <2>6 DEF Paths, AsGuest
    <3>3. CASE s.regs.num \in Forbidden
      <4>1. Goal(x)
        BY <3>1, <3>2, <3>3 DEF Remade, FromGuest
      <4> QED
        BY <4>1
    <3>4. CASE s.regs.num \notin Forbidden
      <4>1. /\ x.how = b.how /\ x.restoreRewrite = s.restoreRewrite
            /\ x.regs.pc = s.regs.pc /\ x.regs.num = s.regs.num
            /\ \E v : x.regs.args = [s.regs.args EXCEPT ![1] = v]
        BY <2>2, <3>1, <3>4 DEF Remade
      <4>2. s.regs.pc = "trap" => FromGuest(x.regs.num, x.regs.args)
        <5>1. SUFFICES ASSUME s.regs.pc = "trap" PROVE FromGuest(x.regs.num, x.regs.args)
          OBVIOUS
        <5>2. PICK v : x.regs.args = [s.regs.args EXCEPT ![1] = v]
          BY <4>1
        <5>3. /\ s.regs.num \in Targets /\ s.regs.args \in [1 .. 6 -> Values]
              /\ FromGuest(s.regs.num, s.regs.args)
          BY <1>7, <2>2, <2>3, <5>1
        <5>4. FromGuest(s.regs.num, [s.regs.args EXCEPT ![1] = v])
          BY <5>3, GuestsResult
        <5> QED
          BY <4>1, <5>2, <5>4
      <4>3. Old => /\ ~s.restoreRewrite => ~s.sysexitPending
                   /\ s.regs.pc = "after"
        BY <1>1, <1>8 DEF Paths, Delayed
      <4>4. Goal(x)
        BY <1>3, <1>4, <1>6, <2>3, <2>4, <4>1, <4>2, <4>3
      <4> QED
        BY <4>4
    <3> QED
      BY <3>3, <3>4
  <2> QED
    BY <2>5, <2>6
<1>9. CASE ~Expects(s)
  <2>1. /\ e.restoreRewrite => e.regs.pc = "trap"
        /\ e.regs.pc = "trap" =>
             /\ e.how = "syscall" /\ e.regs.num = "utimensat"
             /\ FromGuest(s.original.num, s.original.args) =>
                  FromGuest(e.regs.num, e.regs.args)
        /\ Unrewritten(b) => FromGuest(e.regs.num, e.regs.args)
        /\ s.original.num = "void" /\ s.restoreRewrite => e.regs.num = s.rewrite.num
    BY <1>2, <1>3, <1>4, <1>9 DEF ExitLeaves, ExitPaths, Untouched, Held, Expects
  <2>2. FromGuest(s.original.num, s.original.args) /\ "utimensat" \in Targets
    BY <1>9 DEF Paths, Saved, Targets
  <2>3. host.order = "old" => Old
    BY <1>1, <1>2, <1>9 DEF Paths, Awaited, Old
  <2>4. CASE e.skip \/ (After /\ sigsys = "void")
    <3>1. Held(e, x) /\ x.how = e.how
      BY <1>4, <2>4
    <3>2. ~Old
      BY <1>5, <1>6, <2>4 DEF Old
    <3>3. Goal(x)
      BY <2>1, <2>2, <3>1, <3>2 DEF Held
    <3> QED
      BY <3>3
  <2>5. CASE ~(e.skip \/ (After /\ sigsys = "void"))
    <3>1. x.rewrite = e.regs /\ Remade(e, e.regs, x)
      BY <1>4, <2>5
    <3>2. CASE host.order = "old"
      <4>1. s.restoreRewrite /\ s.rewrite.num \in {"stat", "lstat"} /\ s.original.num = "void"
        BY <1>1, <1>9, <2>3, <3>2 DEF Paths, Awaited, Delayed
      <4>2. e.regs.num \in {"stat", "lstat"}
        BY <2>1, <4>1
      <4>3. e.regs.num \in Forbidden
        BY <4>2 DEF Forbidden, AtCalls
      <4>4. /\ x.how = "syscall" /\ x.restoreRewrite /\ x.regs.pc = "trap"
            /\ x.regs.num \in Targets /\ x.regs.num = "void"
        BY <3>1, <4>2, <4>3 DEF Remade
      <4>5. FromGuest(x.regs.num, x.regs.args)
        BY <4>4, EmptyPlaces DEF FromGuest, Guests
      <4>6. Goal(x)
        BY <3>1, <4>2, <4>4, <4>5
      <4> QED
        BY <4>6
    <3>3. CASE host.order = "new"
      <4>1. ~Old
        BY <3>3 DEF Old
      <4>2. FromGuest(e.regs.num, e.regs.args)
        <5>1. sigsys # "void"
          BY <1>5, <2>5, <3>3
        <5>2. Unrewritten(s)
          BY <1>1, <1>9, <5>1, RefoundUnrewritten
        <5>3. Unrewritten(b)
          BY <1>3, <5>2 DEF Unrewritten, Untouched, Held
        <5> QED
          BY <2>1, <5>3
      <4>3. CASE e.regs.num \in Forbidden
        <5>1. Goal(x)
          BY <3>1, <4>1, <4>2, <4>3 DEF Remade, FromGuest
        <5> QED
          BY <5>1
      <4>4. CASE e.regs.num \notin Forbidden
        <5>1. /\ x.how = e.how /\ x.restoreRewrite = e.restoreRewrite
              /\ x.regs.pc = e.regs.pc /\ x.regs.num = e.regs.num
              /\ \E v : x.regs.args = [e.regs.args EXCEPT ![1] = v]
          BY <3>1, <4>4 DEF Remade
        <5>2. e.regs.pc = "trap" => FromGuest(x.regs.num, x.regs.args)
          BY <1>7, <2>1, <2>2, <4>2, <5>1, GuestsResult
        <5>3. Goal(x)
          BY <2>1, <2>2, <4>1, <5>1, <5>2
        <5> QED
          BY <5>3
      <4> QED
        BY <4>3, <4>4
    <3> QED
      BY <1>1, <3>2, <3>3
  <2> QED
    BY <2>4, <2>5
<1> QED
  BY <1>8, <1>9

(* How the stage of the thread goes on at this stop.                        *)
LEMMA SigsysStopStages ==
  ASSUME IInv, SigsysStop
  PROVE  \E x \in Tracee :
           /\ Untouched(x, s') /\ trace' = x.how /\ Expects(s')
           /\ s'.seccomp = "enabled" => s.seccomp = "enabled"
           /\ Control => SigsysLeaves(Begin(s), x) /\ s'.chain = None
<1> DEFINE b == Begin(s)
           x == OnSigsys(b)
<1>1. at = "SIGSYS" /\ Restart(x)
  BY DEF SigsysStop
<1>2. Types /\ s \in Tracee /\ sigsys # None
  BY <1>1 DEF IInv, Types
<1>3. /\ Staged(s, b) /\ b.status = s.status /\ b.how \in Ways
      /\ Untouched(s, b)
  BY <1>2, BeginFacts, BeginUntouched
<1>4. /\ x \in Tracee /\ x.how \in {b.how, "syscall"} /\ x.status = "enter"
      /\ x.seccomp \in {b.seccomp, "disabling"}
      /\ (/\ ChainRight(b) /\ b.chain = None
          /\ b.status # "enter" => b.regs.pc = "after"
          /\ b.regs.pc = "trap" => b.restoreRewrite) => x.chain = None
  <2> HIDE DEF b
  <2> QED
    BY <1>3, SigsysFacts DEF Staged
<1>5. /\ ChainRight(b) /\ b.chain = None /\ (~Expects(b) => b.regs.pc = "after")
      => SigsysLeaves(b, x)
  <2> HIDE DEF b
  <2>1. b \in Tracee
    BY <1>3 DEF Staged
  <2> QED
    BY <1>3, <2>1, SigsysMore DEF x
<1>6. b = Begin(s)
  OBVIOUS
<1> HIDE DEF b, x
<1>7. Untouched(x, s') /\ trace' = x.how /\ s'.seccomp = x.seccomp /\ s'.status = x.status
  <2>1. s' = Restarted(x) /\ x.how \in Ways
    BY <1>1, <1>3, <1>4 DEF Restart, Ways
  <2> QED
    BY <1>1, <1>4, <2>1, RestartedUntouched, RestartFacts
<1>8. s'.seccomp = "enabled" => s.seccomp = "enabled"
  BY <1>3, <1>4, <1>7 DEF Staged
<1>9. ASSUME Control PROVE SigsysLeaves(b, x) /\ s'.chain = None
  <2>1. s.chain = None
    BY <1>2, <1>9 DEF Control, ChainSafe
  <2>2. /\ ChainRight(b) /\ b.chain = None
        /\ b.status # "enter" => b.regs.pc = "after"
        /\ b.regs.pc = "trap" => b.restoreRewrite
    BY <1>2, <1>3, <1>9, <2>1
       DEF Control, ChainSafe, ChainRight, Retrapped, Staged, Expects, Tracee, Registers
  <2> QED
    BY <1>4, <1>5, <1>7, <2>2 DEF Expects, Untouched, Held
<1> QED
  BY <1>4, <1>6, <1>7, <1>8, <1>9 DEF Expects

LEMMA SigsysStopPaths ==
  ASSUME IInv, HInv, SigsysStop
  PROVE  HInv'
<1>1. /\ at = "SIGSYS" /\ sigsys' = None /\ at' = "signals" /\ CountStop
      /\ UNCHANGED <<host, entryA, signals, made, mixed>>
  BY DEF SigsysStop
<1>2. Types /\ sigsys # None /\ host \in AllHosts
  BY <1>1 DEF IInv, Types
<1>3. Steadfast
  BY <1>1, CountStopSteadfast DEF HInv
<1>4. PICK x \in Tracee :
        /\ Untouched(x, s') /\ trace' = x.how /\ Expects(s')
        /\ s'.seccomp = "enabled" => s.seccomp = "enabled"
        /\ Control => SigsysLeaves(Begin(s), x) /\ s'.chain = None
  BY SigsysStopStages
<1>5. s'.seccomp = "enabled" => s.seccomp = "enabled"
  BY <1>4
<1>6. ASSUME Regular' PROVE Paths'
  <2>1. Control /\ Paths /\ Regular
    BY <1>1, <1>5, <1>6, SoFar
  <2>2. host.traced
    BY <1>2, <2>1 DEF Control, Numbered, AllHosts
  <2>3. SigsysLeaves(Begin(s), x) /\ Expects(s') /\ s'.chain = None
    BY <1>4, <2>1
  <2>4. ~s'.skip
    BY <1>4, <2>3 DEF SigsysLeaves, Untouched
  <2>5. /\ x.regs.pc = "trap" =>
             /\ FromGuest(x.regs.num, x.regs.args)
             /\ x.how = "syscall" /\ x.regs.num \in Targets
        /\ Steady /\ x.restoreRewrite => x.regs.pc = "trap"
        /\ Old =>
             /\ x.how = "syscall" => x.restoreRewrite
             /\ x.restoreRewrite /\ x.regs.num = "void" /\ x.regs.pc = "trap" =>
                  x.rewrite.num \in {"stat", "lstat"}
             /\ ~x.restoreRewrite => ~x.sysexitPending
    BY <1>1, <1>2, <2>1, <2>3, SigsysAnswered
  <2>6. AsGuest' /\ AsHost' /\ Refound'
    BY <1>1, <1>3, <1>4, <2>3, <2>5
       DEF AsGuest, AsHost, Refound, FromGuest, InSyscall, Steadfast, Untouched, Held
  <2>7. Saved' /\ Awaited'
    BY <1>1, <2>2, <2>3, <2>4 DEF Saved, Awaited, InSyscall
  <2>8. Steady' => Rewriting'
    BY <1>1, <1>4, <2>3, <2>5 DEF Steady, Rewriting, InSyscall, Untouched, Held
  <2>9. Old' => Delayed'
    BY <1>1, <1>4, <2>3, <2>5 DEF Old, Delayed, InSyscall, Untouched, Held
  <2> QED
    BY <2>6, <2>7, <2>8, <2>9 DEF Paths
<1> QED
  BY <1>3, <1>6 DEF HInv, Steadfast

-----------------------------------------------------------------------------
(* Other signals.                                                           *)

(* A signal is kept back during a chain.                                    *)
LEMMA KeptBack ==
  ASSUME IInv, SignalStop, Chaining(Begin(s))
  PROVE  Untouched(s, s') /\ trace' = "syscall" /\ s'.seccomp = s.seccomp /\ s.chain # None
<1> DEFINE b == Begin(s)
           v == TRUE
           x == [b EXCEPT !.suppressed = v]
<1>1. at = "signal" /\ Restart(x)
  BY DEF SignalStop
<1>2. s \in Tracee
  BY DEF IInv, Types
<1>3. /\ b \in Tracee /\ Staged(s, b) /\ b.how \in Ways
      /\ Chaining(s) => b.how = "syscall"
      /\ Untouched(s, b)
  BY <1>2, BeginFacts, BeginUntouched DEF Staged
<1>4. s.chain # None /\ b.how = "syscall"
  BY <1>3 DEF Staged, Chaining
<1> HIDE DEF b, v
<1>5. v \in BOOLEAN
  BY DEF v
<1>6. x \in Tracee /\ x.how = b.how /\ x.seccomp = b.seccomp /\ Untouched(b, x)
  BY <1>3, <1>5, SetSuppressed, SuppressedUntouched
<1> HIDE DEF x
<1>7. Untouched(x, s') /\ trace' = x.how /\ s'.seccomp = x.seccomp
  <2>1. s' = Restarted(x) /\ x.how \in Ways
    BY <1>1, <1>3, <1>6 DEF Restart
  <2> QED
    BY <1>1, <1>6, <2>1, RestartedUntouched, RestartFacts
<1> QED
  BY <1>3, <1>4, <1>6, <1>7 DEF Untouched, Held, Staged

LEMMA KeepBackPaths ==
  ASSUME IInv, HInv, SignalStop, Chaining(Begin(s))
  PROVE  HInv'
<1>1. /\ at = "signal" /\ at' = "signals"
      /\ UNCHANGED <<host, entryA, sigsys, call, made, frame, mixed>>
  BY DEF SignalStop
<1>2. sigsys = None
  BY <1>1 DEF IInv, Types
<1>3. Steadfast
  BY <1>1, UnchangedSteadfast DEF HInv
<1>4. Untouched(s, s') /\ trace' = "syscall" /\ s'.seccomp = s.seccomp /\ s.chain # None
  BY KeptBack
<1>5. ASSUME Regular' PROVE Paths'
  <2>1. Control /\ Paths
    BY <1>1, <1>4, <1>5, SoFar
  <2>2. Expects(s) /\ Expects(s')
    BY <1>1, <1>4, <2>1 DEF Control, Paired, Expects, Untouched, Held
  <2>3. AsGuest' /\ AsHost' /\ Refound'
    BY <1>1, <1>2, <1>3, <1>4, <2>1, <2>2
       DEF Paths, AsGuest, AsHost, Refound, FromGuest, InSyscall, Steadfast, Untouched, Held
  <2>4. Saved' /\ Awaited'
    BY <1>1, <1>2, <1>4, <2>1, <2>2
       DEF Paths, Saved, Awaited, InSyscall, Untouched, Held
  <2>5. Steady' => Rewriting'
    BY <1>1, <1>4, <2>1, <2>2
       DEF Paths, Steady, Rewriting, InSyscall, Untouched, Held
  <2>6. Old' => Delayed'
    BY <1>1, <1>2, <1>4, <2>1, <2>2
       DEF Paths, Old, Delayed, InSyscall, Untouched, Held
  <2> QED
    BY <2>3, <2>4, <2>5, <2>6 DEF Paths
<1> QED
  BY <1>3, <1>5 DEF HInv, Steadfast

(* Or its handler runs.                                                     *)
LEMMA HandlerRuns ==
  ASSUME IInv, SignalStop, ~Chaining(Begin(s))
  PROVE  /\ s'.status = s.status /\ s'.chain = s.chain /\ s.chain = None
         /\ s'.restoreRewrite = s.restoreRewrite /\ s'.rewrite = s.rewrite
         /\ s'.original = s.original /\ s'.seccomp = s.seccomp
         /\ s'.sysexitPending = s.sysexitPending /\ s'.skip = s.skip
         /\ s'.regs.pc = "after"
         /\ s.seccomp = "enabled" /\ trace' = "syscall" => Necessary(s)
<1> DEFINE b == Begin(s)
           r == NoCall("handler")
           x == [b EXCEPT !.regs = r]
<1>1. at = "signal" /\ Restart(x)
  BY DEF SignalStop
<1>2. s \in Tracee
  BY DEF IInv, Types
<1>3. /\ b \in Tracee /\ Staged(s, b) /\ b.how \in Ways /\ Untouched(s, b)
      /\ s.seccomp = "enabled" /\ b.how = "syscall" => Necessary(s)
  BY <1>2, BeginFacts, BeginUntouched, BeginHow DEF Staged
<1>4. s.chain = None
  BY <1>3 DEF Staged, Chaining
<1>5. r \in Registers /\ r.pc = "after"
  BY NoCallFacts
<1> HIDE DEF b, r
<1>6. Moved(b, x) /\ x.regs = r /\ Kept(b, x)
  BY <1>3, <1>5, SetRegs, SetRegsKept
<1> HIDE DEF x
<1>7. Untouched(x, s') /\ trace' = x.how /\ s'.seccomp = x.seccomp
  <2>1. s' = Restarted(x) /\ x.how \in Ways /\ x \in Tracee
    BY <1>1, <1>3, <1>6 DEF Restart, Moved
  <2> QED
    BY <1>1, <2>1, RestartedUntouched, RestartFacts
<1> QED
  BY <1>3, <1>4, <1>5, <1>6, <1>7 DEF Untouched, Held, Staged, Moved, Kept, Aside

LEMMA HandlerPaths ==
  ASSUME IInv, HInv, SignalStop, ~Chaining(Begin(s))
  PROVE  HInv'
<1>1. /\ at = "signal" /\ at' = "user"
      /\ frame' = [regs |-> s.regs, call |-> None, called |-> FALSE]
      /\ mixed' = (mixed \/ s.restoreRewrite)
      /\ UNCHANGED <<host, entryA, sigsys, call, made>>
  BY DEF SignalStop
<1>2. s.regs \in Registers /\ sigsys = None /\ mixed \in BOOLEAN
  BY <1>1 DEF IInv, Types, Tracee
<1>3. Queried'
  <2>1. frame' \in Frames
    BY <1>1, <1>2 DEF Frames, Registers
  <2> QED
    BY <1>1, <2>1 DEF HInv, Queried
<1>4. /\ s'.status = s.status /\ s'.chain = s.chain /\ s.chain = None
      /\ s'.restoreRewrite = s.restoreRewrite /\ s'.rewrite = s.rewrite
      /\ s'.original = s.original /\ s'.seccomp = s.seccomp
      /\ s'.sysexitPending = s.sysexitPending /\ s'.skip = s.skip
      /\ s'.regs.pc = "after"
      /\ s.seccomp = "enabled" /\ trace' = "syscall" => Necessary(s)
  BY HandlerRuns
<1>5. ASSUME Regular' PROVE Paths'
  <2>1. Control /\ Paths /\ Regular
    BY <1>1, <1>2, <1>4, <1>5, SoFar
  <2>2. ~s.restoreRewrite
    BY <1>1, <1>2, <1>5 DEF Regular
  <2>3. Expects(s) /\ Expects(s')
    BY <1>1, <1>4, <2>1 DEF Control, Paired, Expects
  <2>4. AsGuest' /\ AsHost' /\ Saved' /\ Refound'
    BY <1>1, <1>2, <1>4, <2>3 DEF AsGuest, AsHost, Saved, Refound, InSyscall
  <2>5. Awaited'
    BY <1>1, <1>2, <1>4, <2>1, <2>3 DEF Paths, Awaited, InSyscall
  <2>6. Rewriting'
    BY <1>4, <2>2 DEF Rewriting
  <2>7. Old' => Delayed'
    <3>1. SUFFICES ASSUME Old PROVE Delayed'
      BY <1>1 DEF Old
    <3>2. ~s.sysexitPending
      BY <1>1, <2>1, <2>2, <2>3, <3>1 DEF Paths, Delayed
    <3>3. s.seccomp = "enabled"
      BY <2>1, <3>1 DEF Old, Regular, Unpaired
    <3>4. trace' # "syscall"
      BY <1>4, <2>2, <3>2, <3>3 DEF Necessary, Chaining
    <3> QED
      BY <1>1, <1>2, <1>4, <2>2, <3>2, <3>4 DEF Delayed
  <2> QED
    BY <2>4, <2>5, <2>6, <2>7 DEF Paths
<1> QED
  BY <1>3, <1>5 DEF HInv

-----------------------------------------------------------------------------
(* The invariant.                                                           *)

LEMMA HInvInit ==
  ASSUME Init
  PROVE  HInv
<1>1. /\ at = "user" /\ sigsys = None /\ call = None /\ frame = None
      /\ s.status = "enter" /\ s.chain = None /\ s.restoreRewrite = FALSE
      /\ s.skip = FALSE /\ s.sysexitPending = FALSE
      /\ s.regs = NoCall("top") /\ trace = s.last
      /\ s.last = (IF host.traced THEN "cont" ELSE "syscall")
      /\ s.seccomp = (IF host.traced THEN "enabled" ELSE "disabled")
  BY DEF Init
<1>2. s.regs.pc = "after"
  BY <1>1, NoCallFacts
<1>3. Queried
  BY <1>1 DEF Queried
<1>4. Expects(s)
  BY <1>1 DEF Expects
<1>5. AsGuest /\ AsHost /\ Saved /\ Refound
  BY <1>1, <1>2, <1>4 DEF AsGuest, AsHost, Saved, Refound, InSyscall
<1>6. Awaited /\ Rewriting
  BY <1>1, <1>4 DEF Awaited, Rewriting, InSyscall
<1>7. Old => Delayed
  <2>1. Old => host.traced
    BY SyscallsAssumption DEF Init, Old, AllHosts
  <2> QED
    BY <1>1, <1>2, <2>1 DEF Delayed, InSyscall
<1> QED
  BY <1>3, <1>5, <1>6, <1>7 DEF HInv, Paths

LEMMA HInvNext ==
  ASSUME IInv, HInv, [Next]_vars
  PROVE  HInv'
<1>1. ASSUME NEW kind \in Kinds \cup LaterKinds, Call(kind) PROVE HInv'
  BY <1>1, CallPaths
<1>2. ASSUME NEW kind \in HandlerKinds, HandlerCall(kind) PROVE HInv'
  BY <1>2, HandlerCallPaths
<1>3. CASE Return
  BY <1>3, ReturnPaths
<1>4. CASE Sigreturn
  BY <1>4, SigreturnPaths
<1>5. CASE Retrap
  BY <1>5, RetrapPaths
<1>6. CASE Kernel
  BY <1>6, EntryPaths, PassedPaths, TrappedPaths, ExecPaths, LeavePaths, SignalsPaths
     DEF Kernel
<1>7. CASE SyscallStop
  BY <1>7, SyscallStopPaths
<1>8. CASE SeccompStop
  BY <1>8, SeccompStopPaths
<1>9. CASE SigsysStop
  BY <1>9, SigsysStopPaths
<1>10. CASE SignalStop
  BY <1>10, KeepBackPaths, HandlerPaths
<1>11. CASE Kill
  BY <1>11, KillPaths
<1>12. CASE UNCHANGED vars
  BY <1>12, BetweenPaths DEF vars
<1> QED
  BY <1>1, <1>2, <1>3, <1>4, <1>5, <1>6, <1>7, <1>8, <1>9, <1>10, <1>11, <1>12
     DEF Next, GuestStep, Proot

LEMMA PathsInvariant == Spec => []HInv
<1>1. Init => HInv
  BY HInvInit
<1>2. IInv /\ HInv /\ [Next]_vars => HInv'
  BY HInvNext
<1> QED
  BY <1>1, <1>2, Invariant, PTL DEF Spec

(* The kernel never runs a call on a path as the guest wrote it, which      *)
(* would leave the root of the guest, nor on one that enter.c translated    *)
(* twice: whether the call was stopped at its entry, at its seccomp event   *)
(* or at both, rewritten after SIGSYS and made again, chained, or repaired   *)
(* because its number could not be set.  The calls of a handler that ran    *)
(* between a rewriting and the execution are the exception Regular names.   *)
THEOREM PathsCorrect == Spec => []HostPathsOnly
<1>1. HInv => HostPathsOnly
  <2>1. SUFFICES ASSUME HInv, at = "exec", s.nr # "void", s.regs.args[2] # Bad, Regular,
                        NEW path \in PathArgs(s.nr, s.regs.args)
                 PROVE  s.regs.args[path[1]][1] = "host"
    BY DEF HostPathsOnly
  <2>2. Ready(s.nr, s.regs.args)
    BY <2>1 DEF HInv, Paths, AsHost
  <2>3. Hosted(s.nr, s.regs.args)
    BY <2>1, <2>2 DEF Ready
  <2>4. path[1] \in Places(s.nr)
    BY PlacesOf
  <2> QED
    BY <2>3, <2>4 DEF Hosted
<1> QED
  BY <1>1, PathsInvariant, PTL

-----------------------------------------------------------------------------
(* How many stops a call takes.                                             *)

(* The calls PRoot may have the thread make again: the policy forbids them,  *)
(* brk changes its number, the kernel may lack utime.                       *)
Repeated == Legacy \cup {"brk", "utime"}

(* A call is being made, or SIGSYS is to come for it.                       *)
InPass == at \in InSyscall \cup {"exec", "leave", "exit"} \/ sigsys # None

(* The return from a handler is none of the calls the guest waits for.      *)
Resuming == s.nr = "rt_sigreturn" /\ sigsys = None

(* The call whose stops come, as it was made, and whether PRoot may have it  *)
(* made again.                                                              *)
Given == IF ~Expects(s) THEN s.original.num ELSE IF sigsys # None THEN sigsys ELSE s.nr

MayRepeat == IF s.chain = None THEN Given \in Repeated ELSE s.chain # <<>>

Again == s.regs.pc = "trap" \/ (InPass /\ ~Resuming /\ MayRepeat)

(* The stops that may come before the thread is back in the guest.          *)
Forbids == IF sigsys # None THEN 1 ELSE 0

StopsLeft ==
  CASE at = "entry" -> 3
    [] at = "enter" -> IF host.order = "new" THEN 3 ELSE 2
    [] at \in {"filter", "seccomp"} -> IF host.order = "new" THEN 2 ELSE 3
    [] at = "exec" -> 1
    [] at \in {"leave", "exit"} -> IF Resuming THEN 0 ELSE 1 + Forbids
    [] OTHER -> Forbids

(* A call that may be made again has three stops, then three more: one a     *)
(* handler interrupted has had all that remained before it.                 *)
InBudget ==
  /\ Current # None /\ Known(Current) =>
       Current.stops + StopsLeft <= IF Again THEN 3 ELSE MaxStops
  /\ call # None /\ Known(call) => call.stops <= MaxStops

(* A chain ends with the call made again, and SIGSYS is for a forbidden one. *)
OnceMore ==
  /\ s.regs.pc = "trap" /\ s.chain # None => s.chain = <<>>
  /\ sigsys # None => sigsys \in Legacy \cup {"void"}
  /\ Resuming /\ ~Expects(s) /\ at \in {"exec", "leave", "exit"} =>
       s.original.num = "rt_sigreturn"

(* On a kernel that reports an event first, only stat and lstat become a     *)
(* call that has no number.                                                 *)
Nameless == {"stat", "lstat", "void"}

Numberless ==
  host.order = "old" /\ Current # None /\ Current.kind \notin {"stat", "lstat"} =>
    /\ sigsys # "void"
    /\ s.regs.pc = "trap" => s.regs.num # "void"
    /\ Expects(s) /\ (at \in InSyscall \/ sigsys # None) => s.regs.num \notin Nameless

TInv == Regular => InBudget /\ OnceMore /\ Numberless

(* The call in progress goes on, with at most n more stops.                 *)
CallsOn(n) ==
  /\ Queried' /\ (Current' = None <=> Current = None)
  /\ Current # None => Current'.kind = Current.kind /\ Current'.stops <= Current.stops + n
  /\ frame' = None <=> frame = None
  /\ frame # None => call' = call

LEMMA StopsTyped == StopsLeft \in Nat /\ StopsLeft' \in Nat
BY DEF StopsLeft, Forbids

LEMMA CurrentTyped ==
  ASSUME Queried
  PROVE  Current \in Asking \cup {None} /\ (Current # None => Current.stops \in Nat)
BY DEF Queried, Current, Frames, Asking

LEMMA StopsAdd ==
  \A c1, c2, r1, r2, n, b, d \in Nat :
    c2 <= c1 + n /\ r2 + n <= r1 /\ c1 + r1 <= b /\ b <= d => c2 + r2 <= d
OBVIOUS

LEMMA NoneAdded == \A r1, r2 \in Nat : r2 <= r1 => r2 + 0 <= r1
OBVIOUS

(* A step that adds n stops takes them from those that may come.             *)
LEMMA BudgetKept ==
  ASSUME Queried, InBudget, host' = host, NEW n \in Nat, CallsOn(n),
         Current # None /\ Known(Current) => (Again' => Again) /\ StopsLeft' + n <= StopsLeft
  PROVE  InBudget'
<1>1. StopsLeft \in Nat /\ StopsLeft' \in Nat
  BY StopsTyped
<1>2. Current # None => Current.stops \in Nat
  BY CurrentTyped
<1>3. Current' # None => Current'.stops \in Nat
  BY DEF CallsOn, Queried, Current, Frames, Asking
<1>4. Known(Current)' /\ Current' # None => Known(Current) /\ Current # None
  BY DEF Known, CallsOn
<1>5. Current' # None /\ Known(Current)' =>
        Current'.stops + StopsLeft' <= IF Again' THEN 3 ELSE MaxStops
  <2>1. SUFFICES ASSUME Current' # None, Known(Current)'
                 PROVE  Current'.stops + StopsLeft' <= IF Again' THEN 3 ELSE MaxStops
    OBVIOUS
  <2>2. Current # None /\ Current.stops + StopsLeft <= IF Again THEN 3 ELSE MaxStops
    BY <1>4, <2>1 DEF InBudget
  <2>3. Current'.stops <= Current.stops + n /\ StopsLeft' + n <= StopsLeft
    BY <1>4, <2>1, <2>2 DEF CallsOn
  <2>4. Again' => Again
    BY <1>4, <2>1
  <2> DEFINE b == IF Again THEN 3 ELSE MaxStops
             d == IF Again' THEN 3 ELSE MaxStops
  <2>5. b \in Nat /\ d \in Nat /\ b <= d
    BY <2>4 DEF MaxStops
  <2>6. Current.stops + StopsLeft <= b
    BY <2>2
  <2> HIDE DEF b, d
  <2>7. Current.stops \in Nat /\ Current'.stops \in Nat
    BY <1>2, <1>3, <2>1, <2>2
  <2>8. Current'.stops + StopsLeft' <= d
    BY <1>1, <2>3, <2>5, <2>6, <2>7, StopsAdd
  <2> QED
    BY <2>8 DEF d
<1>6. call' # None /\ Known(call)' => call'.stops <= MaxStops
  <2>1. CASE frame = None
    <3>1. Current' = call' /\ (Known(Current)' <=> Known(call)')
      BY <2>1 DEF CallsOn, Current, Known
    <3> QED
      BY <1>1, <1>3, <1>5, <3>1 DEF MaxStops
  <2>2. CASE frame # None
    BY <2>2 DEF CallsOn, InBudget, Known
  <2> QED
    BY <2>1, <2>2
<1> QED
  BY <1>5, <1>6 DEF InBudget

LEMMA CallsOnSame ==
  ASSUME Queried, UNCHANGED <<call, frame>>
  PROVE  CallsOn(0)
<1>1. Current' = Current
  BY DEF Current
<1>2. Current # None => Current.stops \in Nat
  BY CurrentTyped
<1> QED
  BY <1>1, <1>2 DEF CallsOn, Queried

(* y is the call x with at most n more stops.                               *)
Later(x, y, n) ==
  /\ y \in Asking \cup {None}
  /\ y = None <=> x = None
  /\ x # None => y.kind = x.kind /\ y.stops <= x.stops + n

LEMMA LaterCalls ==
  ASSUME Queried, NEW n \in Nat,
         IF frame = None THEN Later(call, call', n) /\ frame' = frame
         ELSE \E c : Later(frame.call, c, n) /\ frame' = [frame EXCEPT !.call = c] /\ call' = call
  PROVE  CallsOn(n)
<1>1. CASE frame = None
  BY <1>1 DEF CallsOn, Queried, Later, Current
<1>2. CASE frame # None
  <2>1. PICK c : Later(frame.call, c, n) /\ frame' = [frame EXCEPT !.call = c] /\ call' = call
    BY <1>2
  <2>2. frame \in Frames /\ c \in Asking \cup {None}
    BY <1>2, <2>1 DEF Queried, Later
  <2>3. frame' \in Frames /\ frame'.call = c /\ frame' # None
    BY <2>1, <2>2, FramesCall
  <2> QED
    BY <1>2, <2>1, <2>3 DEF Queried, CallsOn, Later, Current
<1> QED
  BY <1>1, <1>2

LEMMA StopLater ==
  ASSUME NEW c \in Asking \cup {None}
  PROVE  LET d == IF c = None \/ s.nr = "rt_sigreturn" \/ c.stops > MaxStops THEN c
                  ELSE [c EXCEPT !.stops = @ + 1]
         IN  Later(c, d, 1) /\ (s.nr = "rt_sigreturn" => Later(c, d, 0))
<1> DEFINE n == c.stops + 1
           d == [c EXCEPT !.stops = n]
<1>1. CASE c = None \/ s.nr = "rt_sigreturn" \/ c.stops > MaxStops
  BY <1>1 DEF Later, Asking
<1>2. CASE ~(c = None \/ s.nr = "rt_sigreturn" \/ c.stops > MaxStops)
  <2>1. c \in Asking /\ n \in Nat
    BY <1>2 DEF Asking
  <2>2. [c EXCEPT !.stops = @ + 1] = d
    OBVIOUS
  <2>3. n <= c.stops + 1
    BY <2>1 DEF Asking
  <2> HIDE DEF n
  <2>4. d \in Asking /\ d.kind = c.kind /\ d.stops = n
    BY <2>1, Zenon DEF Asking
  <2> HIDE DEF d
  <2> QED
    BY <1>2, <2>1, <2>2, <2>3, <2>4, SyscallsAssumption DEF Later
<1> QED
  BY <1>1, <1>2

LEMMA StopCounts ==
  ASSUME Queried, CountStop
  PROVE  CallsOn(1) /\ (s.nr = "rt_sigreturn" => CallsOn(0))
<1>1. CASE frame = None
  <2>1. frame' = frame /\ Later(call, call', 1)
        /\ (s.nr = "rt_sigreturn" => Later(call, call', 0))
    BY <1>1, StopLater DEF CountStop, Queried
  <2> QED
    BY <1>1, <2>1, LaterCalls
<1>2. CASE frame # None
  <2> DEFINE a == frame.call
             c == IF a = None \/ s.nr = "rt_sigreturn" \/ a.stops > MaxStops THEN a
                  ELSE [a EXCEPT !.stops = @ + 1]
  <2>1. frame' = [frame EXCEPT !.call = c] /\ call' = call
    BY <1>2 DEF CountStop
  <2>2. Later(frame.call, c, 1) /\ (s.nr = "rt_sigreturn" => Later(frame.call, c, 0))
    BY <1>2, StopLater DEF Queried, Frames
  <2> HIDE DEF c
  <2> QED
    BY <1>2, <2>1, <2>2, LaterCalls
<1> QED
  BY <1>1, <1>2

LEMMA SoTimely ==
  ASSUME IInv, HInv, TInv, host' = host, mixed => mixed',
         s'.seccomp = "enabled" => s.seccomp = "enabled", Regular'
  PROVE  Control /\ Paths /\ Regular /\ InBudget /\ OnceMore /\ Numberless
BY SoFar DEF TInv

-----------------------------------------------------------------------------
(* The kernel goes on with a call, without a change of the registers.       *)

LEMMA ResumingCall ==
  ASSUME Control, Paths, Resuming, ~Expects(s), at \in InSyscall
  PROVE  s.original.num = "rt_sigreturn"
<1>1. s.nr \notin Heap \cup {"brk", "void"}
  BY DEF Resuming, Heap
<1>2. s.chain = None
  BY <1>1 DEF Control, ChainSafe
<1> QED
  BY <1>1, <1>2 DEF Paths, Saved, Resuming

LEMMA KernelTimely ==
  ASSUME IInv, HInv, TInv, UNCHANGED <<host, s, sigsys, call, frame, mixed>>,
         InPass' => InPass,
         at' \in InSyscall => at \in InSyscall,
         at' \in {"exec", "leave", "exit"} => at \in InSyscall \cup {"exec", "leave", "exit"},
         StopsLeft' <= StopsLeft
  PROVE  TInv'
<1> SUFFICES ASSUME Regular' PROVE InBudget' /\ OnceMore' /\ Numberless'
  BY DEF TInv
<1>1. Control /\ Paths /\ InBudget /\ OnceMore /\ Numberless
  BY SoTimely
<1>2. InBudget'
  <2>1. CallsOn(0) /\ Queried
    BY CallsOnSame DEF HInv
  <2>2. Again' => Again
    BY DEF Again, Resuming, MayRepeat, Given, Expects
  <2>3. StopsLeft' + 0 <= StopsLeft
    BY StopsTyped, NoneAdded
  <2> QED
    BY <1>1, <2>1, <2>2, <2>3, BudgetKept
<1>3. OnceMore'
  <2>1. Resuming' /\ ~Expects(s)' /\ at' \in {"exec", "leave", "exit"} =>
          s'.original.num = "rt_sigreturn"
    BY <1>1, ResumingCall DEF OnceMore, Resuming, Expects
  <2> QED
    BY <1>1, <2>1 DEF OnceMore
<1>4. Numberless'
  BY <1>1 DEF Numberless, Current, Expects
<1> QED
  BY <1>2, <1>3, <1>4

LEMMA EntryTimely ==
  ASSUME IInv, HInv, TInv, Entry
  PROVE  TInv'
<1>1. /\ at = "entry"
      /\ at' = IF host.order = "new" /\ trace = "syscall" THEN "enter" ELSE "filter"
      /\ UNCHANGED <<host, s, sigsys, call, frame, mixed>>
  BY DEF Entry
<1>2. StopsLeft' <= StopsLeft
  BY <1>1 DEF StopsLeft
<1> QED
  BY <1>1, <1>2, KernelTimely DEF InPass, InSyscall

LEMMA LeaveTimely ==
  ASSUME IInv, HInv, TInv, Leave
  PROVE  TInv'
<1>1. /\ at = "leave" /\ at' = IF trace = "syscall" THEN "exit" ELSE "signals"
      /\ UNCHANGED <<host, s, sigsys, call, frame, mixed>>
  BY DEF Leave
<1>2. StopsLeft' <= StopsLeft
  BY <1>1 DEF StopsLeft, Forbids, Resuming
<1> QED
  BY <1>1, <1>2, KernelTimely DEF InPass, InSyscall

LEMMA SignalsTimely ==
  ASSUME IInv, HInv, TInv, Signals
  PROVE  TInv'
<1>1. /\ at = "signals" /\ at' \in {"SIGSYS", "signal", "user"}
      /\ UNCHANGED <<host, s, sigsys, call, frame, mixed>>
  BY DEF Signals
<1>2. StopsLeft' <= StopsLeft
  BY <1>1 DEF StopsLeft, Forbids
<1> QED
  BY <1>1, <1>2, KernelTimely DEF InPass, InSyscall

LEMMA KillTimely ==
  ASSUME IInv, HInv, TInv, Kill
  PROVE  TInv'
<1>1. /\ at' = IF at = "user" THEN "signals" ELSE at
      /\ UNCHANGED <<host, s, sigsys, call, frame, mixed>>
  BY DEF Kill
<1>2. CASE at = "user"
  <2>1. StopsLeft' <= StopsLeft
    BY <1>1, <1>2 DEF StopsLeft, Forbids
  <2> QED
    BY <1>1, <1>2, <2>1, KernelTimely DEF InPass, InSyscall
<1>3. CASE at # "user"
  <2>1. at' = at
    BY <1>1, <1>3
  <2>2. StopsLeft' <= StopsLeft
    <3>1. StopsLeft' = StopsLeft
      BY <1>1, <2>1 DEF StopsLeft, Forbids, Resuming
    <3> QED
      BY <3>1, StopsTyped
  <2> QED
    BY <1>1, <2>1, <2>2, KernelTimely DEF InPass
<1> QED
  BY <1>2, <1>3

LEMMA PassedTimely ==
  ASSUME IInv, HInv, TInv, Filter, ~Trapped(s.nr)
  PROVE  TInv'
<1>1. /\ at = "filter"
      /\ at' = IF host.traced /\ s.nr \in Filtered THEN "seccomp" ELSE AfterFilter
      /\ UNCHANGED <<host, s, trace, sigsys, call, frame, mixed>>
  BY DEF Filter
<1>2. /\ at' \in {"seccomp", "enter", "exec"}
      /\ at' = "enter" => host.order = "old"
  BY <1>1 DEF AfterFilter
<1>3. StopsLeft' <= StopsLeft
  BY <1>1, <1>2 DEF StopsLeft
<1> QED
  BY <1>1, <1>2, <1>3, KernelTimely DEF InPass, InSyscall

-----------------------------------------------------------------------------
(* The guest makes a call, its own or one PRoot has it make.                *)

LEMMA EnteredTimely ==
  ASSUME IInv, HInv, TInv, NEW regs \in Registers, Enters(regs), at = "user",
         UNCHANGED <<host, sigsys>>, mixed => mixed', Regular'
  PROVE  /\ Control /\ Paths /\ InBudget /\ OnceMore /\ Numberless
         /\ Expects(s') /\ sigsys = None /\ s'.chain = s.chain /\ at' = "entry"
         /\ s'.nr = regs.num /\ s'.regs.num = regs.num /\ s'.regs.pc = "after"
         /\ OnceMore'
<1>1. Types
  BY DEF IInv
<1>2. /\ Moved(s, s')
      /\ s'.regs.pc = "after" /\ s'.regs.num = regs.num /\ s'.nr = regs.num
      /\ at' = "entry"
  BY <1>1, EntersFacts
<1>3. sigsys = None
  BY <1>1 DEF Types
<1>4. Control /\ Paths /\ InBudget /\ OnceMore /\ Numberless
  BY <1>2, SoTimely DEF Moved
<1>5. Expects(s') /\ s'.chain = s.chain
  BY <1>2, <1>4 DEF Control, Paired, Expects, Moved
<1>6. OnceMore'
  BY <1>2, <1>3, <1>5 DEF OnceMore
<1> QED
  BY <1>2, <1>3, <1>4, <1>5, <1>6

LEMMA AskedFacts ==
  ASSUME NEW kind \in AllKinds, NEW refused
  PROVE  Asked(kind, refused).kind = kind /\ Asked(kind, refused).stops = 0
BY DEF Asked

LEMMA NewCallTimely ==
  ASSUME Types, NEW kind \in AllKinds, Current' # None,
         Current'.kind = kind, Current'.stops = 0,
         frame' = None => call' = Current', frame' # None => call' = call, host' = host,
         InBudget, at' = "entry", s'.regs.num = kind, s'.regs.pc = "after", sigsys' = None
  PROVE  InBudget' /\ Numberless'
<1>1. StopsLeft' = 3 /\ 0 + 3 <= 3 /\ 0 + 3 <= MaxStops /\ 0 <= MaxStops
  BY DEF StopsLeft, MaxStops
<1>2. Current'.stops + StopsLeft' <= IF Again' THEN 3 ELSE MaxStops
  BY <1>1
<1>3. call' # None /\ Known(call)' => call'.stops <= MaxStops
  <2>1. frame' = None => call'.stops <= MaxStops
    BY <1>1
  <2>2. frame' # None => (call' # None /\ Known(call)' => call'.stops <= MaxStops)
    BY DEF InBudget, Known
  <2> QED
    BY <2>1, <2>2
<1>4. InBudget'
  BY <1>2, <1>3 DEF InBudget
<1>5. None # "void" /\ kind # "void"
  BY SyscallsAssumption DEF Numbers, AllKinds, Legacy
<1>6. Numberless'
  BY <1>5 DEF Numberless, Nameless
<1> QED
  BY <1>4, <1>6

LEMMA CallTimely ==
  ASSUME IInv, HInv, TInv, NEW kind \in Kinds \cup LaterKinds, Call(kind)
  PROVE  TInv'
<1> DEFINE regs == [NoCall(s.regs.sp) EXCEPT !.num = kind]
<1>1. kind \in AllKinds /\ kind \in Number
  BY SyscallsAssumption DEF Number, Numbers
<1>2. s.regs.sp \in {"top", "handler", "scratch"} /\ Types
  BY DEF IInv, Types, Tracee, Registers
<1>3. regs \in Registers /\ regs.num = kind
  BY <1>1, <1>2, FreshGuests
<1>4. Enters(regs)
  BY DEF Call
<1> HIDE DEF regs
<1>5. at = "user" /\ frame = None /\ UNCHANGED <<host, sigsys, mixed, frame>>
  BY DEF Call, InUser
<1>6. PICK refused \in Refusals(kind) : call' = Asked(kind, refused)
  BY DEF Call
<1>7. call' # None /\ call'.kind = kind /\ call'.stops = 0
  BY <1>1, <1>6, AskedTyped, AskedFacts, SyscallsAssumption
<1> SUFFICES ASSUME Regular' PROVE InBudget' /\ OnceMore' /\ Numberless'
  BY DEF TInv
<1>8. /\ InBudget /\ sigsys = None /\ at' = "entry"
      /\ s'.regs.num = regs.num /\ s'.regs.pc = "after" /\ OnceMore'
  BY <1>3, <1>4, <1>5, EnteredTimely
<1>9. Current' = call'
  BY <1>5 DEF Current
<1> QED
  BY <1>1, <1>2, <1>3, <1>5, <1>7, <1>8, <1>9, NewCallTimely

LEMMA HandlerCallTimely ==
  ASSUME IInv, HInv, TInv, NEW kind \in HandlerKinds, HandlerCall(kind)
  PROVE  TInv'
<1> DEFINE regs == [NoCall(s.regs.sp) EXCEPT !.num = kind]
<1>1. kind \in AllKinds /\ kind \in Number
  BY SyscallsAssumption DEF Number, Numbers
<1>2. s.regs.sp \in {"top", "handler", "scratch"} /\ Types
  BY DEF IInv, Types, Tracee, Registers
<1>3. regs \in Registers /\ regs.num = kind
  BY <1>1, <1>2, FreshGuests
<1>4. Enters(regs)
  BY DEF HandlerCall
<1> HIDE DEF regs
<1>5. at = "user" /\ frame # None /\ UNCHANGED <<host, sigsys, mixed, call>>
  BY DEF HandlerCall, InUser
<1>6. PICK refused \in Refusals(kind) :
        frame' = [frame EXCEPT !.call = Asked(kind, refused), !.called = TRUE]
  BY DEF HandlerCall
<1>7. frame' # None /\ frame'.call # None /\ frame'.call.kind = kind /\ frame'.call.stops = 0
  <2> DEFINE c == Asked(kind, refused)
             g == [frame EXCEPT !.call = c, !.called = TRUE]
  <2>1. frame \in Frames /\ c \in Asking \cup {None}
    BY <1>1, <1>5, AskedTyped DEF HInv, Queried
  <2>2. c # None /\ c.kind = kind /\ c.stops = 0 /\ frame' = g
    BY <1>1, <1>6, AskedTyped, AskedFacts, SyscallsAssumption
  <2> HIDE DEF c
  <2>3. g \in Frames /\ g.call = c
    BY <2>1, Zenon DEF Frames
  <2> HIDE DEF g
  <2> QED
    BY <2>2, <2>3, SyscallsAssumption
<1> SUFFICES ASSUME Regular' PROVE InBudget' /\ OnceMore' /\ Numberless'
  BY DEF TInv
<1>8. /\ InBudget /\ sigsys = None /\ at' = "entry"
      /\ s'.regs.num = regs.num /\ s'.regs.pc = "after" /\ OnceMore'
  BY <1>3, <1>4, <1>5, EnteredTimely
<1>9. Current' = frame'.call
  BY <1>7 DEF Current
<1> QED
  BY <1>1, <1>2, <1>3, <1>5, <1>7, <1>8, <1>9, NewCallTimely

LEMMA SigreturnTimely ==
  ASSUME IInv, HInv, TInv, Sigreturn
  PROVE  TInv'
<1> DEFINE b == s.regs
           n == "rt_sigreturn"
           regs == [b EXCEPT !.num = n]
<1>1. b \in Registers /\ n \in Number
  BY DEF IInv, Types, Tracee, Number, Numbers
<1>2. Enters(regs)
  BY DEF Sigreturn
<1> HIDE DEF b, n
<1>3. regs \in Registers
  BY <1>1, NumFields
<1> HIDE DEF regs
<1>4. at = "user" /\ UNCHANGED <<host, sigsys, call, frame>> /\ (mixed => mixed')
  BY DEF Sigreturn, InUser
<1>5. Current = None /\ CallsOn(0) /\ Queried
  BY <1>4, CallsOnSame DEF Sigreturn, HInv, Current
<1> SUFFICES ASSUME Regular' PROVE InBudget' /\ OnceMore' /\ Numberless'
  BY DEF TInv
<1>6. InBudget /\ OnceMore'
  BY <1>2, <1>3, <1>4, EnteredTimely
<1>7. InBudget'
  BY <1>4, <1>5, <1>6, BudgetKept
<1>8. Numberless'
  BY <1>5 DEF Numberless, CallsOn
<1> QED
  BY <1>6, <1>7, <1>8

LEMMA StopsAgain ==
  \A c \in Nat : c <= 3 => c + 3 <= 6 /\ c <= 6
OBVIOUS

(* The call is made again, once: it was stopped three times at most.         *)
LEMMA RetrapTimely ==
  ASSUME IInv, HInv, TInv, Retrap
  PROVE  TInv'
<1>1. s.regs \in Registers /\ Enters(s.regs) /\ at = "user" /\ s.regs.pc = "trap"
  BY DEF Retrap, IInv, Types, Tracee
<1>2. UNCHANGED <<host, sigsys, mixed, call, frame>>
  BY DEF Retrap
<1> SUFFICES ASSUME Regular' PROVE InBudget' /\ OnceMore' /\ Numberless'
  BY DEF TInv
<1>3. /\ Control /\ Paths /\ InBudget /\ OnceMore /\ Numberless
      /\ Expects(s') /\ sigsys = None /\ s'.chain = s.chain /\ at' = "entry"
      /\ s'.nr = s.regs.num /\ s'.regs.num = s.regs.num /\ s'.regs.pc = "after"
      /\ OnceMore'
  BY <1>1, <1>2, EnteredTimely
<1>4. s.chain = None => s.regs.num \in Targets
  BY <1>1, <1>3 DEF Paths, AsGuest
<1>5. s.regs.num \notin {"stat", "lstat"}
  <2>1. s.chain # None => s.regs.num \in Heap
    BY <1>1, <1>3 DEF Control, ChainSafe
  <2> QED
    BY <1>4, <2>1 DEF Heap, Targets
<1>6. ~Again'
  <2>1. s.chain # None => s.chain = <<>>
    BY <1>1, <1>3 DEF OnceMore
  <2>2. s.chain = None => s.regs.num \notin Repeated
    BY <1>4, TargetsFacts DEF Repeated, Targets
  <2>3. Given' = s.regs.num
    BY <1>2, <1>3 DEF Given
  <2>4. ~MayRepeat'
    BY <1>3, <2>1, <2>2, <2>3 DEF MayRepeat
  <2> QED
    BY <1>3, <2>4 DEF Again
<1>7. InBudget'
  <2>1. StopsLeft = 0 /\ StopsLeft' = 3
    BY <1>1, <1>3 DEF StopsLeft, Forbids
  <2>2. Current' = Current /\ (Known(Current)' <=> Known(Current))
    BY <1>2 DEF Current, Known
  <2>3. Current # None /\ Known(Current) => Current.stops <= 3 /\ Current.stops \in Nat
    <3>1. Current # None /\ Known(Current) => Current.stops + 0 <= 3
      BY <1>1, <1>3, <2>1 DEF InBudget, Again
    <3>2. Current # None => Current.stops \in Nat
      BY CurrentTyped DEF HInv
    <3>3. \A c \in Nat : c + 0 <= 3 => c <= 3
      OBVIOUS
    <3> QED
      BY <3>1, <3>2, <3>3
  <2>4. Current' # None /\ Known(Current)' => Current'.stops + 3 <= 6
    BY <2>2, <2>3, StopsAgain
  <2>5. call' # None /\ Known(call)' => call'.stops <= MaxStops
    BY <1>2, <1>3 DEF InBudget, Known
  <2> QED
    BY <1>6, <2>1, <2>4, <2>5 DEF InBudget, MaxStops
<1>8. Numberless'
  BY <1>1, <1>2, <1>3, <1>5 DEF Numberless, Nameless, Current
<1> QED
  BY <1>3, <1>7, <1>8

LEMMA ReturnTimely ==
  ASSUME IInv, HInv, TInv, Return
  PROVE  TInv'
<1>1. at = "user" /\ UNCHANGED <<host, s, at, sigsys, mixed>>
  BY DEF Return, InUser
<1>2. Current' = None /\ (call' = None \/ call' = call)
  <2>1. CASE frame = None
    BY <2>1 DEF Return, Current
  <2>2. CASE frame # None
    <3>1. frame' = [frame EXCEPT !.call = None] /\ call' = call /\ frame \in Frames
      BY <2>2 DEF Return, HInv, Queried
    <3>2. frame' # None /\ frame'.call = None
      BY <3>1, FramesCall
    <3> QED
      BY <3>1, <3>2 DEF Current
  <2> QED
    BY <2>1, <2>2
<1> SUFFICES ASSUME Regular' PROVE InBudget' /\ OnceMore' /\ Numberless'
  BY DEF TInv
<1>3. InBudget /\ OnceMore
  BY <1>1, SoTimely
<1>4. InBudget' /\ Numberless'
  BY <1>1, <1>2, <1>3 DEF InBudget, Numberless, Known
<1>5. OnceMore'
  BY <1>1, <1>3 DEF OnceMore, Resuming, Expects
<1> QED
  BY <1>4, <1>5

-----------------------------------------------------------------------------
(* The policy forbids the call, or the kernel runs it.                      *)

LEMMA TrappedTimely ==
  ASSUME IInv, HInv, TInv, Filter, Trapped(s.nr)
  PROVE  TInv'
<1>1. /\ at = "filter" /\ sigsys' = s.nr
      /\ at' = IF host.skipsExit THEN "signals" ELSE "leave"
      /\ UNCHANGED <<host, call, frame, mixed>>
  BY DEF Filter
<1>2. /\ Moved(s, s') /\ Kept(s, s') /\ s'.nr = s.nr
      /\ s'.regs.num = s.regs.num /\ s'.regs.pc = s.regs.pc
  BY TrappedMoves DEF IInv
<1>3. host.policy /\ s.nr \in Legacy \cup {"void"} /\ sigsys = None
  BY <1>1 DEF Trapped, IInv, Types
<1>4. s.nr # None /\ s.nr # "rt_sigreturn"
  BY <1>3, SyscallsAssumption DEF Numbers, AllKinds, Legacy
<1> SUFFICES ASSUME Regular' PROVE InBudget' /\ OnceMore' /\ Numberless'
  BY DEF TInv
<1>5. Control /\ Paths /\ InBudget /\ OnceMore /\ Numberless
  BY <1>1, <1>2, SoTimely DEF Moved
<1>6. s.regs.pc # "trap"
  BY <1>1, <1>5 DEF Control, Retrapped
<1>7. InBudget'
  <2>1. Queried /\ CallsOn(0)
    BY <1>1, CallsOnSame DEF HInv
  <2>2. Again' => Again
    <3>1. Given' = Given
      BY <1>1, <1>2, <1>3, <1>4 DEF Given, Expects, Moved, Kept
    <3>2. MayRepeat' => MayRepeat
      BY <1>2, <3>1 DEF MayRepeat, Moved
    <3> QED
      BY <1>1, <1>2, <1>4, <1>6, <3>2 DEF Again, InPass, InSyscall, Resuming
  <2>3. StopsLeft' <= StopsLeft
    BY <1>1, <1>4 DEF StopsLeft, Forbids, Resuming
  <2>4. StopsLeft' + 0 <= StopsLeft
    BY <2>3, StopsTyped, NoneAdded
  <2> QED
    BY <1>1, <1>5, <2>1, <2>2, <2>4, BudgetKept
<1>8. OnceMore'
  BY <1>1, <1>2, <1>3, <1>4, <1>6 DEF OnceMore, Resuming
<1>9. Numberless'
  <2>1. SUFFICES ASSUME host.order = "old", Current # None, Current.kind \notin {"stat", "lstat"}
                 PROVE  s.nr \notin Nameless /\ s.regs.num \notin Nameless
    BY <1>1, <1>2, <1>6 DEF Numberless, Nameless, Current
  <2>2. Expects(s) /\ s.regs.num = s.nr
    BY <1>1, <1>5, <2>1 DEF Control, Paired, Numbered, InSyscall
  <2> QED
    BY <1>1, <1>5, <2>1, <2>2 DEF Numberless, InSyscall
<1> QED
  BY <1>7, <1>8, <1>9

LEMMA CountedLater ==
  ASSUME NEW c \in Asking \cup {None}, s \in Tracee
  PROVE  Later(c, Counted(c), 0)
<1>1. c # None => c.stops \in Nat
  BY DEF Asking
<1>2. Counted(c) \in Asking \cup {None} /\ (Counted(c) = None <=> c = None)
  BY CountedSame DEF SameCall
<1>3. c # None => Counted(c).kind = c.kind /\ Counted(c).stops = c.stops
  <2> DEFINE e == Append(c.effects, Effect(s.nr, s.regs.args))
             d == [c EXCEPT !.effects = e]
  <2>1. Counted(c) = c \/ Counted(c) = d
    BY DEF Counted
  <2> HIDE DEF e
  <2>2. c # None => d.kind = c.kind /\ d.stops = c.stops
    BY Zenon DEF Asking
  <2> HIDE DEF d
  <2> QED
    BY <2>1, <2>2
<1> QED
  BY <1>1, <1>2, <1>3 DEF Later

LEMMA ExecCalls ==
  ASSUME IInv, HInv, Exec
  PROVE  /\ s'.nr = s.nr
         /\ s.nr # "rt_sigreturn" => CallsOn(0)
         /\ s.nr = "rt_sigreturn" => frame' = None /\ call' = call
<1>1. s \in Tracee /\ s.regs \in Registers /\ Queried
  BY DEF IInv, Types, Tracee, HInv
<1>2. s'.nr = s.nr
  <2>1. \/ s' = s \/ s' = [s EXCEPT !.regs = frame.regs]
        \/ s' = [s EXCEPT !.regs.args[1] = Value(Result)]
    BY DEF Exec
  <2> QED
    BY <1>1, <2>1, Zenon DEF Tracee
<1>3. CASE s.nr = "void"
  BY <1>1, <1>2, <1>3, CallsOnSame DEF Exec
<1>4. CASE s.nr # "void" /\ s.nr = "rt_sigreturn"
  BY <1>2, <1>4 DEF Exec
<1>5. CASE s.nr # "void" /\ s.nr # "rt_sigreturn"
  <2>1. CASE frame = None
    <3>1. call' = Counted(call) /\ frame' = frame
      BY <1>5, <2>1 DEF Exec
    <3>2. Later(call, Counted(call), 0)
      BY <1>1, CountedLater DEF Queried
    <3> QED
      BY <1>1, <1>2, <1>5, <2>1, <3>1, <3>2, LaterCalls
  <2>2. CASE frame # None
    <3> DEFINE c == Counted(frame.call)
    <3>1. frame' = [frame EXCEPT !.call = c] /\ call' = call
      BY <1>5, <2>2 DEF Exec
    <3>2. Later(frame.call, c, 0)
      BY <1>1, <2>2, CountedLater DEF Queried, Frames
    <3> HIDE DEF c
    <3> QED
      BY <1>1, <1>2, <1>5, <2>2, <3>1, <3>2, LaterCalls
  <2> QED
    BY <2>1, <2>2
<1> QED
  BY <1>3, <1>4, <1>5

LEMMA ExecTimely ==
  ASSUME IInv, HInv, TInv, Exec
  PROVE  TInv'
<1>1. at = "exec" /\ at' = "leave" /\ UNCHANGED <<host, sigsys, mixed>>
  BY DEF Exec
<1>2. Moved(s, s') /\ Kept(s, s') /\ IInv'
  BY ExecMoves, ExecKept, ExecQueried DEF IInv
<1>3. sigsys = None
  BY <1>1 DEF IInv, Types
<1>4. /\ s'.nr = s.nr
      /\ s.nr # "rt_sigreturn" => CallsOn(0)
      /\ s.nr = "rt_sigreturn" => frame' = None /\ call' = call
  BY ExecCalls
<1> SUFFICES ASSUME Regular' PROVE InBudget' /\ OnceMore' /\ Numberless'
  BY DEF TInv
<1>5. Control /\ Paths /\ InBudget /\ OnceMore /\ Numberless
  BY <1>1, <1>2, SoTimely DEF Moved
<1>6. s'.regs.pc # "trap"
  BY <1>1, <1>2 DEF IInv, Control, Retrapped
<1>7. StopsLeft = 1 /\ StopsLeft' = (IF s.nr = "rt_sigreturn" THEN 0 ELSE 1)
  BY <1>1, <1>3, <1>4 DEF StopsLeft, Forbids, Resuming
<1>8. InBudget'
  <2>1. CASE s.nr = "rt_sigreturn"
    <3>1. ~Again' /\ StopsLeft' = 0 /\ Current' = call
      BY <1>1, <1>3, <1>4, <1>6, <1>7, <2>1 DEF Again, Resuming, Current
    <3>2. call # None /\ Known(call)' => call.stops <= 6 /\ call.stops \in Nat
      <4>1. call # None => call.stops \in Nat
        BY DEF HInv, Queried, Asking
      <4>2. Known(call)' => Known(call)
        BY <1>1, <1>4, <2>1 DEF Known
      <4>3. call # None /\ Known(call) => call.stops <= MaxStops
        BY <1>5 DEF InBudget
      <4>4. call # None /\ Known(call) => call.stops <= 6
        BY <4>3 DEF MaxStops
      <4> QED
        BY <4>1, <4>2, <4>4
    <3>3. \A c \in Nat : c <= 6 => c + 0 <= 6
      OBVIOUS
    <3>4. call # None /\ Known(call)' => call.stops + 0 <= 6
      BY <3>2, <3>3
    <3> QED
      BY <1>4, <2>1, <3>1, <3>2, <3>4 DEF InBudget, MaxStops, Known
  <2>2. CASE s.nr # "rt_sigreturn"
    <3>1. Again' => Again
      BY <1>1, <1>2, <1>3, <1>4, <1>6
         DEF Again, InPass, Resuming, MayRepeat, Given, Expects, Moved, Kept
    <3>2. Queried /\ CallsOn(0) /\ StopsLeft' + 0 <= StopsLeft
      BY <1>4, <1>7, <2>2 DEF HInv
    <3> QED
      BY <1>1, <1>5, <3>1, <3>2, BudgetKept
  <2> QED
    BY <2>1, <2>2
<1>9. OnceMore'
  BY <1>1, <1>2, <1>3, <1>4, <1>5, <1>6 DEF OnceMore, Resuming, Expects, Moved, Kept
<1>10. Numberless'
  <2>1. None # "void"
    BY SyscallsAssumption DEF Numbers
  <2> QED
    BY <1>1, <1>3, <1>6, <2>1 DEF Numberless, InSyscall
<1> QED
  BY <1>8, <1>9, <1>10

-----------------------------------------------------------------------------
(* A stop at the entry or at the exit: one of those that may come.           *)

LEMMA StopTaken == \A n \in Nat : n + 1 <= 1 + n /\ n + 0 <= 1 + n
OBVIOUS

(* What PRoot makes of a call at its entry is made again only if the call is *)
(* one that may be.                                                         *)
LEMMA EntryAgain ==
  ASSUME Control, Paths, at \in InSyscall, Expects(s), EntryLeaves(s, s'),
         s'.regs.pc = "after", sigsys = None, sigsys' = None
  PROVE  /\ Current # None /\ Again' => Again
         /\ s'.nr = "rt_sigreturn" /\ ~Expects(s') => s'.original.num = "rt_sigreturn"
<1>1. s.regs.num = s.nr
  BY DEF Control, Numbered
<1>2. CASE s.chain # None
  <2>1. s'.nr = s.nr /\ s'.chain = s.chain
    BY <1>2 DEF EntryLeaves, Chaining
  <2>2. s.nr # "rt_sigreturn"
    BY <1>2 DEF Control, ChainSafe, Heap
  <2>3. MayRepeat' => MayRepeat
    BY <1>2, <2>1 DEF MayRepeat
  <2> QED
    BY <2>1, <2>2, <2>3 DEF Again, InPass, Resuming
<1>3. CASE s.chain = None
  <2>1. /\ s'.original = s.regs
        /\ s'.chain # None => s.regs.num = "brk"
        /\ s'.nr \in {s.regs.num, "void"} \cup Heap
    BY <1>1, <1>3 DEF EntryLeaves, Chaining
  <2>2. s'.nr = "rt_sigreturn" => s.nr = "rt_sigreturn"
    BY <1>1, <2>1 DEF Heap
  <2>3. Current # None => ~Resuming
    BY DEF Paths, Awaited, Resuming
  <2>4. \A n \in {"void"} \cup Heap : n \notin Repeated
    BY DEF Heap, Repeated, Legacy
  <2>5. MayRepeat' => MayRepeat
    <3>1. Given = s.regs.num /\ (MayRepeat <=> s.regs.num \in Repeated)
      BY <1>1, <1>3 DEF Given, MayRepeat
    <3>2. CASE s'.chain # None
      BY <2>1, <3>1, <3>2 DEF Repeated
    <3>3. CASE s'.chain = None
      <4>1. Given' \in {s.regs.num, "void"} \cup Heap
        BY <2>1 DEF Given, Expects
      <4> QED
        BY <2>4, <3>1, <3>3, <4>1 DEF MayRepeat
    <3> QED
      BY <3>2, <3>3
  <2> QED
    BY <1>1, <2>1, <2>2, <2>3, <2>5 DEF Again, InPass
<1> QED
  BY <1>2, <1>3

(* The entry PRoot translated.                                              *)
LEMMA EnterTimely ==
  ASSUME IInv, HInv, Control, Paths, InBudget, SyscallStop, at = "enter",
         Expects(s), EntryLeaves(s, s'), ~Expects(s'), s'.regs.pc = "after"
  PROVE  InBudget' /\ OnceMore' /\ Numberless'
<1>1. /\ at' = IF host.order = "new" THEN "filter" ELSE "exec"
      /\ CountStop
      /\ UNCHANGED <<host, sigsys, mixed>>
  BY DEF SyscallStop
<1>2. sigsys = None /\ sigsys' = None /\ at \in InSyscall
  BY <1>1 DEF IInv, Types, InSyscall
<1>3. CallsOn(1) /\ Queried
  BY <1>1, StopCounts DEF HInv
<1>4. /\ Current # None /\ Again' => Again
      /\ s'.nr = "rt_sigreturn" => s'.original.num = "rt_sigreturn"
  BY <1>2, EntryAgain
<1>5. StopsLeft' + 1 <= StopsLeft
  BY <1>1 DEF StopsLeft
<1>6. InBudget'
  BY <1>1, <1>3, <1>4, <1>5, BudgetKept
<1>7. OnceMore' /\ Numberless'
  <2>1. None # "void"
    BY SyscallsAssumption DEF Numbers
  <2> QED
    BY <1>2, <1>4, <2>1 DEF OnceMore, Numberless, Resuming
<1> QED
  BY <1>6, <1>7

(* The entry that an old kernel reports after the event.                    *)
LEMMA AgreedTimely ==
  ASSUME IInv, HInv, Control, Paths, InBudget, SyscallStop, s.handledEnter, Held(s, s'),
         s'.regs.pc = "after"
  PROVE  InBudget' /\ OnceMore' /\ Numberless'
<1>1. /\ at' = IF at = "exit" THEN "signals"
               ELSE IF host.order = "new" THEN "filter" ELSE "exec"
      /\ CountStop
      /\ UNCHANGED <<host, sigsys, mixed>>
  BY DEF SyscallStop
<1>2. at = "enter" /\ host.order = "old" /\ ~Expects(s)
  BY DEF Control, Paired
<1>3. sigsys = None /\ at' = "exec" /\ at \in InSyscall
  BY <1>1, <1>2 DEF IInv, Types, InSyscall
<1>4. /\ s'.nr = s.nr /\ s'.chain = s.chain /\ s'.original = s.original
      /\ s'.status = s.status
  BY DEF Held
<1>5. InBudget'
  <2>1. CallsOn(1) /\ Queried
    BY <1>1, StopCounts DEF HInv
  <2>2. Again' => Again
    <3>1. Given' = Given
      BY <1>1, <1>4 DEF Given, Expects
    <3>2. MayRepeat' => MayRepeat
      BY <1>4, <3>1 DEF MayRepeat
    <3> QED
      BY <1>1, <1>3, <1>4, <3>2 DEF Again, InPass, Resuming
  <2>3. StopsLeft' + 1 <= StopsLeft
    BY <1>1, <1>2, <1>3 DEF StopsLeft
  <2> QED
    BY <1>1, <2>1, <2>2, <2>3, BudgetKept
<1>6. OnceMore'
  <2>1. Resuming' => s'.original.num = "rt_sigreturn"
    <3>1. Resuming' => Resuming
      BY <1>1, <1>4 DEF Resuming
    <3> QED
      BY <1>2, <1>3, <1>4, <3>1, ResumingCall
  <2> QED
    BY <1>1, <1>3, <2>1 DEF OnceMore
<1>7. Numberless'
  <2>1. None # "void"
    BY SyscallsAssumption DEF Numbers
  <2> QED
    BY <1>1, <1>3, <2>1 DEF Numberless, InSyscall
<1> QED
  BY <1>5, <1>6, <1>7

(* On an old kernel the exit of the call that has no number is taken for an *)
(* entry.                                                                   *)
LEMMA LateTimely ==
  ASSUME IInv, HInv, Control, Paths, InBudget, OnceMore, Numberless, SyscallStop,
         at = "exit", Expects(s), s'.regs.pc = "after"
  PROVE  InBudget' /\ OnceMore' /\ Numberless'
<1>1. /\ at' = "signals" /\ CountStop
      /\ UNCHANGED <<host, sigsys, mixed>>
  BY DEF SyscallStop
<1>2. sigsys # None /\ host.order = "old" /\ host.policy
  BY DEF Control, Paired, Late, Numbered
<1>3. ~host.skipsExit /\ trace = "syscall"
  BY <1>2 DEF Paths, Awaited
<1>4. sigsys = "void"
  BY <1>2, <1>3 DEF Paths, Old, Delayed
<1>5. Current # None => Current.kind \in {"stat", "lstat"}
  BY <1>2, <1>4 DEF Numberless
<1>6. CallsOn(1) /\ Queried
  BY <1>1, StopCounts DEF HInv
<1>7. ~(Current # None /\ Known(Current))
  BY <1>2, <1>5 DEF Known
<1>8. InBudget'
  BY <1>1, <1>6, <1>7, BudgetKept
<1>9. OnceMore'
  BY <1>1, <1>4 DEF OnceMore
<1>10. Numberless'
  BY <1>5, <1>6 DEF Numberless, CallsOn
<1> QED
  BY <1>8, <1>9, <1>10

(* The exit: the call is over, or made again.                               *)
LEMMA ExitTimely ==
  ASSUME IInv, HInv, Control, Paths, InBudget, OnceMore, SyscallStop,
         ~Expects(s), at = "exit", Expects(s'), Control',
         s.chain = None => s'.chain = None,
         s'.regs.pc = "trap" =>
           /\ s.chain = None \/ s'.chain = None => s'.regs.num = "utimensat"
           /\ s.original.num = "utime" \/ s.chain \notin {None, <<>>},
         s'.chain # None => s'.chain = <<>>
  PROVE  InBudget' /\ OnceMore' /\ Numberless'
<1>1. /\ at' = "signals" /\ CountStop
      /\ UNCHANGED <<host, sigsys, mixed>>
  BY DEF SyscallStop
<1>2. CallsOn(1) /\ Queried /\ (s.nr = "rt_sigreturn" => CallsOn(0))
  BY <1>1, StopCounts DEF HInv
<1>3. s.chain # None => sigsys = None /\ s.original.num = "brk"
  BY DEF Control, ChainSafe, Paths, Saved
<1>4. sigsys # None => host.policy /\ host.order = "new" /\ sigsys \in Legacy \cup {"void"}
  <2>1. SUFFICES ASSUME sigsys # None, host.order = "old" PROVE FALSE
    BY DEF Control, Numbered, OnceMore, IInv, Types, AllHosts
  <2>2. host.policy /\ ~host.skipsExit
    BY <2>1 DEF Control, Numbered, Paths, Awaited
  <2> QED
    BY <2>1, <2>2 DEF Paths, Old, Delayed
<1>5. /\ StopsLeft = (IF Resuming THEN 0 ELSE 1 + Forbids)
      /\ StopsLeft' = Forbids /\ Forbids \in Nat
      /\ Resuming => Forbids = 0
  BY <1>1 DEF StopsLeft, Forbids, Resuming
<1>6. InBudget'
  <2>1. CASE Resuming
    <3>1. s.original.num = "rt_sigreturn"
      BY <2>1 DEF OnceMore
    <3>2. s.chain = None /\ s'.regs.pc # "trap"
      BY <1>3, <3>1
    <3>3. ~Again'
      BY <1>1, <2>1, <3>2 DEF Again, InPass, InSyscall, Resuming
    <3>4. StopsLeft' + 0 <= StopsLeft
      BY <1>5, <2>1
    <3>5. CallsOn(0)
      BY <1>2, <2>1 DEF Resuming
    <3> QED
      BY <1>1, <1>2, <3>3, <3>4, <3>5, BudgetKept
  <2>2. CASE ~Resuming
    <3>1. StopsLeft' + 1 <= StopsLeft
      BY <1>5, <2>2, StopTaken
    <3>2. Again' => Again
      <4>1. SUFFICES ASSUME Again' PROVE MayRepeat
        BY <2>2 DEF Again, InPass
      <4>2. CASE s'.regs.pc = "trap"
        <5>1. s.chain = None => Given = "utime"
          BY <4>2 DEF Given
        <5> QED
          BY <1>3, <4>2, <5>1 DEF MayRepeat, Repeated
      <4>3. CASE s'.regs.pc # "trap"
        <5>1. sigsys # None /\ MayRepeat'
          BY <1>1, <4>1, <4>3 DEF Again, InPass, InSyscall
        <5>2. s.chain = None /\ s'.chain = None
          BY <1>3, <5>1
        <5>3. Given' = sigsys
          BY <1>1, <5>1 DEF Given
        <5>4. sigsys \in Repeated
          BY <5>1, <5>2, <5>3 DEF MayRepeat
        <5>5. sigsys # "void"
          BY <5>4 DEF Repeated, Legacy
        <5>6. s.original.num \in Legacy
          BY <5>1, <5>5 DEF Paths, Refound
        <5> QED
          BY <5>2, <5>6 DEF MayRepeat, Given, Repeated
      <4> QED
        BY <4>2, <4>3
    <3> QED
      BY <1>1, <1>2, <3>1, <3>2, BudgetKept
  <2> QED
    BY <2>1, <2>2
<1>7. OnceMore'
  BY <1>1 DEF OnceMore
<1>8. Numberless'
  <2>1. None # "void"
    BY SyscallsAssumption DEF Numbers
  <2>2. s'.regs.pc = "trap" => s'.regs.num # "void"
    <3>1. s'.chain # None => s'.regs.num \in Heap
      BY <1>1 DEF Control, ChainSafe
    <3> QED
      BY <3>1 DEF Heap
  <2> QED
    BY <1>1, <1>4, <2>1, <2>2, SMT DEF Numberless, InSyscall
<1> QED
  BY <1>6, <1>7, <1>8

LEMMA SyscallStopTimely ==
  ASSUME IInv, HInv, TInv, SyscallStop
  PROVE  TInv'
<1>1. at \in {"enter", "exit"} /\ UNCHANGED <<host, mixed>>
  BY DEF SyscallStop
<1>2. s'.seccomp = "enabled" => s.seccomp = "enabled"
  BY SyscallStopMoves DEF IInv
<1> SUFFICES ASSUME Regular' PROVE InBudget' /\ OnceMore' /\ Numberless'
  BY DEF TInv
<1>3. Control /\ Paths /\ InBudget /\ OnceMore /\ Numberless
  BY <1>1, <1>2, SoTimely
<1>4. Control'
  BY SyscallStopKept DEF IInv
<1>5. PICK x \in Tracee :
        /\ Held(x, s')
        /\ IF s.handledEnter \/ Expects(s)
             THEN ~Expects(s') /\ trace' = "syscall" /\ s'.regs.pc = "after"
             ELSE Expects(s') /\ (s.chain = None => s'.chain = None)
        /\ s.handledEnter => Held(s, s')
        /\ Expects(s) /\ ~s.handledEnter => EntryLeaves(s, s')
        /\ ~Expects(s) /\ ~s.handledEnter => ExitPaths(s, x)
  <2>1. Saved
    BY <1>3 DEF Paths
  <2> QED
    BY <1>3, <2>1, SyscallStopStages
<1>6. CASE s.handledEnter
  BY <1>3, <1>5, <1>6, AgreedTimely
<1>7. CASE Expects(s) /\ ~s.handledEnter
  BY <1>1, <1>3, <1>5, <1>7, EnterTimely, LateTimely
<1>8. CASE ~Expects(s) /\ ~s.handledEnter
  <2>1. at = "exit" /\ Expects(s') /\ (s.chain = None => s'.chain = None)
    BY <1>1, <1>3, <1>5, <1>8 DEF Control, Paired
  <2>2. /\ s'.regs.pc = "trap" =>
             /\ s.chain = None \/ s'.chain = None => s'.regs.num = "utimensat"
             /\ s.original.num = "utime" \/ s.chain \notin {None, <<>>}
        /\ s'.chain # None => s'.chain = <<>>
    BY <1>5, <1>8 DEF ExitPaths, Held
  <2> QED
    BY <1>3, <1>4, <1>8, <2>1, <2>2, ExitTimely
<1> QED
  BY <1>6, <1>7, <1>8

-----------------------------------------------------------------------------
(* A stop at a seccomp event, and the stop for SIGSYS.                       *)

LEMMA SeccompStopTimely ==
  ASSUME IInv, HInv, TInv, SeccompStop
  PROVE  TInv'
<1>1. at = "seccomp" /\ CountStop /\ UNCHANGED <<host, sigsys, mixed>>
  BY DEF SeccompStop
<1>2. host.order \in {"old", "new"} /\ sigsys = None /\ sigsys' = None /\ at \in InSyscall
  BY <1>1 DEF IInv, Types, AllHosts, InSyscall
<1>3. CallsOn(1) /\ Queried
  BY <1>1, StopCounts DEF HInv
<1>4. s'.seccomp = "enabled" => s.seccomp = "enabled"
  BY SeccompStopReported
<1> SUFFICES ASSUME Regular' PROVE InBudget' /\ OnceMore' /\ Numberless'
  BY DEF TInv
<1>5. Control /\ Paths /\ InBudget /\ OnceMore /\ Numberless
  BY <1>1, <1>4, SoTimely
<1>6. /\ trace' \in Ways /\ s.nr # "void" /\ (host.order = "old" => Expects(s))
      /\ at' = IF s'.nr = "void" THEN "leave"
               ELSE IF host.order = "old" /\ trace' = "syscall" THEN "enter" ELSE "exec"
      /\ s'.regs.pc = "after"
      /\ host.order = "old" /\ trace' = "syscall" /\ Expects(s') => s'.regs = s.regs
      /\ \/ Held(s, s') /\ (Expects(s) => host.order = "old" /\ trace' = "syscall")
         \/ Expects(s) /\ EntryLeaves(s, s') /\ (host.order = "new" \/ ~s.restoreRewrite)
  BY <1>5, SeccompStopStages
<1>7. StopsLeft' + 1 <= StopsLeft
  <2>1. StopsLeft = IF host.order = "new" THEN 2 ELSE 3
    BY <1>1 DEF StopsLeft
  <2>2. CASE at' = "enter"
    BY <1>1, <1>6, <2>1, <2>2 DEF StopsLeft
  <2>3. CASE at' = "exec"
    BY <2>1, <2>3 DEF StopsLeft
  <2>4. CASE at' = "leave"
    <3>1. StopsLeft \in {2, 3}
      BY <2>1
    <3>2. StopsLeft' \in {0, 1}
      BY <1>2, <2>4 DEF StopsLeft, Forbids
    <3>3. \A m \in {2, 3}, n \in {0, 1} : n + 1 <= m
      OBVIOUS
    <3> QED
      BY <3>1, <3>2, <3>3
  <2> QED
    BY <1>6, <2>2, <2>3, <2>4
<1>8. /\ Current # None /\ Again' => Again
      /\ at' \in {"exec", "leave"} /\ s'.nr = "rt_sigreturn" /\ ~Expects(s') =>
           s'.original.num = "rt_sigreturn"
  <2>1. CASE Held(s, s') /\ (Expects(s) => host.order = "old" /\ trace' = "syscall")
    <3>1. /\ s'.nr = s.nr /\ s'.chain = s.chain /\ s'.original = s.original
          /\ s'.status = s.status
      BY <2>1 DEF Held
    <3>2. Again' => Again
      <4>1. Given' = Given
        BY <1>2, <3>1 DEF Given, Expects
      <4>2. MayRepeat' => MayRepeat
        BY <3>1, <4>1 DEF MayRepeat
      <4> QED
        BY <1>2, <1>6, <3>1, <4>2 DEF Again, InPass, Resuming
    <3>3. s'.nr = "rt_sigreturn" /\ ~Expects(s') => s'.original.num = "rt_sigreturn"
      <4>1. s.nr = "rt_sigreturn" /\ ~Expects(s) => s.original.num = "rt_sigreturn"
        BY <1>2, <1>5, ResumingCall DEF Resuming
      <4> QED
        BY <3>1, <4>1 DEF Expects
    <3> QED
      BY <3>2, <3>3
  <2>2. CASE Expects(s) /\ EntryLeaves(s, s')
    BY <1>2, <1>5, <1>6, <2>2, EntryAgain
  <2> QED
    BY <1>6, <2>1, <2>2
<1>9. InBudget'
  BY <1>1, <1>3, <1>5, <1>7, <1>8, BudgetKept
<1>10. OnceMore'
  BY <1>2, <1>6, <1>8 DEF OnceMore, Resuming
<1>11. Numberless'
  <2>1. None # "void"
    BY SyscallsAssumption DEF Numbers
  <2>2. SUFFICES ASSUME host.order = "old", Current # None,
                        Current.kind \notin {"stat", "lstat"}, Expects(s'), at' \in InSyscall
                 PROVE  s'.regs.num \notin Nameless
    BY <1>1, <1>2, <1>3, <1>6, <2>1 DEF Numberless, CallsOn
  <2>3. trace' = "syscall"
    BY <1>6, <2>2 DEF InSyscall
  <2>4. s'.regs = s.regs
    BY <1>6, <2>2, <2>3
  <2>5. s.regs.num \notin Nameless
    BY <1>2, <1>5, <1>6, <2>2 DEF Numberless
  <2> QED
    BY <2>4, <2>5
<1> QED
  BY <1>9, <1>10, <1>11

(* The call SIGSYS is for is made again only if it is one that may be.       *)
LEMMA SigsysAgain ==
  ASSUME Types, Control, Paths, OnceMore, Numberless, at = "SIGSYS",
         Current # None, Known(Current), NEW x, SigsysLeaves(Begin(s), x)
  PROVE  /\ x.regs.pc = "trap" => Again
         /\ host.order = "old" /\ x.regs.pc = "trap" => x.regs.num # "void"
<1> DEFINE b == Begin(s)
<1>1. /\ s \in Tracee /\ sigsys \in Legacy \cup {"void"} /\ sigsys # None
      /\ host \in AllHosts /\ host.order \in {"old", "new"}
  BY DEF Types, AllHosts, OnceMore
<1>2. s.chain = None /\ host.policy /\ host.traced
  BY <1>1 DEF Control, ChainSafe, Numbered, AllHosts
<1>3. Untouched(s, b)
  BY <1>1, BeginUntouched
<1> HIDE DEF b
<1>4. PICK e \in Tracee :
        /\ IF Expects(b) THEN e = b ELSE ExitLeaves(b, e)
        /\ x.sysexitPending = e.sysexitPending /\ ~x.skip
        /\ \/ /\ e.skip \/ (After /\ sigsys = "void")
              /\ Held(e, x) /\ x.how = e.how
           \/ /\ ~(e.skip \/ (After /\ sigsys = "void"))
              /\ x.rewrite = e.regs /\ Remade(e, e.regs, x)
  BY DEF SigsysLeaves, b
<1>5. After <=> host.order = "new"
  BY <1>2 DEF After
<1>6. Current.kind \notin {"stat", "lstat"}
  BY <1>2 DEF Known
<1>7. CASE sigsys \in Legacy
  <2>1. Given \in Repeated
    BY <1>1, <1>7 DEF Given, Repeated, Paths, Refound, Legacy
  <2>2. Again
    BY <1>1, <1>2, <2>1 DEF Again, InPass, Resuming, MayRepeat
  <2>3. ASSUME host.order = "old", x.regs.pc = "trap" PROVE x.regs.num # "void"
    <3>1. Expects(s) /\ Expects(b)
      BY <1>1, <1>3, <1>7, <2>3 DEF Paths, Refound, Legacy, Expects, Untouched, Held
    <3>2. e = b /\ e.regs = s.regs /\ e.skip = s.skip
      BY <1>3, <1>4, <3>1 DEF Untouched, Held
    <3>3. ~e.skip /\ ~After
      BY <1>5, <2>3, <3>2 DEF Paths, Awaited
    <3>4. Remade(e, s.regs, x)
      BY <1>4, <3>2, <3>3
    <3>5. s.regs.num \notin Nameless
      BY <1>1, <1>6, <2>3, <3>1 DEF Numberless
    <3> QED
      BY <3>4, <3>5 DEF Remade, Nameless
  <2> QED
    BY <2>2, <2>3
<1>8. CASE sigsys = "void"
  <2>1. host.order = "new"
    BY <1>1, <1>6, <1>8 DEF Numberless
  <2>2. x.regs = e.regs
    BY <1>4, <1>5, <1>8, <2>1 DEF Held
  <2>3. CASE Expects(s)
    <3>1. e = b /\ e.regs = s.regs
      BY <1>3, <1>4, <2>3 DEF Expects, Untouched, Held
    <3> QED
      BY <2>1, <2>2, <3>1 DEF Again
  <2>4. CASE ~Expects(s)
    <3>1. e.regs.pc = "trap" => s.original.num = "utime"
      BY <1>2, <1>3, <1>4, <2>4 DEF Expects, Untouched, Held, ExitLeaves, ExitPaths
    <3>2. s.original.num = "utime" => Again
      BY <1>1, <1>2, <2>4 DEF Again, InPass, Resuming, MayRepeat, Given, Repeated
    <3> QED
      BY <2>1, <2>2, <3>1, <3>2
  <2> QED
    BY <2>3, <2>4
<1> QED
  BY <1>1, <1>7, <1>8

LEMMA SigsysStopTimely ==
  ASSUME IInv, HInv, TInv, SigsysStop
  PROVE  TInv'
<1>1. /\ at = "SIGSYS" /\ sigsys' = None /\ at' = "signals" /\ CountStop
      /\ UNCHANGED <<host, mixed>>
  BY DEF SigsysStop
<1>2. Types /\ sigsys # None
  BY <1>1 DEF IInv, Types
<1>3. CallsOn(1) /\ Queried
  BY <1>1, StopCounts DEF HInv
<1>4. PICK x \in Tracee :
        /\ Untouched(x, s') /\ trace' = x.how /\ Expects(s')
        /\ s'.seccomp = "enabled" => s.seccomp = "enabled"
        /\ Control => SigsysLeaves(Begin(s), x) /\ s'.chain = None
  BY SigsysStopStages
<1>5. s'.seccomp = "enabled" => s.seccomp = "enabled"
  BY <1>4
<1> SUFFICES ASSUME Regular' PROVE InBudget' /\ OnceMore' /\ Numberless'
  BY DEF TInv
<1>6. Control /\ Paths /\ InBudget /\ OnceMore /\ Numberless
  BY <1>1, <1>5, SoTimely
<1>7. s'.chain = None /\ s'.regs = x.regs
  BY <1>4, <1>6 DEF Untouched, Held
<1>8. Current # None /\ Known(Current) =>
        /\ s'.regs.pc = "trap" => Again
        /\ host.order = "old" /\ s'.regs.pc = "trap" => s'.regs.num # "void"
  BY <1>1, <1>2, <1>4, <1>6, <1>7, SigsysAgain
<1>9. InBudget'
  <2>1. Again' => s'.regs.pc = "trap"
    BY <1>1 DEF Again, InPass, InSyscall
  <2>2. StopsLeft' + 1 <= StopsLeft
    BY <1>1, <1>2 DEF StopsLeft, Forbids
  <2> QED
    BY <1>1, <1>3, <1>6, <1>8, <2>1, <2>2, BudgetKept
<1>10. OnceMore'
  BY <1>1, <1>7 DEF OnceMore
<1>11. Numberless'
  <2>1. None # "void"
    BY SyscallsAssumption DEF Numbers
  <2>2. Current # None /\ Current.kind \notin {"stat", "lstat"} => Known(Current)
    BY DEF Known
  <2> QED
    BY <1>1, <1>3, <1>8, <2>1, <2>2 DEF Numberless, CallsOn, InSyscall
<1> QED
  BY <1>9, <1>10, <1>11

-----------------------------------------------------------------------------
(* Other signals.                                                           *)

LEMMA KeepBackTimely ==
  ASSUME IInv, HInv, TInv, SignalStop, Chaining(Begin(s))
  PROVE  TInv'
<1>1. /\ at = "signal" /\ at' = "signals"
      /\ UNCHANGED <<host, sigsys, call, frame, mixed>>
  BY DEF SignalStop
<1>2. sigsys = None
  BY <1>1 DEF IInv, Types
<1>3. Untouched(s, s') /\ s'.seccomp = s.seccomp
  BY KeptBack
<1>4. /\ s'.regs = s.regs /\ s'.chain = s.chain /\ s'.original = s.original
      /\ s'.nr = s.nr /\ s'.status = s.status
  BY <1>3 DEF Untouched, Held
<1> SUFFICES ASSUME Regular' PROVE InBudget' /\ OnceMore' /\ Numberless'
  BY DEF TInv
<1>5. Control /\ Paths /\ InBudget /\ OnceMore /\ Numberless
  BY <1>1, <1>3, SoTimely
<1>6. InBudget'
  <2>1. CallsOn(0) /\ Queried
    BY <1>1, CallsOnSame DEF HInv
  <2>2. Again' => Again
    BY <1>1, <1>2, <1>4 DEF Again, InPass, InSyscall
  <2>3. StopsLeft' + 0 <= StopsLeft
    BY <1>1, <1>2 DEF StopsLeft, Forbids
  <2> QED
    BY <1>1, <1>5, <2>1, <2>2, <2>3, BudgetKept
<1>7. OnceMore' /\ Numberless'
  BY <1>1, <1>2, <1>4, <1>5 DEF OnceMore, Numberless, InSyscall, Current
<1> QED
  BY <1>6, <1>7

(* A handler that runs has made no call yet; what it interrupted waits.     *)
LEMMA HandlerTimely ==
  ASSUME IInv, HInv, TInv, SignalStop, ~Chaining(Begin(s))
  PROVE  TInv'
<1> DEFINE g == [regs |-> s.regs, call |-> None, called |-> FALSE]
<1>1. /\ at = "signal" /\ at' = "user" /\ frame' = g
      /\ mixed' = (mixed \/ s.restoreRewrite)
      /\ UNCHANGED <<host, sigsys, call>>
  BY DEF SignalStop
<1>2. sigsys = None /\ s.regs \in Registers /\ mixed \in BOOLEAN
  BY <1>1 DEF IInv, Types, Tracee
<1>3. Current' = None
  <2>1. g \in Frames /\ g.call = None
    BY <1>2 DEF Frames, Registers
  <2> HIDE DEF g
  <2>2. frame' # None
    BY <1>1, <2>1, SyscallsAssumption
  <2> QED
    BY <1>1, <2>1, <2>2 DEF Current
<1>4. s'.regs.pc = "after" /\ (s'.seccomp = "enabled" => s.seccomp = "enabled")
  BY HandlerRuns
<1> SUFFICES ASSUME Regular' PROVE InBudget' /\ OnceMore' /\ Numberless'
  BY DEF TInv
<1>5. InBudget
  BY <1>1, <1>2, <1>4, SoTimely
<1>6. InBudget'
  BY <1>1, <1>3, <1>5 DEF InBudget, Known
<1>7. OnceMore' /\ Numberless'
  BY <1>1, <1>2, <1>3, <1>4 DEF OnceMore, Numberless
<1> QED
  BY <1>6, <1>7

-----------------------------------------------------------------------------
(* The invariant.                                                           *)

LEMMA TInvInit ==
  ASSUME Init
  PROVE  TInv
<1>1. at = "user" /\ sigsys = None /\ call = None /\ frame = None /\ s.regs = NoCall("top")
  BY DEF Init
<1>2. s.regs.pc = "after" /\ Current = None
  BY <1>1, NoCallFacts DEF Current
<1> QED
  BY <1>1, <1>2 DEF TInv, InBudget, OnceMore, Numberless

LEMMA TInvNext ==
  ASSUME IInv, HInv, TInv, [Next]_vars
  PROVE  TInv'
<1>1. ASSUME NEW kind \in Kinds \cup LaterKinds, Call(kind) PROVE TInv'
  BY <1>1, CallTimely
<1>2. ASSUME NEW kind \in HandlerKinds, HandlerCall(kind) PROVE TInv'
  BY <1>2, HandlerCallTimely
<1>3. CASE Return
  BY <1>3, ReturnTimely
<1>4. CASE Sigreturn
  BY <1>4, SigreturnTimely
<1>5. CASE Retrap
  BY <1>5, RetrapTimely
<1>6. CASE Kernel
  BY <1>6, EntryTimely, PassedTimely, TrappedTimely, ExecTimely, LeaveTimely, SignalsTimely
     DEF Kernel
<1>7. CASE SyscallStop
  BY <1>7, SyscallStopTimely
<1>8. CASE SeccompStop
  BY <1>8, SeccompStopTimely
<1>9. CASE SigsysStop
  BY <1>9, SigsysStopTimely
<1>10. CASE SignalStop
  BY <1>10, KeepBackTimely, HandlerTimely
<1>11. CASE Kill
  BY <1>11, KillTimely
<1>12. CASE UNCHANGED vars
  <2>1. UNCHANGED <<host, s, at, sigsys, call, frame, mixed>>
    BY <1>12 DEF vars
  <2>2. StopsLeft' = StopsLeft
    BY <2>1 DEF StopsLeft, Forbids, Resuming
  <2>3. StopsLeft' <= StopsLeft
    BY <2>2, StopsTyped
  <2> QED
    BY <2>1, <2>3, KernelTimely DEF InPass
<1> QED
  BY <1>1, <1>2, <1>3, <1>4, <1>5, <1>6, <1>7, <1>8, <1>9, <1>10, <1>11, <1>12
     DEF Next, GuestStep, Proot

LEMMA TimelyInvariant == Spec => []TInv
<1>1. Init => TInv
  BY TInvInit
<1>2. IInv /\ HInv /\ TInv /\ [Next]_vars => TInv'
  BY TInvNext
<1> QED
  BY <1>1, <1>2, Invariant, PathsInvariant, PTL DEF Spec

(* A call of the guest is answered after six stops at most.  PRoot has it    *)
(* made again once: after SIGSYS, as a chain, or because the kernel lacks it *)
(* (tracee/seccomp.c, syscall/chain.c, exit.c); each time its event, its     *)
(* entry, its exit and SIGSYS stop it three times at most.  So no call is    *)
(* rewritten, chained or repaired for ever, whatever the kernel reports      *)
(* first and however the signals fall.                                      *)
THEOREM InTimeCorrect == Spec => []AnsweredInTime
<1>1. HInv /\ TInv => AnsweredInTime
  <2>1. SUFFICES ASSUME HInv, TInv, Current # None, Regular, Known(Current)
                 PROVE  Current.stops <= MaxStops
    BY DEF AnsweredInTime
  <2>2. Current.stops \in Nat /\ StopsLeft \in Nat
    BY <2>1, CurrentTyped, StopsTyped DEF HInv
  <2>3. Current.stops + StopsLeft <= IF Again THEN 3 ELSE 6
    BY <2>1 DEF TInv, InBudget, MaxStops
  <2>4. Current.stops + StopsLeft <= 3 \/ Current.stops + StopsLeft <= 6
    BY <2>3
  <2>5. \A c, r \in Nat : c + r <= 3 \/ c + r <= 6 => c <= 6
    OBVIOUS
  <2> QED
    BY <2>2, <2>4, <2>5 DEF MaxStops
<1> QED
  BY <1>1, TimelyInvariant, PathsInvariant, PTL
=============================================================================
