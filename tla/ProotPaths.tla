------------------------------ MODULE ProotPaths ------------------------------
(***************************************************************************)
(* The paths of the guests (proot/src/path): bindings, canonicalization,    *)
(* translation to the host and back, and the working directory that PRoot   *)
(* keeps for a guest (chdir and rename in proot/src/syscall).               *)
(*                                                                         *)
(* The directories of the device are a tree of nodes.  PRoot works on paths *)
(* only; the kernel walks the tree.  A guest is given the impression that   *)
(* its root is Root and that the bound directories are mounted in it: what  *)
(* the kernel would do if they were is the reference.                       *)
(*                                                                         *)
(* A path is a sequence of names, with what follows the last one: "", "/"   *)
(* or "/.".  External: the kernel.  Not modelled: /proc, the directories    *)
(* made for bindings without one (glue.c), a second PRoot inside the first. *)
(***************************************************************************)
EXTENDS Naturals, Sequences, FiniteSets, SequencesExt

CONSTANTS
  Fixed,      \* the nodes that exist from the beginning, with their names
  Spare,      \* the nodes that can be created
  Bindings,   \* the bindings asked for, as records guest, host, node
  UserPaths,  \* the paths guests look up
  Places,     \* the paths with which they change the tree and chdir
  Targets,    \* the contents of the links guests make
  MaxLinks,   \* MAXSYMLINKS
  MaxDepth,   \* bound: the length of the working directory that is explored
  None

ASSUME PathsAssumption ==
  /\ {"Top", "Root"} \subseteq DOMAIN Fixed
  /\ DOMAIN Fixed \cap Spare = {}
  /\ None \notin DOMAIN Fixed \cup Spare
  /\ {MaxLinks, MaxDepth} \subseteq Nat

VARIABLES
  tree,   \* the nodes: kind, parent, name and, of a link, target
  lists,  \* the bindings as PRoot has sorted them, by guest and by host path
  mounts, \* the bindings that are active, as the user means them
  cwd,    \* the working directory of the guest, as PRoot knows it: a path
  at,     \* the node it is
  lost    \* another process has moved or removed that directory

vars == <<tree, lists, mounts, cwd, at, lost>>

Nodes == DOMAIN Fixed \cup Spare

Path(abs, names, end) == [abs |-> abs, names |-> names, end |-> end]

After(path, prefix) == SubSeq(path, Len(prefix) + 1, Len(path))

HostRoot == <<Fixed["Root"].name>>

-----------------------------------------------------------------------------
(* The kernel: a walk through the tree.  A view is a root and what is       *)
(* mounted where.                                                           *)

HostView == [root |-> "Top", mounts |-> {}]
GuestView == [root |-> "Root", mounts |-> mounts]

(* A place is a node and the mount it was reached through.                  *)
Place(n, via) == [node |-> n, via |-> via]

Found(place) == [is |-> "found", at |-> place, name |-> ""]
Missing(place, name) == [is |-> "missing", at |-> place, name |-> name]
Error(errno) == [is |-> errno, at |-> Place(None, <<>>), name |-> ""]

Child(view, dir, name) ==
  LET mounted == {b \in view.mounts : b.dir = dir /\ b.name = name}
      here == {n \in Nodes : /\ tree[n].kind # "none" /\ n # "Top"
                             /\ tree[n].parent = dir.node /\ tree[n].name = name}
      b == CHOOSE c \in mounted : TRUE
  IN  IF mounted # {} THEN Place(b.node, b.guest)
      ELSE IF here # {} THEN Place(CHOOSE n \in here : TRUE, dir.via)
      ELSE Place(None, dir.via)

Parent(view, dir) ==
  LET on == {b \in view.mounts : Place(b.node, b.guest) = dir}
  IN  IF dir = Place(view.root, <<>>) THEN dir
      ELSE IF on # {} THEN (CHOOSE b \in on : TRUE).dir
      ELSE Place(tree[dir.node].parent, dir.via)

RECURSIVE Below(_, _)
Below(n, dir) == n = dir \/ (n # "Top" /\ Below(tree[n].parent, dir))

(* Where a link leads: one of a bound directory that names, with its path on *)
(* the host, a place in that very directory, leads there.                   *)
Start(view, link, dir) ==
  LET target == tree[link.node].target
      own == {b \in view.mounts : b.guest = link.via /\ IsPrefix(b.host, target.names)}
      b == CHOOSE c \in own : TRUE
  IN  IF ~target.abs THEN [dir |-> dir, names |-> target.names]
      ELSE IF own # {} THEN [dir |-> Place(b.node, b.guest), names |-> After(target.names, b.host)]
      ELSE [dir |-> Place(view.root, <<>>), names |-> target.names]

RECURSIVE Walk(_, _, _, _, _, _)
Walk(view, dir, names, slash, deref, left) ==
  LET rest == Tail(names)
      Follow(to) == Walk(view, to.dir, to.names \o rest, slash, deref, left - 1)
      Enter(n) ==
        IF n.node = None THEN IF rest = <<>> THEN Missing(dir, Head(names)) ELSE Error("ENOENT")
        ELSE IF tree[n.node].kind = "dir" THEN Walk(view, n, rest, slash, deref, left)
        ELSE IF rest = <<>> /\ ~slash /\ (tree[n.node].kind = "file" \/ ~deref) THEN Found(n)
        ELSE IF tree[n.node].kind = "file" THEN Error("ENOTDIR")
        ELSE IF left = 0 THEN Error("ELOOP")
        ELSE Follow(Start(view, n, dir))
  IN  IF names = <<>> THEN Found(dir)
      ELSE IF Head(names) = "." THEN Walk(view, dir, rest, slash, deref, left)
      ELSE IF Head(names) = ".." THEN Walk(view, Parent(view, dir), rest, slash, deref, left)
      ELSE Enter(Child(view, dir, Head(names)))

(* What the kernel does with a path of the host, and what a kernel that had *)
(* mounted the bindings would do with a path of the guest.                  *)
Kernel(host, end, deref) ==
  Walk(HostView, Place("Top", <<>>), IF end = "/." THEN Append(host, ".") ELSE host, end = "/", deref, MaxLinks)

Reference(p, deref) ==
  Walk(GuestView, IF p.abs THEN Place("Root", <<>>) ELSE at,
       IF p.end = "/." THEN Append(p.names, ".") ELSE p.names, p.end = "/", deref, MaxLinks)

-----------------------------------------------------------------------------
(* Bindings (path/binding.c).  A list is searched from its head.            *)

get_binding(list, side, path) ==
  LET hits == {i \in 1 .. Len(list) :
                 /\ IsPrefix(list[i][side], path)
                 /\ side = "host" => ~IsPrefix(HostRoot, path)}
  IN  IF hits = {} THEN None ELSE list[CHOOSE i \in hits : \A j \in hits : i <= j]

insort_binding_Prepended(list, side, new) == <<new>> \o list

(* A binding is put behind the last of those it contains, and if there is   *)
(* none at the head; among the guests' paths, it replaces one of the same   *)
(* path.                                                                    *)
insort_binding(list, side, new) ==
  LET equal == {i \in 1 .. Len(list) : list[i][side] = new[side]}
      inside == {i \in 1 .. Len(list) : IsPrefix(new[side], list[i][side])}
      previous == CHOOSE i \in inside : \A j \in inside : j <= i
  IN  IF side = "guest" /\ equal # {} THEN ReplaceAt(list, CHOOSE i \in equal : TRUE, new)
      ELSE InsertAt(list, IF inside = {} THEN 1 ELSE previous + 1, new)

(* new_binding for each binding in the order the user gives, then           *)
(* initialize_bindings, from the last of the pending list to the first.     *)
initialize_bindings(order) ==
  LET pending == FoldLeft(LAMBDA list, b : insort_binding(list, "guest", b), <<>>, order)
      Sorted(side) == FoldRight(LAMBDA b, list : insort_binding(list, side, b), pending, <<>>)
  IN  [guest |-> Sorted("guest"), host |-> Sorted("host")]

substitute_binding(side, path) ==
  LET b == get_binding(lists[side], side, path)
      other == IF side = "guest" THEN "host" ELSE "guest"
  IN  IF b = None THEN path ELSE b[other] \o After(path, b[side])

-----------------------------------------------------------------------------
(* From the host to the guest (path/path.c): a path, or the contents of the *)
(* link "referrer".                                                         *)

belongs_to_guestfs(path) == IsPrefix(HostRoot, path)

Stripped(path) == IF belongs_to_guestfs(path) THEN After(path, HostRoot) ELSE path

detranslate_path(path) ==
  IF get_binding(lists.host, "host", path) # None
    THEN substitute_binding("host", path) ELSE Stripped(path)

detranslate_link(target, referrer) ==
  LET b == get_binding(lists.host, "host", target.names)
      same == /\ ~belongs_to_guestfs(referrer) /\ b # None
              /\ b = get_binding(lists.host, "host", referrer)
  IN  IF ~target.abs THEN target
      ELSE IF same THEN [target EXCEPT !.names = substitute_binding("host", @)]
      ELSE [target EXCEPT !.names = Stripped(@)]

-----------------------------------------------------------------------------
(* Canonicalization (path/canon.c).  The result has the path, what follows  *)
(* it, and an error or "".                                                  *)

Canonical(names, end) == [names |-> names, end |-> end, errno |-> ""]
Failed(errno) == [names |-> <<>>, end |-> "", errno |-> errno]

(* The kind of the node of a guest's path, or the error if another name is  *)
(* to follow.                                                               *)
lstat(path) == Walk(HostView, Place("Top", <<>>), substitute_binding("guest", path), FALSE, FALSE, MaxLinks)

substitute_binding_stat(final, path) ==
  LET l == lstat(path)
      kind == IF l.is = "found" THEN tree[l.at.node].kind ELSE "none"
  IN  IF final \/ kind \in {"dir", "link"} THEN kind
      ELSE IF kind = "none" THEN "ENOENT" ELSE "ENOTDIR"

Errors == {"ENOENT", "ENOTDIR"}

RECURSIVE canonicalize(_, _, _, _), Components(_, _, _, _, _)
Components(path, names, end, deref, level) ==
  LET c == Head(names)
      final == Len(names) = 1
      Then(p, e) == IF final THEN Canonical(p, e) ELSE Components(p, Tail(names), end, deref, level)
      Checked(kind, p) == IF kind \in Errors THEN Failed(kind) ELSE Then(p, end)
      Referee(next) ==
        canonicalize(detranslate_link(tree[lstat(next).at.node].target, substitute_binding("guest", next)),
                     TRUE, path, level + 1)
      Follow(referee) ==
        IF referee.errno # "" THEN referee
        ELSE Checked(substitute_binding_stat(final, referee.names), referee.names)
      Enter(next, kind) ==
        IF kind = "link" /\ (~final \/ end # "" \/ deref) THEN Follow(Referee(next))
        ELSE Checked(kind, next)
  IN  IF names = <<>> THEN Canonical(path, end)
      ELSE IF c = "." THEN Then(path, "/.")
      ELSE IF c = ".." THEN Then(IF path = <<>> THEN path ELSE Front(path), "/")
      ELSE Enter(Append(path, c), substitute_binding_stat(final, Append(path, c)))

canonicalize(p, deref, base, level) ==
  LET Names == IF p.end = "/." THEN Append(p.names, ".") ELSE p.names
      From(path, kind) ==
        IF kind \in Errors THEN Failed(kind)
        ELSE Components(path, Names, IF p.end = "/." THEN "" ELSE p.end, deref, level)
      root == IF p.abs THEN <<>> ELSE base
  IN  IF level > MaxLinks THEN Failed("ELOOP")
      ELSE From(root, substitute_binding_stat(FALSE, root))

(* The path of the host: relative paths are put behind that of the working  *)
(* directory, and all of it is looked up again.                             *)
translate_path(p, deref) ==
  LET OnHost(c) == IF c.errno # "" THEN c ELSE [c EXCEPT !.names = substitute_binding("guest", @)]
  IN  OnHost(canonicalize(IF p.abs THEN p ELSE Path(TRUE, cwd \o p.names, p.end), deref, <<>>, 0))

(* A call with a path: what the kernel does with the translated one.        *)
Execute(host, deref) ==
  IF host.errno # "" THEN Error(host.errno) ELSE Kernel(host.names, host.end, deref)

Done(p, deref) == Execute(translate_path(p, deref), deref)

-----------------------------------------------------------------------------
(* Of several bindings to one path the last is active.                      *)
Mounts(order) ==
  LET active == {order[i] : i \in {i \in 1 .. Len(order) :
                   \A j \in i + 1 .. Len(order) : order[j].guest # order[i].guest}}
      Dir(b) == CHOOSE c \in active : c.guest = Front(b.guest)
  IN  {[guest |-> b.guest, host |-> b.host, node |-> b.node,
        dir |-> Place(Dir(b).node, Dir(b).guest), name |-> Last(b.guest)] :
         b \in {b \in active : b.guest # <<>>}}

Unused == [kind |-> "none", parent |-> None, name |-> "", target |-> None]

Init ==
  /\ tree = [n \in Nodes |->
               IF n \in Spare THEN Unused
               ELSE [kind |-> "dir", parent |-> Fixed[n].parent, name |-> Fixed[n].name, target |-> None]]
  /\ \E order \in SetToSeqs(Bindings \cup {[guest |-> <<>>, host |-> HostRoot, node |-> "Root"]}) :
       lists = initialize_bindings(order) /\ mounts = Mounts(order)
  /\ cwd = <<>>
  /\ at = Place("Root", <<>>)
  /\ lost = FALSE

Used(n) == n \in Spare /\ tree[n].kind # "none"

(* The working directory is in a directory that is bound and is also in the *)
(* root, or bound twice: PRoot knows it by one path only (enter.c says so). *)
Ambiguous == Reference(Path(TRUE, cwd, ""), FALSE).at.via # at.via

(* A process moved or removed a directory that the working directory is in. *)
Lose(n) ==
  /\ lost' = (lost \/ Below(at.node, n))
  /\ at' = IF lost' THEN Place("Root", <<>>) ELSE at

(* mkdir, open of a new file, symlink.                                      *)
Create(p, kind, target) ==
  /\ \E s \in Spare : ~Used(s)
  /\ \E d \in {Done(p, FALSE)} :
       /\ d.is = "missing"
       /\ LET n == CHOOSE s \in Spare : ~Used(s) IN
          tree' = [tree EXCEPT ![n] = [kind |-> kind, parent |-> d.at.node, name |-> d.name, target |-> target]]
  /\ UNCHANGED <<lists, mounts, cwd, at, lost>>

(* rmdir and unlink.                                                        *)
Delete(p) ==
  \E d \in {Done(p, FALSE)} :
    /\ d.is = "found"
    /\ Used(d.at.node)
    /\ \A c \in Spare : tree[c].parent # d.at.node
    /\ tree' = [tree EXCEPT ![d.at.node] = Unused]
    /\ Lose(d.at.node)
    /\ UNCHANGED <<lists, mounts, cwd>>

(* chdir, which PRoot does alone.                                           *)
Chdir(p) ==
  \E host \in {translate_path(Path(p.abs, p.names, "/."), TRUE)} :
    /\ host.errno = ""
    /\ Kernel(host.names, "/.", TRUE).is = "found"
    /\ cwd' = detranslate_path(host.names)
    /\ Len(cwd') <= MaxDepth
    /\ lost' = (~p.abs /\ (lost \/ Ambiguous))
    /\ at' = IF lost' THEN Place("Root", <<>>) ELSE Reference(Path(p.abs, p.names, "/."), TRUE).at
    /\ UNCHANGED <<tree, lists, mounts>>

(* rename: the kernel moves the node, and PRoot corrects the working        *)
(* directory of the guest that made the call.                               *)
CanMove(n, dir) == Used(n) /\ ~Below(dir, n)

Moved(n, dir, name) == [tree EXCEPT ![n].parent = dir, ![n].name = name]

Rename_CwdKept(old, new) ==
  \E from \in {Done(old, FALSE)} :
    /\ from.is = "found" /\ Used(from.at.node)
    /\ \E to \in {Done(new, FALSE)} :
         /\ to.is = "missing" /\ CanMove(from.at.node, to.at.node)
         /\ tree' = Moved(from.at.node, to.at.node, to.name)
    /\ at' = IF Below(at.node, from.at.node) THEN [at EXCEPT !.via = Reference(new, FALSE).at.via] ELSE at
    /\ UNCHANGED <<lists, mounts, cwd, lost>>

Rename(old, new) ==
  \E oldHost \in {translate_path(old, FALSE)} : \E from \in {Execute(oldHost, FALSE)} :
    /\ from.is = "found" /\ Used(from.at.node)
    /\ \E newHost \in {translate_path(new, FALSE)} : \E to \in {Execute(newHost, FALSE)} :
         /\ to.is = "missing" /\ CanMove(from.at.node, to.at.node)
         /\ tree' = Moved(from.at.node, to.at.node, to.name)
         /\ LET oldGuest == detranslate_path(oldHost.names) IN
            cwd' = IF IsPrefix(oldGuest, cwd) THEN detranslate_path(newHost.names) \o After(cwd, oldGuest) ELSE cwd
    /\ Len(cwd') <= MaxDepth
    /\ at' = IF Below(at.node, from.at.node) THEN [at EXCEPT !.via = Reference(new, FALSE).at.via] ELSE at
    /\ UNCHANGED <<lists, mounts, lost>>

(* Another process, or a call that PRoot does not follow (renameat2), moves *)
(* a node.                                                                  *)
Elsewhere(n, dir, name) ==
  /\ tree[dir].kind = "dir"
  /\ CanMove(n, dir)
  /\ \A c \in Nodes : tree[c].parent = dir => tree[c].name # name
  /\ tree' = Moved(n, dir, name)
  /\ Lose(n)
  /\ UNCHANGED <<lists, mounts, cwd>>

Next ==
  \/ \E p \in Places :
       \/ \E kind \in {"dir", "file"} : Create(p, kind, None)
       \/ \E target \in Targets : Create(p, "link", target)
       \/ Chdir(p)
       \/ Delete(p)
       \/ \E new \in Places : Rename(p, new)
  \/ \E n \in Spare, dir \in Spare \cup {"Root"} : Elsewhere(n, dir, "b")

Spec == Init /\ [][Next]_vars

-----------------------------------------------------------------------------
(* Every path leads a guest where it would if its root and the bindings     *)
(* were mounted: links and ".." are those of the guest, a nested binding    *)
(* hides the one around it, and nothing is looked up from the root of the   *)
(* device.  A relative path does as long as no other process has moved the  *)
(* working directory.                                                       *)
SameFile ==
  \A p \in UserPaths, deref \in BOOLEAN :
    \E got \in {Done(p, deref)}, wanted \in {Reference(p, deref)} :
      p.abs \/ ~(lost \/ Ambiguous) =>
        <<got.is, got.at.node, got.name>> = <<wanted.is, wanted.at.node, wanted.name>>

(* The path that PRoot keeps is that of the working directory, through      *)
(* every chdir and rename of the guest.                                     *)
CwdFollows == ~lost => Kernel(substitute_binding("guest", cwd), "", FALSE).at.node = at.node
=============================================================================
