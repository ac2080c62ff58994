---------------------------- MODULE MCProotPaths ----------------------------
(* The bindings of the launcher: /dev, and the shared memory, which is in    *)
(* the root; and a directory bound to another path, /h to /m.                *)
EXTENDS ProotPaths
CONSTANTS x, y

Directory(parent, name) == [parent |-> parent, name |-> name]
Directories ==
  [n \in {"Top", "Root", "Dev", "Tmp", "H"} |->
     CASE n = "Top"  -> Directory("Top", "")
       [] n = "Root" -> Directory("Top", "rootfs")
       [] n = "Tmp"  -> Directory("Root", "tmp")
       [] n = "Dev"  -> Directory("Top", "dev")
       [] n = "H"    -> Directory("Top", "h")]

Binds ==
  {[guest |-> <<"dev">>, host |-> <<"dev">>, node |-> "Dev"],
   [guest |-> <<"dev", "shm">>, host |-> <<"rootfs", "tmp">>, node |-> "Tmp"],
   [guest |-> <<"m">>, host |-> <<"h">>, node |-> "H"]}

Abs(names) == Path(TRUE, names, "")
Rel(names) == Path(FALSE, names, "")

Simple ==
  {Abs(<<"a">>), Abs(<<"a", "b">>), Abs(<<"m", "a">>), Abs(<<"dev", "shm", "a">>),
   Abs(<<"dev", "shm">>), Rel(<<"..", "b">>)}

Paths ==
  Simple \cup
  {Rel(<<"a">>), Abs(<<>>), Abs(<<"b", "a">>), Abs(<<"tmp", "a">>), Abs(<<"m", "..", "a">>),
   Abs(<<"a", "..", "b">>), Abs(<<"dev", "shm", "..", "a">>), Path(TRUE, <<"a">>, "/"),
   Rel(<<"..">>), Rel(<<"b", "a">>), Rel(<<"..", "..", "m", "b">>)}

Contents == {Rel(<<"..", "a">>), Abs(<<"m", "a">>), Abs(<<"h", "b">>)}
=============================================================================
