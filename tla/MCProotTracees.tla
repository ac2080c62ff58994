---------------------------- MODULE MCProotTracees ----------------------------
(* The command traces two guests, by the requests a debugger makes.          *)
EXTENDS ProotTracees
CONSTANTS main, guest1, guest2

Do(what, pid) == [what |-> what, pid |-> pid, hang |-> TRUE]
Wait(pid, hang) == [what |-> "wait", pid |-> pid, hang |-> hang]

Menus ==
  [p \in {main, guest1, guest2} |->
     IF p = main
       THEN {Do("cont", guest1), Do("syscall", guest1), Do("setoptions", guest1),
             Do("detach", guest1), Do("attach", guest1), Do("cont", guest2),
             Wait(Any, TRUE), Wait(Any, FALSE), Wait(guest1, TRUE)}
       ELSE {Do("traceme", Nobody), Do("other", Nobody)}]
=============================================================================
