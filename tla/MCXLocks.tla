------------------------------ MODULE MCXLocks ------------------------------
(* XLocks with two threads that inject input: the interface and a timer. *)
EXTENDS XLocks

CONSTANTS ui, timer

MCInputThreads == {ui, timer}

\* One thread of each kind; "send" and the timer follow nests of "receive" and of the interface.
MCRunning == {"epoll", "sysvshm", "gl", "virgl", "receive", ui}

=============================================================================
