--------------------------- MODULE MCProotSyscalls ---------------------------
(* Small instances of ProotSyscalls.                                        *)
EXTENDS ProotSyscalls

(* The second call of the guest: one of each way of being translated.       *)
Representative ==
  {"getpid", "openat", "open", "readlinkat", "chdir", "set_robust_list", "utime", "brk",
   "ptrace"}
=============================================================================
