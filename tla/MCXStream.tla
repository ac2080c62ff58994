----------------------------- MODULE MCXStream -----------------------------
(* Instances of XStream: requests shorter and longer than the buffer, big   *)
(* requests, two that carry descriptors, after a setup whose body may be    *)
(* late.                                                                    *)
EXTENDS XStream

Req(kind, body, carriesFd) == [kind |-> kind, body |-> body, carriesFd |-> carriesFd]

WithSetup ==
  << Req("setup", 1, FALSE), Req("normal", 1, TRUE), Req("big", 3, FALSE),
     Req("normal", 0, FALSE), Req("normal", 2, TRUE), Req("normal", 0, TRUE),
     Req("big", 1, FALSE) >>

=============================================================================
