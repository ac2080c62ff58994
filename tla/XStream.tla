------------------------------ MODULE XStream ------------------------------
(***************************************************************************)
(* One connection of a single-threaded connector at the level of bytes:     *)
(* how XInputStream and handleExistingConnection turn a stream that arrives  *)
(* in arbitrary pieces into whole requests, and how descriptors that came    *)
(* with the bytes (SCM_RIGHTS) are paired with the requests they belong to.  *)
(*                                                                         *)
(* A request is a header, an optional second header (BIG-REQUESTS length)    *)
(* and a body.  The first request may be the connection setup, which         *)
(* handleAuthRequest reads without waiting for its body.                     *)
(***************************************************************************)
EXTENDS Naturals, Sequences

CONSTANTS
  Requests,         \* what the peer writes: records [kind, body, carriesFd]
  HeaderSize,       \* bytes of a header
  InitialCapacity   \* initialInputBufferCapacity

Kinds == {"setup", "normal", "big"}

ASSUME StreamAssumption ==
  /\ Requests \in Seq([kind : Kinds, body : Nat, carriesFd : BOOLEAN])
  /\ \A i \in 2 .. Len(Requests) : Requests[i].kind # "setup"
  /\ HeaderSize \in Nat \ {0}
  /\ InitialCapacity \in Nat \ {0}

VARIABLES
  pc,               \* where the epoll thread is with this connection
  running,          \* the connector has not been stopped
  taken,            \* bytes read from the socket so far
  buffer,           \* the bytes of `buffer` up to its position
  capacity,         \* its capacity
  position,         \* position of activeBuffer
  activePosition,   \* the local of handleExistingConnection
  ancillaryFds,     \* descriptors received and not yet used
  handled,          \* requests passed to the handler, with the descriptor used
  rejected          \* a request that carried a descriptor was answered by an error

vars == <<pc, running, taken, buffer, capacity, position, activePosition,
          ancillaryFds, handled, rejected>>

-----------------------------------------------------------------------------
(* The stream the peer writes: byte number `off` of request number `req`.   *)

Header(i) == IF Requests[i].kind = "big" THEN 2 * HeaderSize ELSE HeaderSize
Size(i) == Header(i) + Requests[i].body

Start[i \in 1 .. Len(Requests) + 1] ==
  IF i = 1 THEN 0 ELSE Start[i - 1] + Size(i - 1)

StreamSize == Start[Len(Requests) + 1]

RequestOf(b) == CHOOSE i \in 1 .. Len(Requests) : Start[i] < b /\ b <= Start[i + 1]

Byte(b) == [req |-> RequestOf(b), off |-> b - Start[RequestOf(b)]]

Smaller(a, b) == IF a < b THEN a ELSE b

(* The requests with a descriptor whose first byte is among bytes a..b.     *)
FdsIn(a, b) ==
  LET upTo[i \in 0 .. Len(Requests)] ==
        IF i = 0 THEN <<>>
        ELSE IF Requests[i].carriesFd /\ Start[i] + 1 \in a .. b THEN Append(upTo[i - 1], i)
        ELSE upTo[i - 1]
  IN  upTo[Len(Requests)]

NoFd == 0

-----------------------------------------------------------------------------
Init ==
  /\ pc = "poll"
  /\ running = TRUE
  /\ taken = 0
  /\ buffer = <<>>
  /\ capacity = InitialCapacity
  /\ position = 0
  /\ activePosition = 0
  /\ ancillaryFds = <<>>
  /\ handled = <<>>
  /\ rejected = FALSE

available == Len(buffer) - position

(* readMoreData, before the read: clear() or compact() the buffer, so that  *)
(* what was not consumed is at its start.                                   *)
Unconsumed_Cleared == <<>>                    \* mutant: always clear()

Unconsumed == SubSeq(buffer, position + 1, Len(buffer))

(* growInputBufferIfNecessary.                                              *)
Grown_Never(c, used) == c                               \* mutant: never grows

Grown(c, used) == IF used = c THEN 2 * c ELSE c

(* The socket delivers any number of the bytes that fit.                    *)
ReadMoreData ==
  /\ pc = "poll"
  /\ LET room == Grown(capacity, Len(Unconsumed)) - Len(Unconsumed) IN
     \E n \in 1 .. Smaller(room, StreamSize - taken) :
       /\ buffer' = Unconsumed \o [b \in 1 .. n |-> Byte(taken + b)]
       /\ taken' = taken + n
       /\ ancillaryFds' = ancillaryFds \o FdsIn(taken + 1, taken + n)
  /\ capacity' = Grown(capacity, Len(Unconsumed))
  /\ position' = 0
  /\ activePosition' = 0
  /\ pc' = "handle"
  /\ UNCHANGED <<running, handled, rejected>>

(* read() returns 0: the peer has closed, or there was no room to read into.*)
EndOfFile ==
  /\ pc = "poll"
  /\ 0 \in {StreamSize - taken, Grown(capacity, Len(Unconsumed)) - Len(Unconsumed)}
  /\ pc' = "killed"
  /\ UNCHANGED <<running, taken, buffer, capacity, position, activePosition,
                 ancillaryFds, handled, rejected>>

-----------------------------------------------------------------------------
(* The handler decodes the header it finds at the active position.          *)

Next1 == buffer[position + 1].req

HeaderRead == available >= HeaderSize

(* Mutant: the length of the body is compared without the header.           *)
Complete_WithoutHeader == HeaderRead /\ available >= Requests[Next1].body

Complete == HeaderRead /\ available >= Size(Next1)

(* Mutant: takes the descriptor received last.                              *)
HandleRequest_LastFd ==
  /\ pc = "handle"
  /\ running
  /\ Complete
  /\ LET i == Next1
         n == Len(ancillaryFds)
         usesFd == Requests[i].carriesFd /\ n > 0
     IN  /\ handled' = Append(handled, [req |-> i, fd |-> IF usesFd THEN ancillaryFds[n] ELSE NoFd])
         /\ ancillaryFds' = IF usesFd THEN SubSeq(ancillaryFds, 1, n - 1) ELSE ancillaryFds
         /\ position' = position + Size(i)
  /\ activePosition' = position'
  /\ UNCHANGED <<pc, running, taken, buffer, capacity, rejected>>

(* One turn of the loop with a whole request: the handler consumes it; a    *)
(* request that carries a descriptor takes the first one received.          *)
HandleRequest ==
  /\ pc = "handle"
  /\ running
  /\ Complete
  /\ LET i == Next1
         usesFd == Requests[i].carriesFd /\ ancillaryFds # <<>>
     IN  /\ handled' = Append(handled, [req |-> i, fd |-> IF usesFd THEN Head(ancillaryFds) ELSE NoFd])
         /\ ancillaryFds' = IF usesFd THEN Tail(ancillaryFds) ELSE ancillaryFds
         /\ position' = position + Size(i)
  /\ activePosition' = position'
  /\ UNCHANGED <<pc, running, taken, buffer, capacity, rejected>>

(* The handler throws XRequestError: skipRequest() and an error reply.  The *)
(* DRI3 requests check their window and pixmap before they take the          *)
(* descriptor, which then stays queued.                                     *)
RejectRequest ==
  /\ pc = "handle"
  /\ running
  /\ Complete
  /\ LET i == Next1 IN
       /\ Requests[i].kind # "setup"
       /\ handled' = Append(handled, [req |-> i, fd |-> NoFd])
       /\ rejected' = (rejected \/ Requests[i].carriesFd)
       /\ position' = position + Size(i)
  /\ activePosition' = position'
  /\ UNCHANGED <<pc, running, taken, buffer, capacity, ancillaryFds>>

(* Mutant: no request is checked for its body.                              *)
SetupUnderflow_Any ==
  /\ pc = "handle"
  /\ running
  /\ HeaderRead
  /\ ~Complete
  /\ pc' = "crashed"
  /\ UNCHANGED <<running, taken, buffer, capacity, position, activePosition,
                 ancillaryFds, handled, rejected>>

(* The setup is read without checking that its body has arrived: a buffer   *)
(* underflow, which nothing catches.                                        *)
SetupUnderflow ==
  /\ pc = "handle"
  /\ running
  /\ HeaderRead
  /\ ~Complete
  /\ Requests[Next1].kind = "setup"
  /\ pc' = "crashed"
  /\ UNCHANGED <<running, taken, buffer, capacity, position, activePosition,
                 ancillaryFds, handled, rejected>>

(* An incomplete request: the handler returns false, having read none, one  *)
(* or both of the headers.                                                  *)
HandleIncomplete ==
  /\ pc = "handle"
  /\ running
  /\ ~Complete
  /\ HeaderRead => Requests[Next1].kind # "setup"
  /\ position' = IF ~HeaderRead THEN position
                 ELSE position + Smaller(Header(Next1), HeaderSize * (available \div HeaderSize))
  /\ pc' = "leave"
  /\ UNCHANGED <<running, taken, buffer, capacity, activePosition, ancillaryFds,
                 handled, rejected>>

(* The loop ends because the connector is being stopped.                    *)
StopHandling ==
  /\ pc = "handle"
  /\ ~running
  /\ pc' = "leave"
  /\ UNCHANGED <<running, taken, buffer, capacity, position, activePosition,
                 ancillaryFds, handled, rejected>>

(* Mutant: the active position is not restored.                             *)
SetActivePosition_Kept ==
  /\ pc = "leave"
  /\ pc' = IF running THEN "poll" ELSE "killed"
  /\ UNCHANGED <<running, taken, buffer, capacity, position, activePosition,
                 ancillaryFds, handled, rejected>>

(* setActivePosition(activePosition).  After stop() the thread serves no    *)
(* further event.                                                           *)
SetActivePosition ==
  /\ pc = "leave"
  /\ position' = activePosition
  /\ pc' = IF running THEN "poll" ELSE "killed"
  /\ UNCHANGED <<running, taken, buffer, capacity, activePosition, ancillaryFds,
                 handled, rejected>>

(* shutdown() kills the connection once the thread has left its loop.        *)
ShutdownKill ==
  /\ pc = "poll"
  /\ ~running
  /\ pc' = "killed"
  /\ UNCHANGED <<running, taken, buffer, capacity, position, activePosition,
                 ancillaryFds, handled, rejected>>

Stop ==
  /\ running
  /\ running' = FALSE
  /\ UNCHANGED <<pc, taken, buffer, capacity, position, activePosition,
                 ancillaryFds, handled, rejected>>

ThreadStep ==
  \/ ReadMoreData \/ EndOfFile
  \/ HandleRequest \/ RejectRequest \/ SetupUnderflow \/ HandleIncomplete
  \/ StopHandling \/ SetActivePosition \/ ShutdownKill

Next == ThreadStep \/ Stop

Spec == Init /\ [][Next]_vars

(* The epoll thread keeps running.                                          *)
FairSpec == Spec /\ WF_vars(ThreadStep)

-----------------------------------------------------------------------------
TypeOK ==
  /\ pc \in {"poll", "handle", "leave", "killed", "crashed"}
  /\ running \in BOOLEAN
  /\ taken \in 0 .. StreamSize
  /\ buffer \in Seq([req : 1 .. Len(Requests), off : Nat \ {0}])
  /\ capacity \in Nat \ {0}
  /\ position \in 0 .. Len(buffer)
  /\ activePosition \in 0 .. Len(buffer)
  /\ ancillaryFds \in Seq(1 .. Len(Requests))
  /\ handled \in Seq([req : 1 .. Len(Requests), fd : 0 .. Len(Requests)])
  /\ rejected \in BOOLEAN

(* Whatever the pieces in which the stream arrives, the bytes consumed are  *)
(* exactly those of the requests handled, and what is buffered is the next   *)
(* part of the stream, without gap or repetition.                           *)
NothingLost ==
  /\ Len(buffer) <= taken
  /\ \A b \in 1 .. Len(buffer) : buffer[b] = Byte(taken - Len(buffer) + b)
  /\ pc \in {"poll", "handle"} =>
       taken - available = Start[Len(handled) + 1]

(* Every request that carries a descriptor is given the one that was sent   *)
(* with it, as long as no such request was answered by an error.            *)
FdsPaired ==
  ~rejected =>
    \A h \in 1 .. Len(handled) :
      Requests[handled[h].req].carriesFd => handled[h].fd = handled[h].req

(* A request that has arrived only in part never makes its handler read     *)
(* past the buffer, except for the setup, whose body is not waited for.     *)
CrashOnlyInSetup ==
  pc = "crashed" => handled = <<>> /\ Requests[1].kind = "setup" /\ Requests[1].body > 0

(* The stream code implements the queue of requests.                        *)
Queue == INSTANCE RequestQueue
  WITH Total <- Len(Requests),
       delivered <- [h \in 1 .. Len(handled) |-> handled[h].req]

DeliversInOrder == Queue!Spec

(* Under fair scheduling every request is delivered, unless the connector is *)
(* stopped or the setup crashes the thread: a request longer than the buffer *)
(* makes it grow instead of blocking the connection.                        *)
DeliversAll == <>(Len(handled) = Len(Requests) \/ ~running \/ pc = "crashed")

=============================================================================
