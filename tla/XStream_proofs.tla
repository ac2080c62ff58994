--------------------------- MODULE XStream_proofs ---------------------------
(***************************************************************************)
(* What XStream promises for every stream of requests, every size of header *)
(* and every capacity of the buffer.                                        *)
(***************************************************************************)
EXTENDS XStream, SequenceTheorems, WellFoundedInduction, TLAPS

N == Len(Requests)

(* Induction: a set of numbers has a least one.                             *)
LEMMA LeastNumber ==
  ASSUME NEW T \in SUBSET Nat, T # {}
  PROVE  \E m \in T : \A n \in T : m <= n
<1> DEFINE R == {ss \in Nat \X Nat : ss[1] < ss[2]}
<1>1. IsWellFoundedOn(R, Nat)
  BY NatLessThanWellFounded DEF OpToRel
<1>2. PICK m \in T : \A n \in T : ~(<<n, m>> \in R)
  <2> HIDE DEF R
  <2> QED BY <1>1, WFMin
<1>3. ASSUME NEW n \in T PROVE m <= n
  <2>1. <<n, m>> \in Nat \X Nat /\ <<n, m>>[1] = n /\ <<n, m>>[2] = m
    OBVIOUS
  <2>2. ~(n < m)
    BY <1>2, <2>1
  <2> QED BY <2>2
<1> QED
  BY <1>3

-----------------------------------------------------------------------------
(* The stream.                                                              *)

LEMMA RequestTypes ==
  /\ N \in Nat
  /\ \A i \in 1 .. N : /\ Requests[i] \in [kind : Kinds, body : Nat, carriesFd : BOOLEAN]
                       /\ Header(i) \in Nat \ {0}
                       /\ Size(i) \in Nat \ {0}
                       /\ HeaderSize <= Header(i)
                       /\ Header(i) <= Size(i)
<1>1. N \in Nat /\ \A i \in 1 .. N : Requests[i] \in [kind : Kinds, body : Nat, carriesFd : BOOLEAN]
  <2> DEFINE R == [kind : Kinds, body : Nat, carriesFd : BOOLEAN]
  <2>1. Requests \in Seq(R)
    BY StreamAssumption
  <2> HIDE DEF R
  <2>2. Len(Requests) \in Nat /\ \A i \in 1 .. Len(Requests) : Requests[i] \in R
    BY <2>1, LenProperties, ElementOfSeq
  <2> QED BY <2>2 DEF N, R
<1>2. ASSUME NEW i \in 1 .. N
      PROVE  Header(i) \in Nat \ {0} /\ HeaderSize <= Header(i)
  BY StreamAssumption DEF Header
<1>3. ASSUME NEW i \in 1 .. N
      PROVE  Size(i) \in Nat \ {0} /\ Header(i) <= Size(i)
  BY <1>1, <1>2 DEF Size
<1> QED
  BY <1>1, <1>2, <1>3

(* The recursive definition of Start has a solution, so Start is one.       *)
LEMMA StartExists ==
  \E f : f = [i \in 1 .. Len(Requests) + 1 |->
                IF i = 1 THEN 0 ELSE f[i - 1] + Size(i - 1)]
<1> DEFINE Solves(f, n) ==
             f \in [1 .. n -> Nat]
             /\ \A i \in 1 .. n : f[i] = IF i = 1 THEN 0 ELSE f[i - 1] + Size(i - 1)
           Bad == {n \in 1 .. N + 1 : \A f : ~Solves(f, n)}
<1>1. Bad = {}
  <2> SUFFICES ASSUME Bad # {} PROVE FALSE
    OBVIOUS
  <2>1. PICK m \in Bad : \A n \in Bad : m <= n
    <3>1. Bad \in SUBSET Nat
      BY RequestTypes
    <3> HIDE DEF Bad
    <3> QED BY <3>1, LeastNumber
  <2>2. m # 1
    <3>1. Solves([i \in 1 .. 1 |-> 0], 1)
      OBVIOUS
    <3> HIDE DEF Solves
    <3> QED BY <3>1
  <2>3. m - 1 \in 1 .. N /\ m - 1 \notin Bad
    <3>1. m \in 1 .. N + 1 /\ ~(m <= m - 1) /\ m - 1 \in 1 .. N
      BY <2>2, RequestTypes
    <3> HIDE DEF Bad
    <3> QED BY <2>1, <3>1
  <2>4. PICK f : Solves(f, m - 1)
    <3> HIDE DEF Solves
    <3> QED BY <2>3, RequestTypes
  <2> DEFINE g == [i \in 1 .. m |-> IF i < m THEN f[i] ELSE f[m - 1] + Size(m - 1)]
  <2>5. Size(m - 1) \in Nat
    BY <2>3, RequestTypes
  <2>6. Solves(g, m)
    BY <2>2, <2>3, <2>4, <2>5
  <2> HIDE DEF Solves, g
  <2> QED
    BY <2>6
<1>2. PICK f : Solves(f, N + 1)
  <2> HIDE DEF Solves
  <2> QED BY <1>1, RequestTypes
<1>3. f = [i \in 1 .. N + 1 |-> IF i = 1 THEN 0 ELSE f[i - 1] + Size(i - 1)]
  BY <1>2
<1> QED
  BY <1>3 DEF N

LEMMA StartDef ==
  Start = [i \in 1 .. Len(Requests) + 1 |->
             IF i = 1 THEN 0 ELSE Start[i - 1] + Size(i - 1)]
  BY StartExists DEF Start

LEMMA StartTypes ==
  /\ Start \in [1 .. N + 1 -> Nat]
  /\ Start[1] = 0
  /\ \A i \in 1 .. N : Start[i + 1] = Start[i] + Size(i)
<1> DEFINE Bad == {n \in 1 .. N + 1 : Start[n] \notin Nat}
<1>1. Start = [i \in 1 .. N + 1 |-> IF i = 1 THEN 0 ELSE Start[i - 1] + Size(i - 1)]
  BY StartDef DEF N
<1>2. DOMAIN Start = 1 .. N + 1
  BY <1>1
<1>3. Start[1] = 0
  BY <1>1, RequestTypes
<1>4. ASSUME NEW i \in 1 .. N
      PROVE  Start[i + 1] = Start[i] + Size(i)
  <2>1. i + 1 \in 1 .. N + 1 /\ i + 1 # 1 /\ (i + 1) - 1 = i
    BY RequestTypes
  <2> QED BY <1>1, <2>1
<1>5. Bad = {}
  <2> SUFFICES ASSUME Bad # {} PROVE FALSE
    OBVIOUS
  <2>1. PICK m \in Bad : \A n \in Bad : m <= n
    <3>1. Bad \in SUBSET Nat
      BY RequestTypes
    <3> HIDE DEF Bad
    <3> QED BY <3>1, LeastNumber
  <2>2. m # 1
    BY <1>3
  <2>3. m - 1 \in 1 .. N /\ m - 1 \notin Bad /\ (m - 1) + 1 = m
    <3>1. m \in 1 .. N + 1 /\ ~(m <= m - 1) /\ m - 1 \in 1 .. N /\ (m - 1) + 1 = m
      BY <2>2, RequestTypes
    <3> HIDE DEF Bad
    <3> QED BY <2>1, <3>1
  <2>4. Start[m - 1] \in Nat /\ Size(m - 1) \in Nat
    BY <2>3, RequestTypes
  <2>5. Start[m] = Start[m - 1] + Size(m - 1)
    BY <1>4, <2>3
  <2> QED
    BY <2>4, <2>5
<1> QED
  BY <1>1, <1>2, <1>3, <1>4, <1>5

(* Requests follow each other.                                              *)
LEMMA StartGrows ==
  \A i, j \in 1 .. N + 1 : i < j => Start[i] < Start[j]
<1> SUFFICES ASSUME NEW i \in 1 .. N + 1
             PROVE  \A j \in 1 .. N + 1 : i < j => Start[i] < Start[j]
  OBVIOUS
<1> DEFINE Bad == {j \in 1 .. N + 1 : i < j /\ ~(Start[i] < Start[j])}
<1> SUFFICES ASSUME Bad # {} PROVE FALSE
  OBVIOUS
<1>1. PICK m \in Bad : \A n \in Bad : m <= n
  <2>1. Bad \in SUBSET Nat
    BY RequestTypes
  <2> HIDE DEF Bad
  <2> QED BY <2>1, LeastNumber
<1>2. m - 1 \in 1 .. N /\ m - 1 \notin Bad /\ (m - 1) + 1 = m
  <2>1. m \in 1 .. N + 1 /\ ~(m <= m - 1) /\ m - 1 \in 1 .. N /\ (m - 1) + 1 = m
    BY RequestTypes
  <2> HIDE DEF Bad
  <2> QED BY <1>1, <2>1
<1>3. Start[m] = Start[m - 1] + Size(m - 1) /\ Size(m - 1) \in Nat \ {0}
  BY <1>2, StartTypes, RequestTypes
<1>4. Start[i] \in Nat /\ Start[m - 1] \in Nat /\ m - 1 >= i
  BY <1>2, StartTypes, RequestTypes
<1> QED
  BY <1>2, <1>3, <1>4, RequestTypes

LEMMA StreamTypes ==
  /\ StreamSize = Start[N + 1]
  /\ StreamSize \in Nat
  /\ \A i \in 1 .. N + 1 : Start[i] \in Nat
<1>1. N + 1 \in 1 .. N + 1
  BY RequestTypes
<1>2. \A i \in 1 .. N + 1 : Start[i] \in Nat
  BY StartTypes
<1>3. StreamSize = Start[N + 1]
  BY DEF StreamSize, N
<1> QED
  BY <1>1, <1>2, <1>3

(* Every byte belongs to one request.                                       *)
LEMMA RequestOfByte ==
  ASSUME NEW i \in 1 .. N, NEW b \in Nat, Start[i] < b, b <= Start[i + 1]
  PROVE  RequestOf(b) = i
<1> DEFINE P(k) == k \in 1 .. Len(Requests) /\ Start[k] < b /\ b <= Start[k + 1]
<1>1. P(i)
  BY DEF N
<1>2. \A k \in 1 .. Len(Requests) : P(k) => k = i
  <2> SUFFICES ASSUME NEW k \in 1 .. N, P(k), k # i PROVE FALSE
    BY DEF N
  <2>1. /\ {Start[i], Start[k], Start[i + 1], Start[k + 1]} \subseteq Nat
        /\ i < k => i + 1 = k \/ i + 1 < k
        /\ k < i => k + 1 = i \/ k + 1 < i
        /\ {i, k, i + 1, k + 1} \subseteq 1 .. N + 1
    BY StartTypes, RequestTypes
  <2>2. CASE i < k
    <3>1. Start[i + 1] <= Start[k]
      BY <2>1, <2>2, StartGrows
    <3> QED BY <2>1, <3>1
  <2>3. CASE k < i
    <3>1. Start[k + 1] <= Start[i]
      BY <2>1, <2>3, StartGrows
    <3> QED BY <2>1, <3>1
  <2> QED
    BY <2>2, <2>3, RequestTypes
<1>3. RequestOf(b) = CHOOSE k \in 1 .. Len(Requests) : P(k)
  BY DEF RequestOf
<1> HIDE DEF P
<1> QED
  BY <1>1, <1>2, <1>3 DEF N

LEMMA ByteHasRequest ==
  ASSUME NEW b \in 1 .. StreamSize
  PROVE  \E i \in 1 .. N : Start[i] < b /\ b <= Start[i + 1]
<1> DEFINE Ends == {j \in 1 .. N + 1 : b <= Start[j]}
<1>1. StreamSize = Start[N + 1] /\ StreamSize \in Nat /\ b \in Nat /\ N + 1 \in 1 .. N + 1
  BY StreamTypes, RequestTypes
<1>2. PICK m \in Ends : \A n \in Ends : m <= n
  <2>1. Ends \in SUBSET Nat /\ N + 1 \in Ends
    BY <1>1, RequestTypes
  <2> HIDE DEF Ends
  <2> QED BY <2>1, LeastNumber
<1>3. m # 1
  BY <1>1, StartTypes
<1>4. m - 1 \in 1 .. N /\ m - 1 \notin Ends /\ (m - 1) + 1 = m
  <2>1. m \in 1 .. N + 1 /\ ~(m <= m - 1) /\ m - 1 \in 1 .. N /\ (m - 1) + 1 = m
    BY <1>3, RequestTypes
  <2> HIDE DEF Ends
  <2> QED BY <1>2, <2>1
<1>5. Start[m - 1] < b /\ b <= Start[(m - 1) + 1]
  BY <1>1, <1>4, StartTypes, RequestTypes
<1> QED
  BY <1>4, <1>5

-----------------------------------------------------------------------------
(* The descriptors that come with a part of the stream.                     *)

Carried(i, a, b) == Requests[i].carriesFd /\ Start[i] + 1 \in a .. b

Longer(fds, i, a, b) == IF Carried(i, a, b) THEN Append(fds, i) ELSE fds

FdsEquation(f, a, b) ==
  f = [i \in 0 .. Len(Requests) |->
         IF i = 0 THEN <<>>
         ELSE IF Requests[i].carriesFd /\ Start[i] + 1 \in a .. b THEN Append(f[i - 1], i)
         ELSE f[i - 1]]

LEMMA FdsExist ==
  ASSUME NEW a, NEW b
  PROVE  \E f : FdsEquation(f, a, b)
<1> DEFINE Solves(f, n) ==
             f = [i \in 0 .. n |-> IF i = 0 THEN <<>> ELSE Longer(f[i - 1], i, a, b)]
           Bad == {n \in 0 .. N : \A f : ~Solves(f, n)}
<1>1. Bad = {}
  <2> SUFFICES ASSUME Bad # {} PROVE FALSE
    OBVIOUS
  <2>1. PICK m \in Bad : \A n \in Bad : m <= n
    <3>1. Bad \in SUBSET Nat
      BY RequestTypes
    <3> HIDE DEF Bad
    <3> QED BY <3>1, LeastNumber
  <2>2. m # 0
    <3>1. Solves([i \in 0 .. 0 |-> <<>>], 0)
      OBVIOUS
    <3> HIDE DEF Solves
    <3> QED BY <3>1
  <2>3. m - 1 \in 0 .. N /\ m - 1 \notin Bad
    <3>1. m \in 0 .. N /\ ~(m <= m - 1) /\ m - 1 \in 0 .. N
      BY <2>2, RequestTypes
    <3> HIDE DEF Bad
    <3> QED BY <2>1, <3>1
  <2>4. PICK f : Solves(f, m - 1)
    <3> HIDE DEF Solves
    <3> QED BY <2>3, RequestTypes
  <2> DEFINE g == [i \in 0 .. m |-> IF i < m THEN f[i] ELSE Longer(f[m - 1], m, a, b)]
  <2>5. Solves(g, m)
    <3>1. m \in Nat \ {0}
      BY <2>2, RequestTypes
    <3>2. ASSUME NEW i \in 0 .. m
          PROVE  g[i] = IF i = 0 THEN <<>> ELSE Longer(g[i - 1], i, a, b)
      <4>1. CASE i = 0
        BY <2>4, <3>1, <4>1
      <4>2. CASE i # 0 /\ i < m
        <5>1. i \in 0 .. m - 1 /\ g[i] = f[i] /\ g[i - 1] = f[i - 1]
          BY <3>1, <4>2
        <5>2. f[i] = Longer(f[i - 1], i, a, b)
          BY <2>4, <4>2, <5>1
        <5> QED BY <4>2, <5>1, <5>2
      <4>3. CASE i = m
        <5>1. g[i - 1] = f[m - 1]
          BY <3>1, <4>3
        <5> QED BY <3>1, <4>3, <5>1
      <4> QED BY <3>1, <4>1, <4>2, <4>3
    <3>3. \A i \in 0 .. m : g[i] = IF i = 0 THEN <<>> ELSE Longer(g[i - 1], i, a, b)
      BY <3>2
    <3>4. g = [i \in 0 .. m |-> g[i]]
      OBVIOUS
    <3> HIDE DEF g
    <3> QED BY <3>3, <3>4
  <2> HIDE DEF Solves, g
  <2> QED
    BY <2>5
<1>2. PICK f : Solves(f, N)
  <2> HIDE DEF Solves
  <2> QED BY <1>1, RequestTypes
<1> QED
  BY <1>2 DEF N, Longer, Carried, FdsEquation

(* They come in the order of the requests, each once.                       *)
Sorted(fds) ==
  \A j, k \in 1 .. Len(fds) : j < k => fds[j] < fds[k]

FdsUpTo(fds, n, a, b) ==
  /\ fds \in Seq(1 .. n)
  /\ Sorted(fds)
  /\ \A j \in 1 .. Len(fds) : Carried(fds[j], a, b)
  /\ \A i \in 1 .. n : Carried(i, a, b) => \E j \in 1 .. Len(fds) : fds[j] = i

LEMMA FdsGrow ==
  ASSUME NEW a, NEW b, NEW m \in Nat \ {0}, NEW fds, FdsUpTo(fds, m - 1, a, b)
  PROVE  FdsUpTo(Longer(fds, m, a, b), m, a, b)
<1>1. fds \in Seq(1 .. m) /\ Len(fds) \in Nat /\ \A j \in 1 .. Len(fds) : fds[j] \in 1 .. m - 1
  <2>1. fds \in Seq(1 .. m - 1) /\ 1 .. m - 1 \subseteq 1 .. m
    BY DEF FdsUpTo
  <2> QED BY <2>1, SeqMonotonic, LenProperties, ElementOfSeq
<1>2. CASE ~Carried(m, a, b)
  <2>1. Longer(fds, m, a, b) = fds
    BY <1>2 DEF Longer
  <2>2. ASSUME NEW i \in 1 .. m, Carried(i, a, b)
        PROVE  i \in 1 .. m - 1
    BY <1>2, <2>2
  <2> QED BY <1>1, <2>1, <2>2 DEF FdsUpTo
<1>3. CASE Carried(m, a, b)
  <2> DEFINE new == Append(fds, m)
  <2>1. Longer(fds, m, a, b) = new
    BY <1>3 DEF Longer
  <2>2. /\ new \in Seq(1 .. m)
        /\ Len(new) = Len(fds) + 1
        /\ \A j \in 1 .. Len(fds) : new[j] = fds[j]
        /\ new[Len(fds) + 1] = m
    BY <1>1, AppendProperties
  <2> HIDE DEF new
  <2>3. \A j \in 1 .. Len(new) : j \in 1 .. Len(fds) \/ j = Len(fds) + 1
    BY <1>1, <2>2
  <2>4. Sorted(new)
    <3> SUFFICES ASSUME NEW j \in 1 .. Len(new), NEW k \in 1 .. Len(new), j < k
                 PROVE  new[j] < new[k]
      BY DEF Sorted
    <3>1. j \in 1 .. Len(fds)
      BY <1>1, <2>2
    <3>2. CASE k \in 1 .. Len(fds)
      BY <2>2, <3>1, <3>2 DEF FdsUpTo, Sorted
    <3>3. CASE k = Len(fds) + 1
      BY <1>1, <2>2, <3>1, <3>3
    <3> QED BY <2>3, <3>2, <3>3
  <2>5. \A j \in 1 .. Len(new) : Carried(new[j], a, b)
    BY <1>3, <2>2, <2>3 DEF FdsUpTo
  <2>6. ASSUME NEW i \in 1 .. m, Carried(i, a, b)
        PROVE  \E j \in 1 .. Len(new) : new[j] = i
    <3>1. CASE i = m
      <4>1. Len(fds) + 1 \in 1 .. Len(new)
        BY <1>1, <2>2
      <4> QED BY <2>2, <3>1, <4>1
    <3>2. CASE i # m
      <4>1. i \in 1 .. m - 1
        BY <3>2
      <4>2. PICK j \in 1 .. Len(fds) : fds[j] = i
        BY <2>6, <4>1 DEF FdsUpTo
      <4> QED BY <1>1, <2>2, <4>2
    <3> QED BY <3>1, <3>2
  <2> QED BY <2>1, <2>2, <2>4, <2>5, <2>6 DEF FdsUpTo
<1> QED
  BY <1>2, <1>3

LEMMA FdsInOrder ==
  ASSUME NEW a, NEW b
  PROVE  FdsUpTo(FdsIn(a, b), N, a, b)
<1> DEFINE up == CHOOSE f : FdsEquation(f, a, b)
           Bad == {n \in 0 .. N : ~FdsUpTo(up[n], n, a, b)}
<1>1. FdsIn(a, b) = up[N]
  BY DEF FdsIn, FdsEquation, N
<1>2. FdsEquation(up, a, b)
  BY FdsExist
<1> HIDE DEF up
<1>3. up[0] = <<>> /\ \A i \in 1 .. N : up[i] = Longer(up[i - 1], i, a, b)
  <2>1. up = [i \in 0 .. N |-> IF i = 0 THEN <<>> ELSE Longer(up[i - 1], i, a, b)]
    BY <1>2 DEF FdsEquation, N, Longer, Carried
  <2> QED BY <2>1, RequestTypes
<1>4. Bad = {}
  <2> SUFFICES ASSUME Bad # {} PROVE FALSE
    OBVIOUS
  <2>1. PICK m \in Bad : \A n \in Bad : m <= n
    <3>1. Bad \in SUBSET Nat
      BY RequestTypes
    <3> HIDE DEF Bad
    <3> QED BY <3>1, LeastNumber
  <2>2. m # 0
    <3>1. FdsUpTo(<<>>, 0, a, b)
      BY EmptySeq DEF FdsUpTo, Sorted
    <3> QED BY <1>3, <3>1
  <2>3. m \in 1 .. N /\ m - 1 \in 0 .. N /\ m - 1 \notin Bad
    <3>1. m \in 1 .. N /\ m - 1 \in 0 .. N /\ ~(m <= m - 1)
      BY <2>2, RequestTypes
    <3> HIDE DEF Bad
    <3> QED BY <2>1, <3>1
  <2>4. FdsUpTo(up[m - 1], m - 1, a, b) /\ m \in Nat \ {0}
    BY <2>3
  <2>5. FdsUpTo(Longer(up[m - 1], m, a, b), m, a, b)
    BY <2>4, FdsGrow
  <2> QED
    BY <1>3, <2>3, <2>5
<1>5. FdsUpTo(up[N], N, a, b)
  <2>1. N \in 0 .. N /\ N \notin Bad
    BY <1>4, RequestTypes
  <2> QED BY <2>1
<1> QED
  BY <1>1, <1>5

-----------------------------------------------------------------------------
(* The inductive invariant.  Alive: the connection is being served.         *)

Alive == pc \in {"poll", "handle", "leave"}

(* The active position is where the first request that is not handled       *)
(* starts, and what is buffered is a part of the stream.                    *)
Framed ==
  /\ Len(buffer) <= taken
  /\ \A b \in 1 .. Len(buffer) : buffer[b] = Byte(taken - Len(buffer) + b)
  /\ pc \in {"poll", "handle"} => position = activePosition
  /\ Len(handled) <= N
  /\ Alive => taken - Len(buffer) + activePosition = Start[Len(handled) + 1]

InOrder == \A h \in 1 .. Len(handled) : handled[h].req = h

(* The descriptors that wait are those of the requests that are not handled *)
(* and whose first byte has arrived, in their order.                        *)
Waits(i, n, t) == i > n /\ Requests[i].carriesFd /\ Start[i] < t

QueueOf(fds, n, t) ==
  /\ Sorted(fds)
  /\ \A j \in 1 .. Len(fds) : Waits(fds[j], n, t)
  /\ \A i \in 1 .. N : Waits(i, n, t) => \E j \in 1 .. Len(fds) : fds[j] = i

Queued == QueueOf(ancillaryFds, Len(handled), taken)

Paired == ~rejected => FdsPaired /\ (Alive => Queued)

IInv == TypeOK /\ Framed /\ InOrder /\ CrashOnlyInSetup /\ Paired

LEMMA InitInv == Init => IInv
<1> SUFFICES ASSUME Init PROVE IInv
  OBVIOUS
<1>1. StreamSize \in Nat /\ Len(<<>>) = 0 /\ InitialCapacity \in Nat \ {0}
  BY StreamTypes, StreamAssumption
<1>2. TypeOK
  <2>1. \A S : <<>> \in Seq(S)
    BY EmptySeq
  <2>2. /\ taken \in 0 .. StreamSize
        /\ position \in 0 .. Len(buffer)
        /\ activePosition \in 0 .. Len(buffer)
    BY <1>1 DEF Init
  <2>3. /\ buffer \in Seq([req : 1 .. Len(Requests), off : Nat \ {0}])
        /\ ancillaryFds \in Seq(1 .. Len(Requests))
        /\ handled \in Seq([req : 1 .. Len(Requests), fd : 0 .. Len(Requests)])
    BY <2>1 DEF Init
  <2> QED BY <1>1, <2>2, <2>3 DEF Init, TypeOK
<1>3. Framed
  BY <1>1, StartTypes, RequestTypes DEF Init, Framed, Alive
<1>4. InOrder /\ CrashOnlyInSetup
  BY <1>1 DEF Init, InOrder, CrashOnlyInSetup
<1>5. Paired
  <2>1. ASSUME NEW i \in 1 .. N PROVE ~Waits(i, Len(handled), taken)
    <3>1. Start[i] \in Nat
      BY StreamTypes, RequestTypes
    <3> QED BY <1>1, <3>1 DEF Waits, Init
  <2> QED BY <1>1, <2>1 DEF Init, Paired, FdsPaired, Queued, QueueOf, Sorted
<1> QED
  BY <1>2, <1>3, <1>4, <1>5 DEF IInv

-----------------------------------------------------------------------------
(* A header that was read is that of the next request.                      *)
LEMMA NextRequest ==
  ASSUME IInv, pc = "handle", HeaderRead
  PROVE  /\ Len(handled) + 1 \in 1 .. N
         /\ Next1 = Len(handled) + 1
         /\ Len(handled) \in Nat
<1> DEFINE n == Len(handled)
           b == Start[n + 1] + 1
<1>1. /\ n \in Nat /\ n <= N /\ Len(buffer) \in Nat /\ taken \in 0 .. StreamSize
      /\ position \in 0 .. Len(buffer) /\ Start[n + 1] \in Nat
      /\ StreamSize = Start[N + 1] /\ StreamSize \in Nat
  <2>1. n \in Nat /\ Len(buffer) \in Nat
    BY LenProperties DEF IInv, TypeOK
  <2>2. n <= N /\ taken \in 0 .. StreamSize /\ position \in 0 .. Len(buffer)
    BY DEF IInv, TypeOK, Framed
  <2>3. n + 1 \in 1 .. N + 1
    BY <2>1, <2>2, RequestTypes
  <2> QED BY <2>1, <2>2, <2>3, StreamTypes
<1>2. position + 1 \in 1 .. Len(buffer)
  BY <1>1, StreamAssumption DEF HeaderRead, available
<1>3. taken - Len(buffer) + position = Start[n + 1]
  BY DEF IInv, Framed, Alive
<1>4. b \in 1 .. StreamSize /\ buffer[position + 1] = Byte(b)
  <2>1. taken - Len(buffer) + (position + 1) = b
    BY <1>1, <1>3
  <2>2. b \in 1 .. StreamSize
    <3>1. position + 1 <= Len(buffer)
      BY <1>1, <1>2
    <3>2. b \in Nat /\ b >= 1 /\ b <= taken
      BY <1>1, <1>3, <3>1
    <3> HIDE DEF b
    <3> QED BY <1>1, <3>2
  <2> HIDE DEF b
  <2> QED BY <1>2, <2>1, <2>2 DEF IInv, Framed
<1>5. n + 1 \in 1 .. N
  <2>1. n # N
    BY <1>1, <1>4
  <2> QED BY <1>1, <2>1, RequestTypes
<1>6. Start[n + 1] < b /\ b <= Start[n + 1 + 1]
  BY <1>1, <1>5, StartTypes, RequestTypes
<1>7. RequestOf(b) = n + 1
  BY <1>4, <1>5, <1>6, RequestOfByte
<1> QED
  BY <1>1, <1>4, <1>5, <1>7 DEF Next1, Byte

(* Reading appends the next bytes, and the descriptors that came with them. *)
Bytes == [req : 1 .. Len(Requests), off : Nat \ {0}]

LEMMA ByteTypes ==
  \A b \in 1 .. StreamSize : Byte(b) \in Bytes
<1> SUFFICES ASSUME NEW b \in 1 .. StreamSize PROVE Byte(b) \in Bytes
  OBVIOUS
<1>1. PICK i \in 1 .. N : Start[i] < b /\ b <= Start[i + 1]
  BY ByteHasRequest
<1>2. StreamSize \in Nat /\ Start[i] \in Nat /\ b \in Nat
  BY StreamTypes, RequestTypes
<1>3. RequestOf(b) = i
  BY <1>1, <1>2, RequestOfByte
<1> QED
  BY <1>1, <1>2, <1>3 DEF Byte, Bytes, N

LEMMA ReadInv ==
  ASSUME IInv, ReadMoreData
  PROVE  IInv'
<1>1. PICK n \in 1 .. Smaller(Grown(capacity, Len(Unconsumed)) - Len(Unconsumed), StreamSize - taken) :
        /\ buffer' = Unconsumed \o [b \in 1 .. n |-> Byte(taken + b)]
        /\ taken' = taken + n
        /\ ancillaryFds' = ancillaryFds \o FdsIn(taken + 1, taken + n)
  BY DEF ReadMoreData
<1> DEFINE U == Unconsumed
           piece == [b \in 1 .. n |-> Byte(taken + b)]
<1>2. /\ StreamSize \in Nat /\ taken \in 0 .. StreamSize
      /\ buffer \in Seq(Bytes) /\ Len(buffer) \in Nat
      /\ position \in 0 .. Len(buffer) /\ capacity \in Nat \ {0}
      /\ Len(buffer) <= taken
  <2>1. StreamSize \in Nat
    BY StreamTypes
  <2> QED BY <2>1, LenProperties DEF IInv, TypeOK, Framed, Bytes
<1>3. /\ U \in Seq(Bytes)
      /\ Len(U) = Len(buffer) - position
      /\ \A i \in 1 .. Len(U) : U[i] = buffer[position + i]
  <2>1. \A i \in position + 1 .. Len(buffer) : buffer[i] \in Bytes
    <3>1. position + 1 .. Len(buffer) \subseteq 1 .. Len(buffer)
      BY <1>2
    <3> QED BY <1>2, <3>1, ElementOfSeq
  <2>2. /\ SubSeq(buffer, position + 1, Len(buffer)) \in Seq(Bytes)
        /\ Len(SubSeq(buffer, position + 1, Len(buffer)))
             = IF position + 1 <= Len(buffer) THEN Len(buffer) - (position + 1) + 1 ELSE 0
        /\ \A i \in 1 .. Len(buffer) - (position + 1) + 1 :
             SubSeq(buffer, position + 1, Len(buffer))[i] = buffer[position + 1 + i - 1]
    BY <1>2, <2>1, SubSeqProperties
  <2> QED BY <1>2, <2>2 DEF Unconsumed
<1>4. n \in Nat \ {0} /\ n <= StreamSize - taken
  <2>1. Grown(capacity, Len(U)) \in Int
    BY <1>2, <1>3 DEF Grown
  <2>2. \A c \in Int, d \in Int : Smaller(c, d) \in Int /\ Smaller(c, d) <= d
    BY DEF Smaller
  <2>3. Grown(capacity, Len(U)) - Len(U) \in Int /\ StreamSize - taken \in Int
    BY <1>2, <1>3, <2>1
  <2> DEFINE room == Grown(capacity, Len(U)) - Len(U)
             left == StreamSize - taken
  <2>4. n \in 1 .. Smaller(room, left) /\ Smaller(room, left) \in Int /\ Smaller(room, left) <= left
    <3> HIDE DEF room, left
    <3>1. n \in 1 .. Smaller(room, left)
      BY DEF room, left
    <3>2. room \in Int /\ left \in Int
      BY <2>3 DEF room, left
    <3> QED BY <2>2, <3>1, <3>2
  <2> HIDE DEF room
  <2> QED BY <2>3, <2>4
<1>5. piece \in Seq(Bytes) /\ Len(piece) = n
  <2>1. \A b \in 1 .. n : Byte(taken + b) \in Bytes
    BY <1>2, <1>4, ByteTypes
  <2> QED BY <1>4, <2>1, SeqDef
<1>6. /\ buffer' \in Seq(Bytes)
      /\ Len(buffer') = Len(buffer) - position + n
      /\ \A i \in 1 .. Len(buffer') :
           buffer'[i] = IF i <= Len(U) THEN buffer[position + i] ELSE Byte(taken + (i - Len(U)))
  <2>1. /\ buffer' \in Seq(Bytes)
        /\ Len(buffer') = Len(U) + n
        /\ \A i \in 1 .. Len(U) + n : buffer'[i] = IF i <= Len(U) THEN U[i] ELSE piece[i - Len(U)]
    <3>1. buffer' = U \o piece
      BY <1>1
    <3> HIDE DEF U, piece
    <3>2. /\ U \o piece \in Seq(Bytes)
          /\ Len(U \o piece) = Len(U) + Len(piece)
          /\ \A i \in 1 .. Len(U) + Len(piece) :
               (U \o piece)[i] = IF i <= Len(U) THEN U[i] ELSE piece[i - Len(U)]
      BY <1>3, <1>5, ConcatProperties
    <3> QED BY <1>5, <3>1, <3>2
  <2>2. \A i \in 1 .. Len(U) + n : i > Len(U) => piece[i - Len(U)] = Byte(taken + (i - Len(U)))
    BY <1>2, <1>3, <1>4
  <2> HIDE DEF U, piece
  <2> QED BY <1>2, <1>3, <1>4, <2>1, <2>2
<1> DEFINE fds == FdsIn(taken + 1, taken + n)
<1>7. FdsUpTo(fds, N, taken + 1, taken + n)
  BY FdsInOrder
<1>8. ancillaryFds \in Seq(1 .. N) /\ ancillaryFds' \in Seq(1 .. N)
  BY <1>1, <1>7, ConcatProperties DEF IInv, TypeOK, FdsUpTo, N
<1>9. TypeOK'
  <2>1. taken' \in 0 .. StreamSize
    BY <1>1, <1>2, <1>4
  <2>2. capacity' \in Nat \ {0}
    BY <1>2 DEF ReadMoreData, Grown
  <2>3. /\ position' \in 0 .. Len(buffer') /\ activePosition' \in 0 .. Len(buffer')
        /\ Len(buffer') \in Nat
    BY <1>2, <1>4, <1>6 DEF ReadMoreData
  <2>4. /\ pc' = "handle" /\ running' = running /\ handled' = handled /\ rejected' = rejected
    BY DEF ReadMoreData
  <2>5. /\ running \in BOOLEAN /\ rejected \in BOOLEAN
        /\ handled \in Seq([req : 1 .. Len(Requests), fd : 0 .. Len(Requests)])
    BY DEF IInv, TypeOK
  <2>6. /\ buffer' \in Seq([req : 1 .. Len(Requests), off : Nat \ {0}])
        /\ ancillaryFds' \in Seq(1 .. Len(Requests))
    BY <1>6, <1>8 DEF Bytes, N
  <2>7. StreamSize' = StreamSize
    OBVIOUS
  <2> QED BY <2>1, <2>2, <2>3, <2>4, <2>5, <2>6 DEF TypeOK
<1>10. Framed'
  <2>1. taken' - Len(buffer') = taken - Len(buffer) + position
    <3>1. /\ taken' = taken + n /\ Len(buffer') = Len(buffer) - position + n
          /\ n \in Nat /\ taken \in Nat /\ Len(buffer) \in Nat /\ position \in Nat
      BY <1>1, <1>2, <1>4, <1>6
    <3> QED BY <3>1
  <2>2. ASSUME NEW i \in 1 .. Len(buffer')
        PROVE  buffer'[i] = Byte(taken' - Len(buffer') + i)
    <3>1. CASE i <= Len(U)
      <4>1. position + i \in 1 .. Len(buffer) /\ buffer'[i] = buffer[position + i]
        BY <1>2, <1>3, <1>4, <1>6, <3>1
      <4>2. buffer[position + i] = Byte(taken - Len(buffer) + (position + i))
        BY <4>1 DEF IInv, Framed
      <4>3. taken - Len(buffer) + (position + i) = taken' - Len(buffer') + i
        BY <1>2, <1>4, <1>6, <2>1
      <4> QED BY <4>1, <4>2, <4>3
    <3>2. CASE ~(i <= Len(U))
      <4>1. taken + (i - Len(U)) = taken' - Len(buffer') + i
        BY <1>2, <1>3, <1>4, <1>6, <2>1
      <4> QED BY <1>6, <3>2, <4>1
    <3> QED BY <3>1, <3>2
  <2>3. Len(buffer') <= taken'
    BY <1>1, <1>2, <1>4, <1>6
  <2>4. taken - Len(buffer) + position = Start[Len(handled) + 1]
    BY DEF IInv, Framed, ReadMoreData, Alive
  <2>5. taken' - Len(buffer') + 0 = Start[Len(handled) + 1]
    BY <1>2, <2>1, <2>4
  <2> QED
    BY <2>2, <2>3, <2>5 DEF IInv, Framed, ReadMoreData, Alive
<1>11. InOrder' /\ CrashOnlyInSetup'
  BY DEF IInv, InOrder, CrashOnlyInSetup, ReadMoreData
<1>12. Paired'
  <2> SUFFICES ASSUME ~rejected PROVE FdsPaired' /\ Queued'
    BY DEF ReadMoreData, Paired
  <2>1. FdsPaired'
    BY DEF IInv, Paired, FdsPaired, ReadMoreData
  <2>2. Queued /\ handled' = handled
    BY DEF IInv, Paired, ReadMoreData, Alive
  <2>3. /\ Len(ancillaryFds) \in Nat /\ Len(fds) \in Nat
        /\ fds \in Seq(1 .. N)
        /\ Len(ancillaryFds') = Len(ancillaryFds) + Len(fds)
        /\ \A i \in 1 .. Len(ancillaryFds) + Len(fds) :
             ancillaryFds'[i] = IF i <= Len(ancillaryFds) THEN ancillaryFds[i] ELSE fds[i - Len(ancillaryFds)]
        /\ \A i \in 1 .. Len(ancillaryFds) : ancillaryFds[i] \in 1 .. N
        /\ \A i \in 1 .. Len(fds) : fds[i] \in 1 .. N
    BY <1>1, <1>7, <1>8, ConcatProperties, LenProperties, ElementOfSeq DEF FdsUpTo
  <2>4. \A i \in 1 .. N : Carried(i, taken + 1, taken + n)
                          <=> Requests[i].carriesFd /\ taken <= Start[i] /\ Start[i] < taken'
    <3>1. ASSUME NEW i \in 1 .. N
          PROVE  Start[i] + 1 \in taken + 1 .. taken + n <=> taken <= Start[i] /\ Start[i] < taken'
      <4>1. Start[i] \in Nat /\ taken \in Nat /\ n \in Nat /\ taken' = taken + n
        BY <1>1, <1>2, <1>4, StreamTypes, RequestTypes
      <4> QED BY <4>1
    <3> QED BY <3>1 DEF Carried
  <2>5. ASSUME NEW i \in 1 .. N, taken <= Start[i]
        PROVE  i > Len(handled)
    <3>1. Len(handled) \in Nat /\ Len(handled) <= N /\ Start[Len(handled) + 1] <= taken
      <4>1. Len(handled) \in Nat /\ Len(handled) <= N
        BY LenProperties DEF IInv, TypeOK, Framed
      <4>2. taken - Len(buffer) + position = Start[Len(handled) + 1]
        BY DEF IInv, Framed, ReadMoreData, Alive
      <4> QED BY <1>2, <4>1, <4>2
    <3>2. Start[Len(handled) + 1] <= Start[i]
      BY <1>2, <2>5, <3>1, StartTypes, RequestTypes
    <3>3. ~(i < Len(handled) + 1)
      BY <3>1, <3>2, StartGrows, StartTypes, RequestTypes
    <3> QED BY <3>1, <3>3, RequestTypes
  <2>6. \A i \in 1 .. N : Waits(i, Len(handled), taken') <=> Waits(i, Len(handled), taken) \/ Carried(i, taken + 1, taken + n)
    <3>1. ASSUME NEW i \in 1 .. N
          PROVE  Waits(i, Len(handled), taken') <=> Waits(i, Len(handled), taken) \/ Carried(i, taken + 1, taken + n)
      <4>1. Start[i] \in Nat /\ taken \in Nat /\ n \in Nat /\ taken' = taken + n
        BY <1>1, <1>2, <1>4, StreamTypes, RequestTypes
      <4>2. Waits(i, Len(handled), taken') <=> i > Len(handled) /\ Requests[i].carriesFd /\ Start[i] < taken'
        BY <2>2 DEF Waits
      <4>3. Start[i] < taken' <=> (taken <= Start[i] /\ Start[i] < taken') \/ Start[i] < taken
        BY <4>1
      <4> QED BY <2>4, <2>5, <4>2, <4>3 DEF Waits
    <3> QED BY <3>1
  <2>7. \A j \in 1 .. Len(ancillaryFds') : Waits(ancillaryFds'[j], Len(handled), taken')
    <3> SUFFICES ASSUME NEW j \in 1 .. Len(ancillaryFds')
                 PROVE  Waits(ancillaryFds'[j], Len(handled), taken')
      OBVIOUS
    <3>1. CASE j <= Len(ancillaryFds)
      <4>1. j \in 1 .. Len(ancillaryFds) /\ ancillaryFds'[j] = ancillaryFds[j] /\ ancillaryFds[j] \in 1 .. N
        BY <2>3, <3>1
      <4> QED BY <2>2, <2>6, <4>1 DEF Queued, QueueOf
    <3>2. CASE ~(j <= Len(ancillaryFds))
      <4>1. /\ j - Len(ancillaryFds) \in 1 .. Len(fds)
            /\ ancillaryFds'[j] = fds[j - Len(ancillaryFds)]
            /\ fds[j - Len(ancillaryFds)] \in 1 .. N
        BY <2>3, <3>2
      <4> QED BY <1>7, <2>6, <4>1 DEF FdsUpTo
    <3> QED BY <3>1, <3>2
  <2>8. Sorted(ancillaryFds')
    <3> SUFFICES ASSUME NEW j \in 1 .. Len(ancillaryFds'), NEW k \in 1 .. Len(ancillaryFds'), j < k
                 PROVE  ancillaryFds'[j] < ancillaryFds'[k]
      BY DEF Sorted
    <3>1. CASE k <= Len(ancillaryFds)
      BY <2>2, <2>3, <3>1 DEF Queued, QueueOf, Sorted
    <3>2. CASE j > Len(ancillaryFds)
      <4>1. /\ j - Len(ancillaryFds) \in 1 .. Len(fds) /\ k - Len(ancillaryFds) \in 1 .. Len(fds)
            /\ j - Len(ancillaryFds) < k - Len(ancillaryFds)
            /\ ancillaryFds'[j] = fds[j - Len(ancillaryFds)]
            /\ ancillaryFds'[k] = fds[k - Len(ancillaryFds)]
        BY <2>3, <3>2
      <4> QED BY <1>7, <4>1 DEF FdsUpTo, Sorted
    <3>3. CASE j <= Len(ancillaryFds) /\ k > Len(ancillaryFds)
      <4>1. /\ ancillaryFds'[j] = ancillaryFds[j] /\ j \in 1 .. Len(ancillaryFds)
            /\ k - Len(ancillaryFds) \in 1 .. Len(fds)
            /\ ancillaryFds'[k] = fds[k - Len(ancillaryFds)]
        BY <2>3, <3>3
      <4>2. Start[ancillaryFds[j]] < taken /\ taken <= Start[ancillaryFds'[k]]
        BY <1>7, <2>2, <2>3, <2>4, <4>1 DEF Queued, QueueOf, Waits, FdsUpTo
      <4>3. ancillaryFds'[j] \in 1 .. N + 1 /\ ancillaryFds'[k] \in 1 .. N + 1
        BY <2>3, <4>1, RequestTypes
      <4>4. ~(Start[ancillaryFds'[k]] < Start[ancillaryFds'[j]]) /\ ancillaryFds'[j] # ancillaryFds'[k]
        BY <1>2, <4>1, <4>2, <4>3, StartTypes
      <4> QED BY <4>3, <4>4, StartGrows, RequestTypes
    <3> QED
      <4>1. j \in Nat /\ k \in Nat
        BY <2>3
      <4> QED BY <2>3, <3>1, <3>2, <3>3, <4>1
  <2>9. ASSUME NEW i \in 1 .. N, Waits(i, Len(handled), taken')
        PROVE  \E j \in 1 .. Len(ancillaryFds') : ancillaryFds'[j] = i
    <3>1. CASE Waits(i, Len(handled), taken)
      <4>1. PICK j \in 1 .. Len(ancillaryFds) : ancillaryFds[j] = i
        BY <2>2, <3>1 DEF Queued, QueueOf
      <4> QED BY <2>3, <4>1
    <3>2. CASE Carried(i, taken + 1, taken + n)
      <4>1. PICK j \in 1 .. Len(fds) : fds[j] = i
        BY <1>7, <3>2 DEF FdsUpTo
      <4>2. /\ Len(ancillaryFds) + j \in 1 .. Len(ancillaryFds')
            /\ ancillaryFds'[Len(ancillaryFds) + j] = i
        <5>1. j \in Nat /\ j >= 1 /\ j <= Len(fds)
          BY <2>3
        <5>2. /\ Len(ancillaryFds) + j \in 1 .. Len(ancillaryFds) + Len(fds)
              /\ ~(Len(ancillaryFds) + j <= Len(ancillaryFds))
              /\ (Len(ancillaryFds) + j) - Len(ancillaryFds) = j
          BY <2>3, <5>1
        <5> QED BY <2>3, <4>1, <5>2
      <4> QED BY <4>2
    <3> QED BY <2>6, <2>9, <3>1, <3>2
  <2>10. Queued'
    BY <2>2, <2>7, <2>8, <2>9 DEF Queued, QueueOf
  <2> QED
    BY <2>1, <2>10
<1> QED
  BY <1>9, <1>10, <1>11, <1>12 DEF IInv

-----------------------------------------------------------------------------
(* Handling a request removes its descriptor, if it carries one, from the   *)
(* descriptors that wait, and it is the first of them.                      *)
LEMMA QueueHead ==
  ASSUME NEW fds \in Seq(1 .. N), NEW n \in Nat, NEW t, n + 1 \in 1 .. N,
         QueueOf(fds, n, t), Waits(n + 1, n, t)
  PROVE  fds # <<>> /\ Head(fds) = n + 1 /\ QueueOf(Tail(fds), n + 1, t)
<1>1. Len(fds) \in Nat /\ \A j \in 1 .. Len(fds) : fds[j] \in 1 .. N /\ fds[j] >= n + 1
  <2>1. Len(fds) \in Nat /\ \A j \in 1 .. Len(fds) : fds[j] \in 1 .. N
    BY LenProperties, ElementOfSeq
  <2> QED BY <2>1, RequestTypes DEF QueueOf, Waits
<1>2. PICK j \in 1 .. Len(fds) : fds[j] = n + 1
  BY DEF QueueOf
<1>3. j = 1
  <2>1. j # 1 => 1 \in 1 .. Len(fds) /\ fds[1] < fds[j]
    BY <1>1, <1>2 DEF QueueOf, Sorted
  <2> QED BY <1>1, <1>2, <2>1
<1>4. fds # <<>> /\ Head(fds) = n + 1
  BY <1>1, <1>2, <1>3
<1>5. /\ Tail(fds) \in Seq(1 .. N)
      /\ Len(Tail(fds)) = Len(fds) - 1
      /\ \A k \in 1 .. Len(Tail(fds)) : Tail(fds)[k] = fds[k + 1] /\ k + 1 \in 1 .. Len(fds)
  BY <1>1, <1>4, HeadTailProperties
<1> DEFINE rest == Tail(fds)
<1>6. Sorted(rest)
  <2> SUFFICES ASSUME NEW k \in 1 .. Len(rest), NEW l \in 1 .. Len(rest), k < l
               PROVE  rest[k] < rest[l]
    BY DEF Sorted
  <2> HIDE DEF rest
  <2>1. k + 1 \in 1 .. Len(fds) /\ l + 1 \in 1 .. Len(fds) /\ k + 1 < l + 1
    BY <1>1, <1>5 DEF rest
  <2>2. rest[k] = fds[k + 1] /\ rest[l] = fds[l + 1]
    BY <1>5 DEF rest
  <2> QED BY <2>1, <2>2 DEF QueueOf, Sorted
<1>7. ASSUME NEW k \in 1 .. Len(rest)
      PROVE  Waits(rest[k], n + 1, t)
  <2>1. k + 1 \in 1 .. Len(fds) /\ 1 \in 1 .. Len(fds) /\ 1 < k + 1 /\ rest[k] = fds[k + 1]
    BY <1>1, <1>5
  <2>2. fds[1] < fds[k + 1]
    BY <2>1 DEF QueueOf, Sorted
  <2>3. Waits(fds[k + 1], n, t) /\ fds[k + 1] \in 1 .. N
    BY <1>1, <2>1 DEF QueueOf
  <2> QED BY <1>2, <1>3, <2>1, <2>2, <2>3 DEF Waits
<1>8. ASSUME NEW i \in 1 .. N, Waits(i, n + 1, t)
      PROVE  \E k \in 1 .. Len(rest) : rest[k] = i
  <2>1. Waits(i, n, t) /\ i # n + 1
    BY <1>8, RequestTypes DEF Waits
  <2>2. PICK k \in 1 .. Len(fds) : fds[k] = i
    BY <2>1 DEF QueueOf
  <2>3. k # 1
    BY <1>2, <1>3, <2>1, <2>2
  <2>4. k - 1 \in 1 .. Len(rest) /\ (k - 1) + 1 = k
    BY <1>1, <1>5, <2>3
  <2> QED BY <1>5, <2>2, <2>4
<1> QED
  BY <1>4, <1>6, <1>7, <1>8 DEF QueueOf

LEMMA QueueSkip ==
  ASSUME NEW fds \in Seq(1 .. N), NEW n \in Nat, NEW t, n + 1 \in 1 .. N,
         QueueOf(fds, n, t), ~Requests[n + 1].carriesFd
  PROVE  QueueOf(fds, n + 1, t)
<1>1. \A i \in 1 .. N : Waits(i, n, t) <=> Waits(i, n + 1, t)
  BY RequestTypes DEF Waits
<1>2. \A j \in 1 .. Len(fds) : fds[j] \in 1 .. N
  BY ElementOfSeq
<1> QED
  BY <1>1, <1>2 DEF QueueOf

(* What both outcomes of a whole request have in common.                    *)
LEMMA AdvanceInv ==
  ASSUME IInv, pc = "handle", Complete, NEW fd \in 0 .. N,
         handled' = Append(handled, [req |-> Next1, fd |-> fd]),
         position' = position + Size(Next1), activePosition' = position',
         UNCHANGED <<pc, running, taken, buffer, capacity>>,
         ancillaryFds' \in Seq(1 .. N), rejected' \in BOOLEAN
  PROVE  /\ TypeOK' /\ Framed' /\ InOrder' /\ CrashOnlyInSetup'
         /\ Next1 = Len(handled) + 1
         /\ Len(handled') = Len(handled) + 1
         /\ handled'[Len(handled) + 1] = [req |-> Next1, fd |-> fd]
         /\ \A h \in 1 .. Len(handled) : handled'[h] = handled[h]
         /\ \A h \in 1 .. Len(handled') : h \in 1 .. Len(handled) \/ h = Len(handled) + 1
         /\ Len(handled) \in Nat /\ Len(handled) + 1 \in 1 .. N
         /\ Start[Len(handled) + 1] < taken
<1> DEFINE n == Len(handled)
           Handled == [req : 1 .. Len(Requests), fd : 0 .. Len(Requests)]
<1>1. n \in Nat /\ n + 1 \in 1 .. N /\ Next1 = n + 1
  BY NextRequest DEF Complete
<1>2. handled \in Seq(Handled) /\ [req |-> Next1, fd |-> fd] \in Handled
  BY <1>1 DEF IInv, TypeOK, N
<1>3. /\ handled' \in Seq(Handled)
      /\ Len(handled') = n + 1
      /\ handled'[n + 1] = [req |-> Next1, fd |-> fd]
      /\ \A h \in 1 .. n : handled'[h] = handled[h]
  <2> HIDE DEF Handled
  <2> QED BY <1>2, AppendProperties
<1>4. \A h \in 1 .. Len(handled') : h \in 1 .. n \/ h = n + 1
  BY <1>1, <1>3
<1>5. /\ Len(buffer) \in Nat /\ taken \in 0 .. StreamSize /\ StreamSize \in Nat
      /\ position \in 0 .. Len(buffer) /\ Len(buffer) <= taken
      /\ Size(n + 1) \in Nat \ {0}
      /\ Start[n + 1] \in Nat /\ Start[n + 2] = Start[n + 1] + Size(n + 1)
  <2>1. Len(buffer) \in Nat /\ taken \in 0 .. StreamSize /\ position \in 0 .. Len(buffer)
    BY LenProperties DEF IInv, TypeOK
  <2>2. Size(n + 1) \in Nat \ {0} /\ Start[(n + 1) + 1] = Start[n + 1] + Size(n + 1) /\ StreamSize \in Nat
    BY <1>1, StartTypes, RequestTypes, StreamTypes
  <2>3. Start[n + 1] \in Nat /\ (n + 1) + 1 = n + 2
    BY <1>1, StreamTypes, RequestTypes
  <2> QED BY <2>1, <2>2, <2>3 DEF IInv, Framed
<1>6. position' = position + Size(n + 1) /\ position + Size(n + 1) <= Len(buffer)
  <2>1. Len(buffer) - position >= Size(n + 1)
    BY <1>1 DEF Complete, available
  <2> QED BY <1>1, <1>5, <2>1
<1>7. taken - Len(buffer) + position = Start[n + 1]
  BY DEF IInv, Framed, Alive
<1>8. Start[n + 1] < taken
  BY <1>5, <1>6, <1>7
<1>9. TypeOK'
  <2>1. position' \in 0 .. Len(buffer') /\ activePosition' \in 0 .. Len(buffer')
    BY <1>5, <1>6
  <2>2. /\ handled' \in Seq([req : 1 .. Len(Requests), fd : 0 .. Len(Requests)])
        /\ ancillaryFds' \in Seq(1 .. Len(Requests))
    BY <1>3 DEF N
  <2> QED BY <2>1, <2>2 DEF IInv, TypeOK
<1>10. Framed'
  <2>1. taken - Len(buffer) + position' = Start[n + 2]
    BY <1>5, <1>6, <1>7
  <2>2. Len(handled') <= N /\ Len(handled') + 1 = n + 2
    BY <1>1, <1>3, RequestTypes
  <2> QED BY <2>1, <2>2 DEF IInv, Framed, Alive
<1>11. InOrder'
  BY <1>1, <1>3, <1>4 DEF IInv, InOrder
<1>12. CrashOnlyInSetup'
  BY DEF CrashOnlyInSetup
<1> QED
  BY <1>1, <1>3, <1>4, <1>8, <1>9, <1>10, <1>11, <1>12

LEMMA HandleInv ==
  ASSUME IInv, HandleRequest
  PROVE  IInv'
<1> DEFINE n == Len(handled)
           i == Next1
           usesFd == Requests[i].carriesFd /\ ancillaryFds # <<>>
           fd == IF usesFd THEN Head(ancillaryFds) ELSE NoFd
<1>1. /\ pc = "handle" /\ Complete
      /\ handled' = Append(handled, [req |-> i, fd |-> fd])
      /\ ancillaryFds' = IF usesFd THEN Tail(ancillaryFds) ELSE ancillaryFds
      /\ position' = position + Size(i) /\ activePosition' = position'
      /\ UNCHANGED <<pc, running, taken, buffer, capacity, rejected>>
  BY DEF HandleRequest
<1>2. ancillaryFds \in Seq(1 .. N) /\ rejected \in BOOLEAN
  BY DEF IInv, TypeOK, N
<1>3. fd \in 0 .. N /\ ancillaryFds' \in Seq(1 .. N)
  <2>1. CASE usesFd
    <3>1. Head(ancillaryFds) \in 1 .. N /\ Tail(ancillaryFds) \in Seq(1 .. N)
      BY <1>2, <2>1, HeadTailProperties
    <3> QED BY <1>1, <2>1, <3>1, RequestTypes
  <2>2. CASE ~usesFd
    BY <1>1, <1>2, <2>2, RequestTypes DEF NoFd
  <2> QED BY <2>1, <2>2
<1>4. /\ TypeOK' /\ Framed' /\ InOrder' /\ CrashOnlyInSetup'
      /\ i = n + 1 /\ Len(handled') = n + 1
      /\ handled'[n + 1] = [req |-> i, fd |-> fd]
      /\ \A h \in 1 .. n : handled'[h] = handled[h]
      /\ \A h \in 1 .. Len(handled') : h \in 1 .. n \/ h = n + 1
      /\ n \in Nat /\ n + 1 \in 1 .. N
      /\ Start[n + 1] < taken
  <2> HIDE DEF i, fd, usesFd
  <2> QED BY <1>1, <1>2, <1>3, AdvanceInv DEF i
<1>5. Paired'
  <2> SUFFICES ASSUME ~rejected PROVE FdsPaired' /\ Queued'
    BY <1>1 DEF Paired
  <2>1. FdsPaired /\ QueueOf(ancillaryFds, n, taken)
    BY <1>1 DEF IInv, Paired, Alive, Queued
  <2>2. CASE Requests[n + 1].carriesFd
    <3>1. Waits(n + 1, n, taken)
      BY <1>4, <2>2 DEF Waits
    <3>2. /\ ancillaryFds # <<>> /\ Head(ancillaryFds) = n + 1
          /\ QueueOf(Tail(ancillaryFds), n + 1, taken)
      BY <1>2, <1>4, <2>1, <3>1, QueueHead
    <3>3. fd = n + 1 /\ ancillaryFds' = Tail(ancillaryFds)
      BY <1>1, <1>4, <2>2, <3>2
    <3>4. FdsPaired'
      <4> HIDE DEF i, fd, usesFd
      <4> QED BY <1>1, <1>4, <2>1, <3>3 DEF FdsPaired
    <3> QED BY <1>1, <1>4, <3>2, <3>3, <3>4 DEF Queued
  <2>3. CASE ~Requests[n + 1].carriesFd
    <3>1. QueueOf(ancillaryFds, n + 1, taken)
      BY <1>2, <1>4, <2>1, <2>3, QueueSkip
    <3>2. ancillaryFds' = ancillaryFds
      BY <1>1, <1>4, <2>3
    <3>3. FdsPaired'
      <4> HIDE DEF fd, usesFd
      <4> QED BY <1>1, <1>4, <2>1, <2>3 DEF FdsPaired
    <3> QED BY <1>1, <1>4, <3>1, <3>2, <3>3 DEF Queued
  <2> QED BY <2>2, <2>3
<1> QED
  BY <1>4, <1>5 DEF IInv

LEMMA RejectInv ==
  ASSUME IInv, RejectRequest
  PROVE  IInv'
<1> DEFINE n == Len(handled)
<1>1. /\ pc = "handle" /\ Complete
      /\ handled' = Append(handled, [req |-> Next1, fd |-> NoFd])
      /\ rejected' = (rejected \/ Requests[Next1].carriesFd)
      /\ position' = position + Size(Next1) /\ activePosition' = position'
      /\ UNCHANGED <<pc, running, taken, buffer, capacity, ancillaryFds>>
  BY DEF RejectRequest
<1>2. ancillaryFds' \in Seq(1 .. N) /\ rejected' \in BOOLEAN /\ NoFd \in 0 .. N
  <2>1. Next1 \in 1 .. N
    BY <1>1, NextRequest DEF Complete
  <2> QED BY <1>1, <2>1, RequestTypes DEF IInv, TypeOK, N, NoFd
<1>3. /\ TypeOK' /\ Framed' /\ InOrder' /\ CrashOnlyInSetup'
      /\ Next1 = n + 1 /\ Len(handled') = n + 1
      /\ handled'[n + 1] = [req |-> Next1, fd |-> NoFd]
      /\ \A h \in 1 .. n : handled'[h] = handled[h]
      /\ \A h \in 1 .. Len(handled') : h \in 1 .. n \/ h = n + 1
      /\ n \in Nat /\ n + 1 \in 1 .. N
  BY <1>1, <1>2, AdvanceInv
<1>4. Paired'
  <2> SUFFICES ASSUME ~rejected' PROVE FdsPaired' /\ Queued'
    BY DEF Paired
  <2>1. ~rejected /\ ~Requests[n + 1].carriesFd
    BY <1>1, <1>3
  <2>2. FdsPaired /\ QueueOf(ancillaryFds, n, taken) /\ ancillaryFds \in Seq(1 .. N)
    BY <1>1, <2>1 DEF IInv, Paired, Alive, Queued, TypeOK, N
  <2>3. QueueOf(ancillaryFds, n + 1, taken)
    BY <1>3, <2>1, <2>2, QueueSkip
  <2>4. FdsPaired'
    BY <1>1, <1>3, <2>1, <2>2 DEF FdsPaired
  <2> QED BY <1>1, <1>3, <2>3, <2>4 DEF Queued
<1> QED
  BY <1>3, <1>4 DEF IInv

-----------------------------------------------------------------------------
(* The steps that leave the stream, the requests and the descriptors alone. *)
Content == <<taken, buffer, ancillaryFds, handled, rejected>>

LEMMA QuietInv ==
  ASSUME IInv, UNCHANGED Content, TypeOK',
         pc' \in {"poll", "handle"} => position' = activePosition',
         Alive' => Alive /\ activePosition' = activePosition,
         CrashOnlyInSetup'
  PROVE  IInv'
<1>1. Framed'
  BY DEF IInv, Framed, Content
<1>2. InOrder' /\ FdsPaired' = FdsPaired /\ Queued' = Queued
  BY DEF IInv, InOrder, FdsPaired, Queued, Content
<1>3. Paired'
  BY <1>2 DEF IInv, Paired, Content
<1> QED
  BY <1>1, <1>2, <1>3 DEF IInv

(* The thread reads past the buffer only in the setup, the first request.   *)
LEMMA UnderflowInv ==
  ASSUME IInv, SetupUnderflow
  PROVE  IInv'
<1>1. UNCHANGED Content /\ pc' = "crashed" /\ TypeOK' /\ ~Alive'
  BY DEF SetupUnderflow, Content, IInv, TypeOK, Alive
<1>2. CrashOnlyInSetup'
  <2>1. Len(handled) \in Nat /\ Len(handled) + 1 \in 1 .. N /\ Next1 = Len(handled) + 1
    BY NextRequest DEF SetupUnderflow
  <2>2. Len(handled) = 0
    <3>1. Len(handled) + 1 \notin 2 .. N
      BY <2>1, StreamAssumption DEF SetupUnderflow, N
    <3> QED BY <2>1, <3>1, RequestTypes
  <2>3. handled = <<>>
    BY <2>2, EmptySeq DEF IInv, TypeOK
  <2>4. Next1 = 1 /\ Requests[1].kind = "setup" /\ 1 \in 1 .. N
    BY <2>1, <2>2 DEF SetupUnderflow
  <2>5. Requests[1].body > 0
    <3>1. available >= HeaderSize /\ ~(available >= Size(1))
      BY <2>4 DEF SetupUnderflow, Complete, HeaderRead
    <3>2. Size(1) = HeaderSize + Requests[1].body
      BY <2>4 DEF Size, Header
    <3>3. Requests[1].body \in Nat
      BY <2>4, RequestTypes
    <3>4. HeaderSize \in Nat
      BY StreamAssumption
    <3>5. available \in Int
      BY LenProperties DEF available, IInv, TypeOK
    <3> QED BY <3>1, <3>2, <3>3, <3>4, <3>5
  <2> QED BY <1>1, <2>3, <2>4, <2>5 DEF CrashOnlyInSetup, Content
<1> QED
  BY <1>1, <1>2, QuietInv

LEMMA IncompleteInv ==
  ASSUME IInv, HandleIncomplete
  PROVE  IInv'
<1>1. UNCHANGED Content /\ pc' = "leave" /\ activePosition' = activePosition /\ Alive
  BY DEF HandleIncomplete, Content, Alive
<1>2. position' \in 0 .. Len(buffer)
  <2>1. Len(buffer) \in Nat /\ position \in 0 .. Len(buffer) /\ HeaderSize \in Nat \ {0}
    BY LenProperties, StreamAssumption DEF IInv, TypeOK
  <2>2. CASE ~HeaderRead
    BY <2>1, <2>2 DEF HandleIncomplete
  <2>3. CASE HeaderRead
    <3> DEFINE read == HeaderSize * (available \div HeaderSize)
    <3>1. available \in Nat /\ available = Len(buffer) - position
      BY <2>1 DEF available
    <3>2. read \in Nat /\ read <= available
      <4> HIDE DEF available
      <4>1. \A a \in Nat, h \in Nat \ {0} : h * (a \div h) \in Nat /\ h * (a \div h) <= a
        OBVIOUS
      <4> QED BY <2>1, <3>1, <4>1
    <3>3. Header(Next1) \in Nat
      BY <2>1 DEF Header
    <3>4. position' = position + Smaller(Header(Next1), read)
      BY <2>3 DEF HandleIncomplete
    <3> HIDE DEF read
    <3>5. Smaller(Header(Next1), read) \in Nat /\ Smaller(Header(Next1), read) <= read
      <4>1. \A c \in Nat, d \in Nat : Smaller(c, d) \in Nat /\ Smaller(c, d) <= d
        BY DEF Smaller
      <4> QED BY <3>2, <3>3, <4>1
    <3> QED BY <2>1, <3>1, <3>2, <3>4, <3>5
  <2> QED BY <2>2, <2>3
<1>3. TypeOK'
  BY <1>2 DEF HandleIncomplete, IInv, TypeOK
<1>4. CrashOnlyInSetup'
  BY <1>1 DEF CrashOnlyInSetup
<1> QED
  BY <1>1, <1>3, <1>4, QuietInv

LEMMA LeaveInv ==
  ASSUME IInv,
         \/ EndOfFile \/ StopHandling \/ SetActivePosition \/ ShutdownKill \/ Stop
         \/ UNCHANGED vars
  PROVE  IInv'
<1>1. CASE EndOfFile
  <2>1. UNCHANGED Content /\ pc' = "killed" /\ ~Alive' /\ TypeOK' /\ CrashOnlyInSetup'
    BY <1>1 DEF EndOfFile, Content, Alive, CrashOnlyInSetup, IInv, TypeOK
  <2> QED BY <2>1, QuietInv
<1>2. CASE StopHandling
  <2>1. /\ UNCHANGED Content /\ pc' = "leave" /\ Alive /\ activePosition' = activePosition
        /\ TypeOK' /\ CrashOnlyInSetup'
    BY <1>2 DEF StopHandling, Content, Alive, CrashOnlyInSetup, IInv, TypeOK
  <2> QED BY <2>1, QuietInv
<1>3. CASE SetActivePosition
  <2>1. /\ UNCHANGED Content /\ pc' \in {"poll", "killed"} /\ Alive
        /\ position' = activePosition' /\ activePosition' = activePosition
        /\ CrashOnlyInSetup'
    BY <1>3 DEF SetActivePosition, Content, Alive, CrashOnlyInSetup
  <2>2. TypeOK'
    BY <1>3 DEF SetActivePosition, IInv, TypeOK
  <2> QED BY <2>1, <2>2, QuietInv
<1>4. CASE ShutdownKill
  <2>1. UNCHANGED Content /\ pc' = "killed" /\ ~Alive' /\ TypeOK' /\ CrashOnlyInSetup'
    BY <1>4 DEF ShutdownKill, Content, Alive, CrashOnlyInSetup, IInv, TypeOK
  <2> QED BY <2>1, QuietInv
<1>5. CASE Stop
  <2>1. /\ UNCHANGED Content /\ pc' = pc /\ position' = position /\ activePosition' = activePosition
        /\ TypeOK' /\ CrashOnlyInSetup'
    BY <1>5 DEF Stop, Content, CrashOnlyInSetup, IInv, TypeOK
  <2>2. (Alive' <=> Alive) /\ (pc \in {"poll", "handle"} => position = activePosition)
    BY <2>1 DEF Alive, IInv, Framed
  <2> QED BY <2>1, <2>2, QuietInv
<1>6. CASE UNCHANGED vars
  <2>1. /\ UNCHANGED Content /\ pc' = pc /\ position' = position /\ activePosition' = activePosition
        /\ TypeOK' /\ CrashOnlyInSetup'
    BY <1>6 DEF vars, Content, CrashOnlyInSetup, IInv, TypeOK
  <2>2. (Alive' <=> Alive) /\ (pc \in {"poll", "handle"} => position = activePosition)
    BY <2>1 DEF Alive, IInv, Framed
  <2> QED BY <2>1, <2>2, QuietInv
<1> QED
  BY <1>1, <1>2, <1>3, <1>4, <1>5, <1>6

LEMMA NextInv == IInv /\ [Next]_vars => IInv'
<1> SUFFICES ASSUME IInv, [Next]_vars PROVE IInv'
  OBVIOUS
<1>1. CASE ReadMoreData BY <1>1, ReadInv
<1>2. CASE HandleRequest BY <1>2, HandleInv
<1>3. CASE RejectRequest BY <1>3, RejectInv
<1>4. CASE SetupUnderflow BY <1>4, UnderflowInv
<1>5. CASE HandleIncomplete BY <1>5, IncompleteInv
<1>6. CASE \/ EndOfFile \/ StopHandling \/ SetActivePosition \/ ShutdownKill \/ Stop
           \/ UNCHANGED vars
  BY <1>6, LeaveInv
<1> QED
  BY <1>1, <1>2, <1>3, <1>4, <1>5, <1>6 DEF Next, ThreadStep

LEMMA Inductive == Spec => []IInv
  BY InitInv, NextInv, PTL DEF Spec

-----------------------------------------------------------------------------
(* Types: no position leaves the buffer, whatever the pieces of the stream. *)
THEOREM TypeCorrect == Spec => []TypeOK
<1>1. IInv => TypeOK
  BY DEF IInv
<1> QED
  BY <1>1, Inductive, PTL

(* What is buffered is the part of the stream that follows the requests     *)
(* handled: reading, compacting, growing and restoring the position never   *)
(* lose or repeat a byte.                                                   *)
THEOREM NothingLostCorrect == Spec => []NothingLost
<1>1. IInv => NothingLost
  <2> SUFFICES ASSUME IInv PROVE NothingLost
    OBVIOUS
  <2>1. Len(buffer) \in Nat /\ taken \in Nat /\ position \in Nat
    BY LenProperties, StreamTypes DEF IInv, TypeOK
  <2>2. pc \in {"poll", "handle"} => taken - available = Start[Len(handled) + 1]
    <3> SUFFICES ASSUME pc \in {"poll", "handle"} PROVE taken - available = Start[Len(handled) + 1]
      OBVIOUS
    <3>1. taken - Len(buffer) + position = Start[Len(handled) + 1]
      BY DEF IInv, Framed, Alive
    <3> QED BY <2>1, <3>1 DEF available
  <2> QED BY <2>2 DEF NothingLost, IInv, Framed
<1> QED
  BY <1>1, Inductive, PTL

(* Every request that carries a descriptor is given its own, until one such *)
(* request has been answered by an error.                                   *)
THEOREM FdsPairedCorrect == Spec => []FdsPaired
<1>1. IInv => FdsPaired
  BY DEF IInv, Paired, FdsPaired
<1> QED
  BY <1>1, Inductive, PTL

(* Only the setup, read before its body has arrived, ends the thread.       *)
THEOREM CrashCorrect == Spec => []CrashOnlyInSetup
<1>1. IInv => CrashOnlyInSetup
  BY DEF IInv
<1> QED
  BY <1>1, Inductive, PTL

(* The bytes, their pieces and the buffer implement the queue of requests:  *)
(* each is delivered once, in the order in which it was written.            *)
THEOREM Refinement == Spec => DeliversInOrder
<1> DEFINE delivered == [h \in 1 .. Len(handled) |-> handled[h].req]
<1>1. Init => Queue!Init
  <2> SUFFICES ASSUME Init PROVE delivered = <<>>
    BY DEF Queue!Init
  <2>1. handled = <<>> /\ Len(handled) = 0
    BY DEF Init
  <2> QED BY <2>1
<1>2. ASSUME IInv, [Next]_vars
      PROVE  [Queue!Next]_(delivered)
  <2>1. CASE UNCHANGED handled
    BY <2>1
  <2>2. CASE HandleRequest \/ RejectRequest
    <3>1. PICK fd : handled' = Append(handled, [req |-> Next1, fd |-> fd])
      BY <2>2 DEF HandleRequest, RejectRequest
    <3>2. Len(handled) \in Nat /\ Next1 = Len(handled) + 1 /\ Len(handled) + 1 \in 1 .. N
      BY <1>2, <2>2, NextRequest DEF HandleRequest, RejectRequest, Complete
    <3>3. /\ Len(handled') = Len(handled) + 1
          /\ \A h \in 1 .. Len(handled) : handled'[h] = handled[h]
          /\ handled'[Len(handled) + 1] = [req |-> Next1, fd |-> fd]
      BY <1>2, <3>1, AppendProperties DEF IInv, TypeOK
    <3>4. delivered \in Seq(Nat) /\ Len(delivered) = Len(handled)
      <4>1. \A h \in 1 .. Len(handled) : handled[h].req \in Nat
        BY <1>2, <3>2 DEF IInv, InOrder
      <4> QED BY <3>2, <4>1, SeqDef
    <3>5. delivered' = Append(delivered, Len(delivered) + 1)
      <4>1. delivered' = [h \in 1 .. Len(handled) + 1 |-> handled'[h].req]
        BY <3>3
      <4>2. Append(delivered, Len(delivered) + 1)
              = [h \in 1 .. Len(handled) + 1 |-> IF h <= Len(handled) THEN handled[h].req ELSE Len(handled) + 1]
        BY <3>2, <3>4
      <4>3. \A h \in 1 .. Len(handled) + 1 :
              handled'[h].req = IF h <= Len(handled) THEN handled[h].req ELSE Len(handled) + 1
        BY <3>2, <3>3
      <4> QED BY <4>1, <4>2, <4>3
    <3> HIDE DEF delivered
    <3>6. Len(delivered) < Len(Requests)
      BY <3>2, <3>4, RequestTypes DEF N
    <3> QED BY <3>5, <3>6 DEF Queue!Next, Queue!Deliver, delivered
  <2>3. CASE \/ ReadMoreData \/ EndOfFile \/ SetupUnderflow \/ HandleIncomplete
             \/ StopHandling \/ SetActivePosition \/ ShutdownKill \/ Stop \/ UNCHANGED vars
    BY <2>1, <2>3 DEF ReadMoreData, EndOfFile, SetupUnderflow, HandleIncomplete,
                      StopHandling, SetActivePosition, ShutdownKill, Stop, vars
  <2> QED
    BY <1>2, <2>2, <2>3 DEF Next, ThreadStep
<1> QED
  BY <1>1, <1>2, Inductive, PTL DEF Spec, DeliversInOrder, Queue!Spec
=============================================================================
