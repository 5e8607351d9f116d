-------------------------- MODULE MediaOutputProofs --------------------------
(***************************************************************************)
(* The safety properties of MediaOutput, and of the PlaybackPipe in it,    *)
(* for every size of the queue, every stream and every number of skipped   *)
(* records.                                                                *)
(***************************************************************************)
EXTENDS MediaOutput, SequenceTheorems, WellFoundedInduction, TLAPS

\* A set of numbers has a least one.
LEMMA Least ==
  ASSUME NEW T, T \subseteq Nat, T # {}
  PROVE  \E x \in T : \A y \in T : x <= y
<1>1. PICK x \in T : \A y \in T : ~ (<<y, x>> \in OpToRel(<, Nat))
  BY WFMin, NatLessThanWellFounded, Zenon
<1>2. \A y \in T : x <= y
  <2> TAKE y \in T
  <2>1. ~ (y < x)
    BY <1>1 DEF OpToRel
  <2> QED BY <2>1
<1> QED BY <1>2

\* Induction up to N: a number that is left out would have a least one.
LEMMA Induction ==
  ASSUME NEW N \in Nat, NEW P, 0 \in P, \A n \in 1..N : n - 1 \in P => n \in P
  PROVE  0..N \subseteq P
<1> SUFFICES ASSUME ~(0..N \subseteq P) PROVE FALSE
  OBVIOUS
<1> DEFINE T == {n \in 0..N : n \notin P}
<1>1. T \subseteq Nat /\ T # {}
  OBVIOUS
<1>2. PICK x \in T : \A y \in T : x <= y
  <2> HIDE DEF T
  <2> QED BY <1>1, Least
<1>3. x \in 1..N /\ x \notin P
  OBVIOUS
<1>4. x - 1 \in 0..N /\ x - 1 < x
  BY <1>3
<1>5. x - 1 \in P
  BY <1>2, <1>4
<1> QED BY <1>3, <1>5

Steps(N, S) == [1..N -> [S -> S]]

\* f begins with first and goes on from n - 1 to n by step[n]
Recurs(f, N, S, first, step) ==
  f \in [0..N -> S] /\ f[0] = first /\ \A n \in 1..N : f[n] = step[n][f[n - 1]]

\* A recursion over 1..N defines a function.
LEMMA Recursion ==
  ASSUME NEW N \in Nat, NEW S, NEW first \in S, NEW step \in Steps(N, S)
  PROVE  \E f : Recurs(f, N, S, first, step)
<1> USE DEF Steps
<1> DEFINE Upto(m, f) == f[0] = first /\ \A n \in 1..m : f[n] = step[n][f[n - 1]]
           P == {m \in 0..N : \E f \in [0..m -> S] : Upto(m, f)}
<1>1. 0 \in P
  <2> DEFINE f == [n \in 0..0 |-> first]
  <2>1. f \in [0..0 -> S] /\ f[0] = first
    OBVIOUS
  <2>2. \A n \in 1..0 : FALSE
    OBVIOUS
  <2>3. Upto(0, f)
    BY <2>1, <2>2, Zenon
  <2>4. 0 \in 0..N
    OBVIOUS
  <2> QED BY <2>1, <2>3, <2>4, Zenon
<1>2. \A m \in 1..N : m - 1 \in P => m \in P
  <2> SUFFICES ASSUME NEW m \in 1..N, m - 1 \in P PROVE m \in P
    OBVIOUS
  <2>1. PICK g \in [0..(m - 1) -> S] : Upto(m - 1, g)
    BY Zenon
  <2>2. m - 1 \in 0..(m - 1) /\ m \in 1..N /\ 0 \in 0..(m - 1) /\ m # 0
    OBVIOUS
  <2> DEFINE x == step[m][g[m - 1]]
             f == [n \in 0..m |-> IF n = m THEN x ELSE g[n]]
  <2>3. step[m] \in [S -> S] /\ g[m - 1] \in S
    BY <2>2
  <2>4. x \in S
    BY <2>3
  <2> HIDE DEF x
  <2>5. \A n \in 0..m : n # m => n \in 0..(m - 1) /\ g[n] \in S
    OBVIOUS
  <2>6. f \in [0..m -> S]
    BY <2>4, <2>5
  <2>7. f[0] = first /\ f[m] = x
    BY <2>1, <2>2
  <2>8. ASSUME NEW n \in 1..m PROVE f[n] = step[n][f[n - 1]]
    <3>1. n \in 0..m /\ n - 1 \in 0..m /\ n - 1 # m
      OBVIOUS
    <3>2. f[n - 1] = g[n - 1]
      BY <3>1
    <3>3. CASE n = m
      BY <2>7, <3>2, <3>3 DEF x
    <3>4. CASE n # m
      <4>1. n \in 1..(m - 1) /\ f[n] = g[n]
        BY <3>1, <3>4
      <4> QED BY <2>1, <3>2, <4>1
    <3> QED BY <3>3, <3>4
  <2>9. Upto(m, f)
    BY <2>7, <2>8
  <2> HIDE DEF Upto, f
  <2> QED BY <2>6, <2>9
<1>3. N \in P
  <2> HIDE DEF P
  <2>1. 0..N \subseteq P
    BY <1>1, <1>2, Induction
  <2> QED BY <2>1
<1> QED BY <1>3 DEF Recurs
\* s sums up the lengths of q
Sums(q, s) ==
  /\ s \in [0..Len(q) -> Nat] /\ s[0] = 0
  /\ \A n \in 1..Len(q) : s[n] = s[n - 1] + q[n].len

Sized(C) == \A x \in C : x.len \in Nat

LEMMA BytesSum ==
  ASSUME NEW C, Sized(C), NEW q \in Seq(C)
  PROVE  \E s : Sums(q, s) /\ Bytes(q) = s[Len(q)]
<1>1. PICK N \in Nat : N = Len(q) /\ \A n \in 1..N : q[n] \in C
  OBVIOUS
<1>2. \A n \in 1..N : q[n].len \in Nat
  BY <1>1 DEF Sized
<1>3. \A n \in 1..N : n \in 0..N /\ n - 1 \in 0..N /\ n # 0
  BY <1>1
<1>4. 0 \in 0..N /\ \A n \in 0..N : n = 0 \/ n \in 1..N
  BY <1>1
<1>5. PICK f : f \in [0..N -> Nat] /\ f[0] = 0 /\ \A n \in 1..N : f[n] = f[n - 1] + q[n].len
  <2>1. PICK step : /\ step \in Steps(N, Nat)
                    /\ \A n \in 1..N, x \in Nat : step[n][x] = x + q[n].len
    <3> DEFINE by == [n \in 1..N |-> [x \in Nat |-> x + q[n].len]]
    <3>1. by \in Steps(N, Nat)
      BY <1>2 DEF Steps
    <3>2. \A n \in 1..N, x \in Nat : by[n][x] = x + q[n].len
      OBVIOUS
    <3> HIDE DEF by
    <3> QED BY <3>1, <3>2
  <2>2. 0 \in Nat
    OBVIOUS
  <2>3. PICK f : Recurs(f, N, Nat, 0, step)
    BY <1>1, <2>1, <2>2, Recursion
  <2>4. f \in [0..N -> Nat] /\ f[0] = 0 /\ \A n \in 1..N : f[n] = step[n][f[n - 1]]
    BY <2>3 DEF Recurs
  <2>5. \A n \in 1..N : f[n - 1] \in Nat
    BY <1>3, <2>4
  <2>6. \A n \in 1..N : f[n] = f[n - 1] + q[n].len
    BY <2>1, <2>4, <2>5
  <2> QED BY <2>4, <2>6
<1> DEFINE E(h) == [n \in 0..N |-> IF n = 0 THEN 0 ELSE h[n - 1] + q[n].len]
           g == CHOOSE h : h = E(h)
<1>6. f = E(f)
  <2>1. \A n \in 0..N : f[n] = IF n = 0 THEN 0 ELSE f[n - 1] + q[n].len
    BY <1>4, <1>5
  <2> QED BY <1>5, <2>1
<1>7. g = E(g)
  <2> HIDE DEF E
  <2> QED BY <1>6, Zenon
<1>8. Bytes(q) = g[N]
  BY <1>1, Zenon DEF Bytes
<1> HIDE DEF g
<1>9. g = [n \in 0..N |-> g[n]] /\ g[0] = 0 /\ \A n \in 1..N : g[n] = g[n - 1] + q[n].len
  BY <1>3, <1>4, <1>7
<1> DEFINE P == {n \in 0..N : g[n] \in Nat}
<1>10. 0..N \subseteq P
  <2>1. 0 \in P
    BY <1>4, <1>9
  <2>2. \A n \in 1..N : n - 1 \in P => n \in P
    <3> TAKE n \in 1..N
    <3> HAVE n - 1 \in P
    <3>1. g[n - 1] \in Nat /\ q[n].len \in Nat /\ n \in 0..N /\ g[n] = g[n - 1] + q[n].len
      BY <1>2, <1>3, <1>9
    <3> HIDE DEF P
    <3>2. g[n] \in Nat
      BY <3>1
    <3> QED BY <3>1, <3>2 DEF P
  <2> HIDE DEF P
  <2> QED BY <1>1, <2>1, <2>2, Induction
<1>11. g \in [0..N -> Nat]
  BY <1>9, <1>10
<1> QED BY <1>1, <1>8, <1>9, <1>11 DEF Sums

\* Nothing else sums them up.
LEMMA SumIs ==
  ASSUME NEW C, Sized(C), NEW q \in Seq(C), NEW s, Sums(q, s)
  PROVE  Bytes(q) = s[Len(q)] /\ Bytes(q) \in Nat
<1>1. PICK N \in Nat : N = Len(q)
  OBVIOUS
<1>2. PICK t : Sums(q, t) /\ Bytes(q) = t[N]
  BY <1>1, BytesSum
<1>3. /\ s \in [0..N -> Nat] /\ s[0] = 0 /\ \A n \in 1..N : s[n] = s[n - 1] + q[n].len
      /\ t \in [0..N -> Nat] /\ t[0] = 0 /\ \A n \in 1..N : t[n] = t[n - 1] + q[n].len
  BY <1>1, <1>2 DEF Sums
<1> DEFINE P == {n \in 0..N : s[n] = t[n]}
<1>4. 0 \in P
  BY <1>3
<1>5. \A n \in 1..N : n - 1 \in P => n \in P
  BY <1>3
<1>6. 0..N \subseteq P
  <2> HIDE DEF P
  <2> QED BY <1>1, <1>4, <1>5, Induction
<1>7. N \in P
  BY <1>6
<1> QED BY <1>1, <1>2, <1>3, <1>7

LEMMA BytesType ==
  ASSUME NEW C, Sized(C), NEW q \in Seq(C)
  PROVE  Bytes(q) \in Nat
BY BytesSum, SumIs

LEMMA BytesEmpty == Bytes(<<>>) = 0
<1>1. <<>> \in Seq({}) /\ Len(<<>>) = 0 /\ Sized({})
  BY DEF Sized
<1>2. PICK s : Sums(<<>>, s) /\ Bytes(<<>>) = s[Len(<<>>)]
  BY <1>1, BytesSum
<1> QED BY <1>1, <1>2 DEF Sums

LEMMA BytesOne ==
  ASSUME NEW C, Sized(C), NEW x \in C
  PROVE  Bytes(<<x>>) = x.len
<1>1. <<x>> \in Seq(C) /\ Len(<<x>>) = 1 /\ <<x>>[1] = x /\ x.len \in Nat
  BY DEF Sized
<1>2. PICK s : Sums(<<x>>, s) /\ Bytes(<<x>>) = s[1]
  BY <1>1, BytesSum
<1>3. s[0] = 0 /\ s[1] = s[1 - 1] + x.len
  <2>1. 1 \in 1..Len(<<x>>)
    BY <1>1
  <2>2. s[0] = 0 /\ \A n \in 1..Len(<<x>>) : s[n] = s[n - 1] + <<x>>[n].len
    BY <1>2 DEF Sums
  <2> QED BY <1>1, <2>1, <2>2
<1> QED BY <1>1, <1>2, <1>3

\* The length of one queue behind another.
LEMMA BytesConcat ==
  ASSUME NEW C, Sized(C), NEW p \in Seq(C), NEW q \in Seq(C)
  PROVE  Bytes(p \o q) = Bytes(p) + Bytes(q)
<1>1. PICK m \in Nat, n \in Nat, r \in Seq(C) :
        /\ m = Len(p) /\ n = Len(q) /\ r = p \o q /\ Len(r) = m + n
        /\ \A i \in 1..m : r[i] = p[i]
        /\ \A j \in 1..n : r[m + j] = q[j]
  <2>1. PICK m \in Nat, n \in Nat : m = Len(p) /\ n = Len(q)
    OBVIOUS
  <2>2. /\ p \o q \in Seq(C) /\ Len(p \o q) = m + n
        /\ \A i \in 1..(m + n) : (p \o q)[i] = IF i <= m THEN p[i] ELSE q[i - m]
    BY <2>1, ConcatProperties
  <2>3. \A i \in 1..m : (p \o q)[i] = p[i]
    BY <2>2
  <2>4. \A j \in 1..n : (p \o q)[m + j] = q[j]
    <3> TAKE j \in 1..n
    <3>1. m + j \in 1..(m + n) /\ ~(m + j <= m) /\ (m + j) - m = j
      OBVIOUS
    <3> QED BY <2>2, <3>1
  <2> QED BY <2>1, <2>2, <2>3, <2>4
<1>2. PICK s : Sums(p, s) /\ Bytes(p) = s[m]
  BY <1>1, BytesSum
<1>3. PICK t : Sums(q, t) /\ Bytes(q) = t[n]
  BY <1>1, BytesSum
<1>4. /\ s \in [0..m -> Nat] /\ s[0] = 0 /\ \A i \in 1..m : s[i] = s[i - 1] + p[i].len
      /\ t \in [0..n -> Nat] /\ t[0] = 0 /\ \A i \in 1..n : t[i] = t[i - 1] + q[i].len
  BY <1>1, <1>2, <1>3 DEF Sums
<1> DEFINE u == [i \in 0..(m + n) |-> IF i <= m THEN s[i] ELSE s[m] + t[i - m]]
<1>5. u \in [0..(m + n) -> Nat]
  <2>1. \A i \in 0..(m + n) : (i <= m => i \in 0..m) /\ (~(i <= m) => i - m \in 0..n)
    OBVIOUS
  <2>2. m \in 0..m
    OBVIOUS
  <2> QED BY <1>4, <2>1, <2>2
<1>6. u[0] = 0 /\ u[m + n] = s[m] + t[n]
  BY <1>4
<1>7. ASSUME NEW i \in 1..(m + n) PROVE u[i] = u[i - 1] + r[i].len
  <2>1. i \in 0..(m + n) /\ i - 1 \in 0..(m + n)
    OBVIOUS
  <2>2. CASE i <= m
    <3>1. i \in 1..m /\ i - 1 <= m
      BY <2>2
    <3>2. u[i] = s[i] /\ u[i - 1] = s[i - 1]
      BY <2>1, <2>2, <3>1
    <3> QED BY <1>1, <1>4, <3>1, <3>2
  <2>3. CASE i > m
    <3>1. PICK j \in 1..n : i = m + j
      <4>1. i - m \in 1..n /\ i = m + (i - m)
        BY <2>3
      <4> QED BY <4>1
    <3>2. r[i] = q[j] /\ t[j] = t[j - 1] + q[j].len
      BY <1>1, <1>4, <3>1
    <3>3. j \in 0..n /\ j - 1 \in 0..n /\ m \in 0..m
      BY <3>1
    <3>4. t[j] \in Nat /\ t[j - 1] \in Nat /\ s[m] \in Nat
      BY <1>4, <3>3
    <3>5. q[j].len \in Nat
      BY <1>1 DEF Sized
    <3>6. u[i] = s[m] + t[j]
      BY <2>1, <2>3, <3>1
    <3>7. u[i - 1] = s[m] + t[j - 1]
      <4>1. CASE j = 1
        <5>1. u[i - 1] = s[m] /\ t[j - 1] = 0
          BY <1>4, <2>1, <3>1, <4>1
        <5> QED BY <3>4, <5>1
      <4>2. CASE j # 1
        <5>1. ~(i - 1 <= m) /\ (i - 1) - m = j - 1
          BY <3>1, <4>2
        <5> QED BY <2>1, <5>1
      <4> QED BY <4>1, <4>2
    <3>8. u[i] = (s[m] + t[j - 1]) + q[j].len
      <4> HIDE DEF u
      <4> QED BY <3>2, <3>6, <3>4, <3>5, SMTT(40)
    <3> QED BY <3>2, <3>7, <3>8
  <2> QED BY <2>2, <2>3
<1> HIDE DEF u
<1>8. Sums(r, u)
  BY <1>1, <1>5, <1>6, <1>7 DEF Sums
<1>9. Bytes(r) = u[m + n]
  <2>1. Bytes(r) = u[Len(r)]
    BY <1>8, SumIs
  <2> QED BY <1>1, <2>1
<1> QED BY <1>1, <1>2, <1>3, <1>6, <1>9
----------------------------------------------------------------------------

\* close(), the writer and the process
Control ==
  /\ NoMissedWakeup
  /\ process = "none" <=> writer = "none"
  /\ accepting => closing = "no"
  /\ closing \in {"join", "join_again", "wait", "wait_again"} => process # "none"
  /\ closing = "last_join" => process = "reaped"
  /\ PlayerReaped

Nals == [kind : Kinds \cup {"none"}, version : Nat, at : Nat,
         len : {0} \cup UNION {LenOf[kind] : kind \in Kinds}]
Fragments == [nal : Nals, i : Nat, n : Nat, start : BOOLEAN, end : BOOLEAN]

Types ==
  /\ nal \in Nals /\ sent \in Nat /\ pieces \in Nat /\ sent <= pieces
  /\ nal.kind = "none" => pieces = 0
  /\ nal.kind # "none" => nal.version > 0 /\ nal.at > 0
  /\ lost \in Nat /\ skipped \in BOOLEAN /\ (lost = 0 => ~skipped)
  /\ mixed \in BOOLEAN /\ fu \in Seq(Fragments)

PipeTypes ==
  /\ codec_safe \in BOOLEAN /\ garbled \in BOOLEAN /\ desynchronised \in BOOLEAN
  /\ queue \in Seq(Nals) /\ parameter_sets \in Seq(Nals) /\ Len(parameter_sets) <= 1
  /\ written \in [version : Nat, at : Nat]

\* queued_bytes is the length of the queue, and what is appended without
\* _fits_locked() finds the queue empty
Accounted ==
  /\ queued_bytes = Bytes(queue) /\ queued_bytes <= MaxBytes
  /\ desynchronised => codec_safe /\ queue = <<>>

\* what has been put together is the beginning of one NAL unit: of the one under
\* way, or of the last one, whose END was skipped
Beginning ==
  /\ fu # <<>> =>
       /\ fu[1].i = 1
       /\ \A j \in 2..Len(fu) : fu[j].nal = fu[1].nal /\ fu[j - 1].i < fu[j].i
       /\ \/ /\ fu[1].nal = nal /\ fu[1].n = pieces
             /\ fu[Len(fu)].i <= sent /\ (sent = pieces => skipped)
          \/ sent = 0 /\ skipped
  /\ lost = 0 /\ 0 < sent /\ sent < pieces => fu # <<>>

\* what the player has been given, before w, when it has read i chunks of q
Given(w, q, i) == IF i = 0 THEN w ELSE [version |-> q[i].version, at |-> q[i].at]

\* chunk x can be decoded behind g
Follows(g, x) ==
  /\ x.kind # "set" => x.version = g.version
  /\ x.kind = "inter" => x.at = g.at + 1

\* every chunk of q can be decoded behind the one before it
Chained(w, q) == \A i \in 1..Len(q) : Follows(Given(w, q, i - 1), q[i])

\* the NAL units offered so far
OfferedVersion == IF sent < pieces /\ nal.kind = "set" THEN nal.version - 1 ELSE nal.version
OfferedAt == IF sent < pieces THEN nal.at - 1 ELSE nal.at

\* the parameter sets kept are those of the last unit offered, which, while
\* synchronised, is the last of the queue
Synchronised ==
  accepting /\ ~broken =>
    /\ \/ parameter_sets = <<>> /\ OfferedVersion = 0
       \/ /\ Len(parameter_sets) = 1
          /\ parameter_sets[1].kind = "set" /\ parameter_sets[1].version = OfferedVersion
    /\ ~desynchronised =>
         Given(written, queue, Len(queue)) = [version |-> OfferedVersion, at |-> OfferedAt]

Following == codec_safe /\ lost = 0 => Chained(written, queue) /\ Synchronised

\* where the threads of control are, and the bound on what is skipped
Places ==
  /\ accepting \in BOOLEAN /\ broken \in BOOLEAN
  /\ process \in {"none", "running", "exited", "reaped"}
  /\ writer \in {"none", "ready", "asleep", "writing", "ended"}
  /\ closing \in {"no", "join", "join_again", "wait", "wait_again", "last_join", "closed"}
  /\ lost <= MaxLost

IInv ==
  /\ Control /\ Places /\ Types /\ PipeTypes /\ Accounted /\ Beginning /\ NothingMixed
  /\ Following /\ NothingGarbled
----------------------------------------------------------------------------
Piped == UNCHANGED <<stream, fu, mixed>>

LEMMA Cases ==
  ASSUME [Next]_vars
  PROVE  \/ \E kind \in Kinds, n \in 1..MaxFragments : \E len \in LenOf[kind] : Camera(kind, len, n)
         \/ Record \/ Skip
         \/ Piped /\ \/ WriterLooks \/ WriteDone \/ WriteBreaks \/ PlayerExits
                     \/ Close \/ Join \/ JoinAgain \/ Wait \/ WaitAgain \/ LastJoin
         \/ UNCHANGED vars
BY DEF Next, PipeNext, Piped

LEMMA ControlFrame == ASSUME Control, UNCHANGED pipe PROVE Control'
BY DEF Control, NoMissedWakeup, PlayerReaped, pipe, feeding, ghosts

LEMMA ControlOffer ==
  ASSUME Control, NEW chunk, Offer(chunk)
  PROVE  Control'
<1> USE DEF Control, NoMissedWakeup, PlayerReaped
<1>1. UNCHANGED <<codec_safe, closing>>
  BY DEF Offer
<1>2. CASE (~accepting \/ broken) /\ UNCHANGED <<feeding, process, writer>>
  BY <1>1, <1>2 DEF feeding
<1>3. CASE /\ accepting /\ ~broken /\ Enqueue(chunk)
           /\ process' = (IF process = "none" THEN "running" ELSE process)
           /\ UNCHANGED <<accepting, broken>>
  <2>1. PICK after :
          /\ queue' = after.queue
          /\ writer' = (IF Starts THEN "ready" ELSE IF after.queue = <<>> THEN writer ELSE Notify)
    BY <1>3, Zenon DEF Enqueue
  <2>2. CASE process = "none"
    BY <1>1, <1>3, <2>1, <2>2 DEF Starts
  <2>3. CASE process # "none" /\ queue' = <<>>
    BY <1>1, <1>3, <2>1, <2>3 DEF Starts
  <2>4. CASE process # "none" /\ queue' # <<>>
    BY <1>1, <1>3, <2>1, <2>4 DEF Starts, Notify
  <2> QED BY <2>2, <2>3, <2>4
<1>4. CASE /\ Starts /\ broken' = TRUE
           /\ queue' = <<>> /\ UNCHANGED <<accepting, process, writer>>
  BY <1>1, <1>4 DEF Starts
<1> QED BY <1>2, <1>3, <1>4 DEF Offer

LEMMA ControlPipe ==
  ASSUME Control,
         \/ WriterLooks \/ WriteDone \/ WriteBreaks \/ PlayerExits
         \/ Close \/ Join \/ JoinAgain \/ Wait \/ WaitAgain \/ LastJoin
  PROVE  Control'
<1> USE DEF Control, NoMissedWakeup, PlayerReaped, feeding
<1>1. CASE WriterLooks
  BY <1>1 DEF WriterLooks
<1>2. CASE WriteDone
  BY <1>2 DEF WriteDone
<1>3. CASE WriteBreaks
  BY <1>3 DEF WriteBreaks
<1>4. CASE PlayerExits
  BY <1>4 DEF PlayerExits
<1>5. CASE Close
  BY <1>5 DEF Close, Notify
<1>6. CASE Join
  BY <1>6 DEF Join, Continue
<1>7. CASE JoinAgain
  BY <1>7 DEF JoinAgain, Continue
<1>8. CASE Wait
  BY <1>8 DEF Wait, Continue, Reap
<1>9. CASE WaitAgain
  BY <1>9 DEF WaitAgain, Continue, Reap, TimesOut
<1>10. CASE LastJoin
  BY <1>10 DEF LastJoin, Continue
<1> QED BY <1>1, <1>2, <1>3, <1>4, <1>5, <1>6, <1>7, <1>8, <1>9, <1>10

\* a record leaves the pipe alone, or what it completes is offered
LEMMA RecordPipe ==
  ASSUME Record
  PROVE  UNCHANGED pipe \/ Offer(nal)
BY Zenon DEF Record

LEMMA ControlStep ==
  ASSUME Control, [Next]_vars
  PROVE  Control'
<1>1. CASE \E kind \in Kinds, n \in 1..MaxFragments : \E len \in LenOf[kind] : Camera(kind, len, n)
  BY <1>1, ControlFrame DEF Camera
<1>2. CASE Record
  BY <1>2, RecordPipe, ControlFrame, ControlOffer
<1>3. CASE Skip
  BY <1>3, ControlFrame DEF Skip
<1>4. CASE UNCHANGED vars
  BY <1>4, ControlFrame DEF vars
<1> QED BY <1>1, <1>2, <1>3, <1>4, ControlPipe, Cases

LEMMA PlacesFrame == ASSUME Places, UNCHANGED <<pipe, lost>> PROVE Places'
BY DEF Places, pipe, feeding

LEMMA PlacesOffer ==
  ASSUME Places, NEW chunk, Offer(chunk), lost' = lost
  PROVE  Places'
<1>1. /\ UNCHANGED <<accepting, closing>>
      /\ \/ UNCHANGED <<broken, process, writer>>
         \/ /\ UNCHANGED broken /\ writer' \in {"ready", writer}
            /\ process' = IF process = "none" THEN "running" ELSE process
         \/ broken' = TRUE /\ UNCHANGED <<process, writer>>
  BY Zenon DEF Offer, Enqueue, Notify, feeding
<1> QED BY <1>1 DEF Places

LEMMA PlacesPipe ==
  ASSUME Places, lost' = lost,
         \/ WriterLooks \/ WriteDone \/ WriteBreaks \/ PlayerExits
         \/ Close \/ Join \/ JoinAgain \/ Wait \/ WaitAgain \/ LastJoin
  PROVE  Places'
<1> USE DEF Places, feeding
<1>1. CASE WriterLooks
  BY <1>1 DEF WriterLooks
<1>2. CASE WriteDone \/ WriteBreaks \/ PlayerExits
  BY <1>2 DEF WriteDone, WriteBreaks, PlayerExits
<1>3. CASE Close
  BY <1>3 DEF Close, Notify
<1>4. CASE Join \/ JoinAgain \/ LastJoin
  BY <1>4 DEF Join, JoinAgain, LastJoin, Continue
<1>5. CASE Wait \/ WaitAgain
  BY <1>5 DEF Wait, WaitAgain, Continue, Reap, TimesOut
<1> QED BY <1>1, <1>2, <1>3, <1>4, <1>5

LEMMA PlacesStep ==
  ASSUME Types, Places, [Next]_vars
  PROVE  Places'
<1>1. CASE \E kind \in Kinds, n \in 1..MaxFragments : \E len \in LenOf[kind] : Camera(kind, len, n)
  BY <1>1, PlacesFrame DEF Camera
<1>2. CASE Record
  <2>1. lost' = lost
    BY <1>2 DEF Record
  <2> QED BY <1>2, <2>1, RecordPipe, PlacesFrame, PlacesOffer
<1>3. CASE Skip
  <2>1. lost < MaxLost /\ lost' = lost + 1 /\ UNCHANGED pipe
    BY <1>3 DEF Skip
  <2>2. lost + 1 <= MaxLost
    BY <2>1, OutputAssumption DEF Types
  <2> QED BY <2>1, <2>2 DEF Places, pipe, feeding
<1>4. CASE UNCHANGED vars
  BY <1>4, PlacesFrame DEF vars, stream
<1>5. CASE Piped /\ \/ WriterLooks \/ WriteDone \/ WriteBreaks \/ PlayerExits
                    \/ Close \/ Join \/ JoinAgain \/ Wait \/ WaitAgain \/ LastJoin
  BY <1>5, PlacesPipe DEF Piped, stream
<1> QED BY <1>1, <1>2, <1>3, <1>4, <1>5, Cases

----------------------------------------------------------------------------
LEMMA FragmentFacts ==
  ASSUME Types, sent < pieces
  PROVE  /\ NextFragment \in Fragments
         /\ NextFragment.nal = nal /\ NextFragment.i = sent + 1 /\ NextFragment.n = pieces
         /\ (NextFragment.start <=> sent + 1 = 1) /\ (NextFragment.end <=> sent + 1 = pieces)
<1>1. sent + 1 \in Nat /\ pieces \in Nat /\ nal \in Nals
  BY DEF Types
<1> DEFINE i == sent + 1
<1>2. i \in Nat
  BY <1>1
<1> HIDE DEF i
<1>3. Fragment(nal, i, pieces) \in Fragments
  BY <1>1, <1>2 DEF Fragment, Fragments
<1>4. NextFragment = Fragment(nal, i, pieces)
  BY DEF NextFragment, i
<1> QED BY <1>3, <1>4 DEF Fragment, i

\* One fragment behind the others.
LEMMA GrownFacts ==
  ASSUME NEW q \in Seq(Fragments), q # <<>>, NEW f \in Fragments
  PROVE  /\ Append(q, f) \in Seq(Fragments) /\ Append(q, f) # <<>>
         /\ Len(q) \in Nat /\ Len(q) > 0 /\ Len(Append(q, f)) = Len(q) + 1
         /\ Append(q, f)[Len(q) + 1] = f /\ Append(q, f)[1] = q[1]
         /\ \A j \in 1..Len(q) : Append(q, f)[j] = q[j]
OBVIOUS

\* What feed() makes of the next record.
LEMMA FedFacts ==
  ASSUME Types, Beginning, sent < pieces, NEW fed, fed = Fed(fu, NextFragment)
  PROVE  /\ fed.fu \in Seq(Fragments)
         /\ fed.nals = {} \/ \E whole : fed.nals = {whole} /\ Unmixed(whole)
         /\ fed.fu # <<>> =>
              /\ fed.fu[1].i = 1 /\ fed.fu[1].nal = nal /\ fed.fu[1].n = pieces
              /\ \A j \in 2..Len(fed.fu) :
                   fed.fu[j].nal = fed.fu[1].nal /\ fed.fu[j - 1].i < fed.fu[j].i
              /\ fed.fu[Len(fed.fu)].i <= sent + 1 /\ sent + 1 # pieces
         /\ lost = 0 => (fed.nals # {} <=> sent + 1 = pieces)
         /\ lost = 0 /\ sent + 1 < pieces => fed.fu # <<>>
<1> DEFINE f == NextFragment
<1>1. /\ f \in Fragments /\ f.nal = nal /\ f.i = sent + 1 /\ f.n = pieces
      /\ (f.start <=> sent + 1 = 1) /\ (f.end <=> sent + 1 = pieces)
  BY FragmentFacts
<1>2. sent \in Nat /\ pieces \in Nat /\ fu \in Seq(Fragments)
  BY DEF Types
<1> HIDE DEF f
<1>3. <<f>> \in Seq(Fragments) /\ Len(<<f>>) = 1 /\ <<f>>[1] = f /\ <<f>> # <<>>
  BY <1>1
<1>4. CASE pieces = 1
  <2>1. sent = 0
    BY <1>2, <1>4
  <2>2. fed = Result(NoFu, {<<f>>})
    BY <1>1, <1>4 DEF Fed, f
  <2>3. fed.fu = <<>> /\ fed.nals = {<<f>>}
    BY <2>2 DEF Result, NoFu
  <2>4. Unmixed(<<f>>)
    BY <1>1, <1>3, <1>4, <2>1 DEF Unmixed
  <2>5. <<>> \in Seq(Fragments)
    OBVIOUS
  <2> QED BY <1>4, <2>1, <2>3, <2>4, <2>5
<1>5. CASE pieces # 1 /\ sent = 0
  <2>1. f.n # 1 /\ f.start /\ ~f.end
    BY <1>1, <1>2, <1>5
  <2>2. fed = Result(<<f>>, {})
    BY <2>1 DEF Fed, f
  <2>3. fed.fu = <<f>> /\ fed.nals = {}
    BY <2>2 DEF Result
  <2> QED BY <1>1, <1>2, <1>3, <1>5, <2>3
<1>6. CASE pieces # 1 /\ sent # 0 /\ fu = <<>>
  <2>1. f.n # 1 /\ ~f.start
    BY <1>1, <1>2, <1>6
  <2>2. fed = Result(NoFu, {})
    BY <1>6, <2>1 DEF Fed, f, NoFu
  <2>3. fed.fu = <<>> /\ fed.nals = {}
    BY <2>2 DEF Result, NoFu
  <2>4. lost # 0
    BY <1>2, <1>6 DEF Beginning
  <2>5. <<>> \in Seq(Fragments)
    OBVIOUS
  <2> QED BY <2>3, <2>4, <2>5
<1>7. CASE pieces # 1 /\ sent # 0 /\ fu # <<>>
  <2>1. f.n # 1 /\ ~f.start
    BY <1>1, <1>2, <1>7
  <2>2. /\ fu[1].nal = nal /\ fu[1].n = pieces /\ fu[1].i = 1 /\ fu[Len(fu)].i <= sent
        /\ \A j \in 2..Len(fu) : fu[j].nal = fu[1].nal /\ fu[j - 1].i < fu[j].i
    BY <1>7 DEF Beginning
  <2> DEFINE grown == Append(fu, f)
  <2>3. /\ grown \in Seq(Fragments) /\ grown # <<>>
        /\ Len(fu) \in Nat /\ Len(fu) > 0 /\ Len(grown) = Len(fu) + 1
        /\ grown[Len(fu) + 1] = f /\ grown[1] = fu[1]
        /\ \A j \in 1..Len(fu) : grown[j] = fu[j]
    BY <1>1, <1>2, <1>7, GrownFacts
  <2>4. fed = IF f.end THEN Result(NoFu, {grown}) ELSE Result(grown, {})
    <3>1. ~(fu = NoFu \/ f.nal.kind # FuTypeOf(fu))
      BY <1>1, <1>7, <2>2 DEF NoFu, FuTypeOf
    <3> QED BY <2>1, <3>1 DEF Fed, f
  <2> HIDE DEF grown
  <2>5. \A j \in 2..Len(grown) : grown[j].nal = grown[1].nal /\ grown[j - 1].i < grown[j].i
    <3> TAKE j \in 2..Len(grown)
    <3>1. CASE j <= Len(fu)
      <4>1. j \in 2..Len(fu) /\ j \in 1..Len(fu) /\ j - 1 \in 1..Len(fu)
        BY <2>3, <3>1
      <4> QED BY <2>2, <2>3, <4>1
    <3>2. CASE j > Len(fu)
      <4>1. j = Len(fu) + 1 /\ j - 1 = Len(fu) /\ Len(fu) \in 1..Len(fu)
        BY <2>3, <3>2
      <4>2. fu[Len(fu)] \in Fragments
        BY <1>2, <4>1
      <4>3. grown[j] = f /\ grown[j - 1] = fu[Len(fu)] /\ grown[j - 1].i \in Nat
        BY <2>3, <4>1, <4>2 DEF Fragments
      <4>4. grown[j - 1].i <= sent
        BY <2>2, <4>3
      <4> QED BY <1>1, <1>2, <2>2, <2>3, <4>3, <4>4
    <3> QED BY <2>3, <3>1, <3>2
  <2>6. CASE f.end
    <3>1. fed.fu = <<>> /\ fed.nals = {grown}
      BY <2>4, <2>6 DEF Result, NoFu
    <3>2. Unmixed(grown)
      <4>1. grown[Len(grown)].i = grown[1].n
        BY <1>1, <2>2, <2>3, <2>6
      <4> QED BY <2>2, <2>3, <2>5, <4>1 DEF Unmixed
    <3>3. <<>> \in Seq(Fragments)
      OBVIOUS
    <3> QED BY <1>1, <1>2, <2>6, <3>1, <3>2, <3>3
  <2>7. CASE ~f.end
    <3>1. fed.fu = grown /\ fed.nals = {}
      BY <2>4, <2>7 DEF Result
    <3>2. grown[Len(grown)].i <= sent + 1 /\ sent + 1 # pieces
      BY <1>1, <1>2, <2>3, <2>7
    <3> QED BY <2>2, <2>3, <2>5, <3>1, <3>2
  <2> QED BY <2>6, <2>7
<1> QED BY <1>4, <1>5, <1>6, <1>7

\* What Record does besides.
LEMMA RecordFacts ==
  ASSUME Record
  PROVE  \E fed :
           /\ fed = Fed(fu, NextFragment) /\ sent < pieces /\ closing = "no"
           /\ sent' = sent + 1 /\ skipped' = FALSE /\ fu' = fed.fu
           /\ UNCHANGED <<nal, pieces, lost>>
           /\ \/ fed.nals = {} /\ UNCHANGED <<pipe, mixed>>
              \/ /\ fed.nals # {} /\ Offer(nal)
                 /\ \A whole \in fed.nals : mixed' = (mixed \/ ~Unmixed(whole))
BY Zenon DEF Record

----------------------------------------------------------------------------
LEMMA BytesAppend ==
  ASSUME NEW C, Sized(C), NEW q \in Seq(C), NEW x \in C
  PROVE  Append(q, x) \in Seq(C) /\ Bytes(Append(q, x)) = Bytes(q) + x.len
<1>1. <<x>> \in Seq(C) /\ Append(q, x) \in Seq(C) /\ Append(q, x) = q \o <<x>>
  OBVIOUS
<1>2. Bytes(q \o <<x>>) = Bytes(q) + Bytes(<<x>>)
  BY <1>1, BytesConcat
<1> QED BY <1>1, <1>2, BytesOne

LEMMA BytesTail ==
  ASSUME NEW C, Sized(C), NEW q \in Seq(C), q # <<>>
  PROVE  Bytes(Tail(q)) = Bytes(q) - Head(q).len /\ Bytes(Tail(q)) <= Bytes(q)
<1>1. Head(q) \in C /\ Tail(q) \in Seq(C) /\ q = <<Head(q)>> \o Tail(q)
  OBVIOUS
<1>2. <<Head(q)>> \in Seq(C)
  BY <1>1
<1>3. Bytes(<<Head(q)>> \o Tail(q)) = Bytes(<<Head(q)>>) + Bytes(Tail(q))
  BY <1>1, <1>2, BytesConcat
<1>4. Bytes(<<Head(q)>>) = Head(q).len /\ Head(q).len \in Nat /\ Bytes(Tail(q)) \in Nat
  BY <1>1, BytesOne, BytesType DEF Sized
<1>5. Bytes(q) = Head(q).len + Bytes(Tail(q))
  BY <1>1, <1>3, <1>4, Zenon
<1> QED BY <1>4, <1>5

LEMMA QueueSplit ==
  ASSUME NEW C, NEW q \in Seq(C), NEW n \in 0..Len(q)
  PROVE  /\ SubSeq(q, 1, n) \in Seq(C) /\ SubSeq(q, n + 1, Len(q)) \in Seq(C)
         /\ q = SubSeq(q, 1, n) \o SubSeq(q, n + 1, Len(q))
<1>1. Len(q) \in Nat
  OBVIOUS
<1>2. /\ 1 \in 1..(Len(q) + 1) /\ n \in (1 - 1)..Len(q) /\ Len(q) \in n..Len(q)
  BY <1>1
<1>3. SubSeq(q, 1, n) \o SubSeq(q, n + 1, Len(q)) = SubSeq(q, 1, Len(q))
  BY <1>2, ConcatAdjacentSubSeq
<1>4. SubSeq(q, 1, Len(q)) = q
  BY SubSeqFull
<1>5. SubSeq(q, 1, n) \in Seq(C)
  <2>1. n \in Int /\ \A i \in 1..n : q[i] \in C
    BY <1>1
  <2> QED BY <2>1, SubSeqProperties
<1>6. SubSeq(q, n + 1, Len(q)) \in Seq(C)
  <2>1. n + 1 \in Int /\ Len(q) \in Int /\ \A i \in (n + 1)..Len(q) : q[i] \in C
    BY <1>1
  <2> QED BY <2>1, SubSeqProperties
<1> QED BY <1>3, <1>4, <1>5, <1>6, Zenon

----------------------------------------------------------------------------
LEMMA ChainAppend ==
  ASSUME NEW w, NEW q \in Seq(Nals), NEW x \in Nals,
         Chained(w, q), Follows(Given(w, q, Len(q)), x)
  PROVE  /\ Append(q, x) \in Seq(Nals) /\ Chained(w, Append(q, x))
         /\ Given(w, Append(q, x), Len(Append(q, x))) = [version |-> x.version, at |-> x.at]
<1>1. PICK n \in Nat : n = Len(q)
  OBVIOUS
<1> DEFINE r == Append(q, x)
<1>2. r \in Seq(Nals) /\ Len(r) = n + 1 /\ r[n + 1] = x /\ \A i \in 1..n : r[i] = q[i]
  BY <1>1
<1> HIDE DEF r
<1>3. \A i \in 0..n : Given(w, r, i) = Given(w, q, i)
  BY <1>2 DEF Given
<1>4. ASSUME NEW i \in 1..(n + 1) PROVE Follows(Given(w, r, i - 1), r[i])
  <2>1. CASE i <= n
    <3>1. i \in 1..n /\ i - 1 \in 0..n
      BY <2>1
    <3> QED BY <1>1, <1>2, <1>3, <3>1 DEF Chained
  <2>2. CASE i = n + 1
    <3>1. i - 1 = n /\ n \in 0..n
      BY <2>2
    <3> QED BY <1>1, <1>2, <1>3, <2>2, <3>1
  <2> QED BY <2>1, <2>2
<1>5. Chained(w, r)
  BY <1>2, <1>4 DEF Chained
<1>6. Given(w, r, Len(r)) = [version |-> x.version, at |-> x.at]
  <2>1. Len(r) # 0 /\ r[Len(r)] = x
    BY <1>1, <1>2
  <2> QED BY <2>1 DEF Given
<1> QED BY <1>2, <1>5, <1>6 DEF r

\* What the writer takes off the queue, and what is left.
LEMMA ChainTail ==
  ASSUME NEW w, NEW q \in Seq(Nals), q # <<>>, Chained(w, q),
         w \in [version : Nat, at : Nat],
         NEW v, v = [version |-> IF Head(q).kind = "set" THEN Head(q).version ELSE w.version,
                     at |-> Head(q).at]
  PROVE  /\ Follows(w, Head(q)) /\ Tail(q) \in Seq(Nals)
         /\ v = [version |-> Head(q).version, at |-> Head(q).at]
         /\ Chained(v, Tail(q))
         /\ Given(v, Tail(q), Len(Tail(q))) = Given(w, q, Len(q))
<1>1. PICK n \in Nat : n + 1 = Len(q)
  <2>1. Len(q) \in Nat /\ Len(q) # 0
    OBVIOUS
  <2>2. Len(q) - 1 \in Nat /\ (Len(q) - 1) + 1 = Len(q)
    BY <2>1
  <2> QED BY <2>2
<1> DEFINE r == Tail(q)
<1>2. r \in Seq(Nals) /\ Len(r) = n /\ Head(q) = q[1] /\ \A i \in 1..n : r[i] = q[i + 1]
  BY <1>1
<1> HIDE DEF r
<1>3. Follows(w, q[1])
  <2>1. 1 \in 1..Len(q) /\ 1 - 1 = 0
    BY <1>1
  <2>2. Follows(Given(w, q, 0), q[1])
    BY <2>1 DEF Chained
  <2> QED BY <2>2 DEF Given
<1>4. v = [version |-> q[1].version, at |-> q[1].at]
  BY <1>2, <1>3 DEF Follows
<1>5. \A i \in 0..n : Given(v, r, i) = Given(w, q, i + 1)
  <2> TAKE i \in 0..n
  <2>1. CASE i = 0
    BY <1>4, <2>1 DEF Given
  <2>2. CASE i # 0
    BY <1>2, <2>2 DEF Given
  <2> QED BY <2>1, <2>2
<1>6. \A i \in 1..n : Follows(Given(v, r, i - 1), r[i])
  <2> TAKE i \in 1..n
  <2>1. i + 1 \in 1..Len(q) /\ i - 1 \in 0..n /\ (i - 1) + 1 = i /\ (i + 1) - 1 = i
    BY <1>1
  <2>2. Follows(Given(w, q, i), q[i + 1])
    BY <2>1 DEF Chained
  <2>3. Given(v, r, i - 1) = Given(w, q, i)
    BY <1>5, <2>1
  <2> QED BY <1>2, <2>2, <2>3
<1>7. Chained(v, r)
  BY <1>2, <1>6 DEF Chained
<1>8. Given(v, r, Len(r)) = Given(w, q, Len(q))
  BY <1>1, <1>2, <1>5
<1> QED BY <1>2, <1>3, <1>4, <1>7, <1>8, SMTT(40) DEF r

\* What offer() makes of a NAL unit of a queue that is codec safe.
LEMMA VideoFacts ==
  ASSUME PipeTypes, NEW x \in Nals, NEW after, after = OfferVideo(x)
  PROVE  /\ after.queue \in Seq(Nals)
         /\ after.desynchronised \in BOOLEAN
         /\ \/ ~desynchronised /\ ~after.desynchronised /\ after.queue = Append(queue, x)
            \/ after.desynchronised /\ after.queue \in {queue, <<>>}
            \/ /\ ~after.desynchronised /\ x.kind = "irap"
               /\ \E q \in {queue, <<>>} : after.queue = q \o (parameter_sets \o <<x>>)
<1>1. queue \in Seq(Nals) /\ parameter_sets \in Seq(Nals) /\ <<>> \in Seq(Nals)
  BY DEF PipeTypes
<1>2. x.kind = "irap" => Latest(x) = parameter_sets
  BY DEF Latest
<1>3. ASSUME NEW q \in {queue, <<>>}, NEW bytes, after = Resynchronised(q, bytes, x)
      PROVE  /\ after.queue \in Seq(Nals)
             /\ \/ after.desynchronised = TRUE /\ after.queue = q
                \/ /\ after.desynchronised = FALSE /\ x.kind = "irap"
                   /\ after.queue = q \o (parameter_sets \o <<x>>)
  <2>1. q \in Seq(Nals)
    BY <1>1
  <2>2. CASE x.kind = "irap" /\ Bytes(RestartWith(x)) <= MaxBytes
    <3>1. after = Offered(q \o RestartWith(x), bytes + Bytes(RestartWith(x)), FALSE)
      BY <1>3, <2>2 DEF Resynchronised
    <3>2. RestartWith(x) = parameter_sets \o <<x>>
      BY <1>2, <2>2 DEF RestartWith
    <3>3. <<x>> \in Seq(Nals)
      OBVIOUS
    <3>4. parameter_sets \o <<x>> \in Seq(Nals)
      BY <1>1, <3>3, ConcatProperties
    <3>5. q \o (parameter_sets \o <<x>>) \in Seq(Nals)
      BY <2>1, <3>4, ConcatProperties
    <3> QED BY <2>2, <3>1, <3>2, <3>5 DEF Offered
  <2>3. CASE ~(x.kind = "irap" /\ Bytes(RestartWith(x)) <= MaxBytes)
    <3>1. after = Offered(q, bytes, TRUE)
      BY <1>3, <2>3 DEF Resynchronised
    <3> QED BY <2>1, <3>1 DEF Offered
  <2> QED BY <2>2, <2>3
<1>4. CASE desynchronised
  <2>1. after = Resynchronised(queue, queued_bytes, x)
    BY <1>4 DEF OfferVideo
  <2> QED BY <1>3, <2>1
<1>5. CASE ~desynchronised /\ Fits(queued_bytes, x)
  <2>1. after = Offered(Append(queue, x), queued_bytes + x.len, FALSE)
    BY <1>5 DEF OfferVideo
  <2>2. Append(queue, x) \in Seq(Nals)
    BY <1>1
  <2> QED BY <1>5, <2>1, <2>2 DEF Offered
<1>6. CASE ~desynchronised /\ ~Fits(queued_bytes, x)
  <2>1. after = Resynchronised(<<>>, 0, x)
    BY <1>6 DEF OfferVideo
  <2> QED BY <1>3, <2>1
<1> QED BY <1>4, <1>5, <1>6

----------------------------------------------------------------------------
LEMMA StreamStep ==
  ASSUME Types, Beginning, NothingMixed, [Next]_vars
  PROVE  Types' /\ Beginning' /\ NothingMixed'
<1>1. ASSUME NEW kind \in Kinds, NEW n \in 1..MaxFragments, NEW len \in LenOf[kind],
             Camera(kind, len, n)
      PROVE  Types' /\ Beginning' /\ NothingMixed'
  <2>1. /\ sent = pieces /\ sent' = 0 /\ pieces' = n
        /\ UNCHANGED <<lost, skipped, fu, mixed>>
        /\ kind = "irap" => nal.kind # "none"
        /\ kind = "inter" => nal.kind \in {"irap", "inter"}
    BY <1>1 DEF Camera
  <2>2. n \in Nat /\ n > 0
    BY OutputAssumption
  <2>3. nal' \in Nals /\ nal'.kind = kind /\ nal'.at > 0 /\ nal'.version > 0
    <3> DEFINE v == nal.version + (IF kind = "set" THEN 1 ELSE 0)
               a == nal.at + 1
    <3>1. nal' = [kind |-> kind, version |-> v, at |-> a, len |-> len]
      BY <1>1 DEF Camera
    <3>2. nal.version \in Nat /\ nal.at \in Nat
      BY DEF Types, Nals
    <3>3. v \in Nat /\ a \in Nat /\ a > 0
      BY <3>2
    <3>4. v > 0
      <4>1. CASE kind = "set"
        BY <3>2, <4>1
      <4>2. CASE kind # "set"
        <5>1. nal.kind # "none"
          BY <1>1, <4>2 DEF Camera, Kinds
        <5> QED BY <3>2, <4>2, <5>1 DEF Types
      <4> QED BY <4>1, <4>2
    <3> HIDE DEF v, a
    <3>5. len \in {0} \cup UNION {LenOf[k] : k \in Kinds}
      OBVIOUS
    <3> QED BY <3>1, <3>3, <3>4, <3>5 DEF Nals
  <2>4. nal'.kind # "none"
    BY <2>3 DEF Kinds
  <2>5. Types'
    BY <2>1, <2>2, <2>3, <2>4 DEF Types
  <2>6. fu # <<>> => skipped
    BY <2>1 DEF Beginning
  <2>7. fu # <<>> => fu[1].i = 1
                     /\ \A j \in 2..Len(fu) : fu[j].nal = fu[1].nal /\ fu[j - 1].i < fu[j].i
    BY DEF Beginning
  <2>8. Beginning'
    BY <2>1, <2>2, <2>6, <2>7 DEF Beginning
  <2> QED BY <2>1, <2>5, <2>8 DEF NothingMixed
<1>2. CASE Record
  <2>1. PICK fed :
          /\ fed = Fed(fu, NextFragment) /\ sent < pieces
          /\ sent' = sent + 1 /\ skipped' = FALSE /\ fu' = fed.fu
          /\ UNCHANGED <<nal, pieces, lost>>
          /\ \/ fed.nals = {} /\ UNCHANGED mixed
             \/ /\ fed.nals # {}
                /\ \A whole \in fed.nals : mixed' = (mixed \/ ~Unmixed(whole))
    BY <1>2, RecordFacts
  <2>2. /\ fed.fu \in Seq(Fragments)
        /\ fed.nals = {} \/ \E whole : fed.nals = {whole} /\ Unmixed(whole)
        /\ fed.fu # <<>> =>
             /\ fed.fu[1].i = 1 /\ fed.fu[1].nal = nal /\ fed.fu[1].n = pieces
             /\ \A j \in 2..Len(fed.fu) :
                  fed.fu[j].nal = fed.fu[1].nal /\ fed.fu[j - 1].i < fed.fu[j].i
             /\ fed.fu[Len(fed.fu)].i <= sent + 1 /\ sent + 1 # pieces
        /\ lost = 0 /\ sent + 1 < pieces => fed.fu # <<>>
    BY <2>1, FedFacts
  <2>3. ~mixed'
    <3>1. CASE fed.nals = {}
      BY <2>1, <3>1 DEF NothingMixed
    <3>2. CASE fed.nals # {}
      <4>1. PICK whole : whole \in fed.nals /\ Unmixed(whole)
        BY <2>2, <3>2
      <4>2. mixed' = (mixed \/ ~Unmixed(whole))
        BY <2>1, <3>2, <4>1
      <4> QED BY <4>1, <4>2 DEF NothingMixed
    <3> QED BY <3>1, <3>2
  <2>4. mixed' \in BOOLEAN
    <3>1. mixed' = FALSE \/ mixed' = TRUE
      <4>1. CASE fed.nals = {}
        BY <2>1, <4>1 DEF Types
      <4>2. CASE fed.nals # {}
        <5>1. PICK whole : whole \in fed.nals
          BY <4>2
        <5>2. mixed' = (mixed \/ ~Unmixed(whole))
          BY <2>1, <4>2, <5>1
        <5> QED BY <5>2, Zenon
      <4> QED BY <4>1, <4>2
    <3> QED BY <3>1
  <2>5. Types'
    <3>1. sent + 1 \in Nat /\ sent + 1 <= pieces
      BY <2>1 DEF Types
    <3> QED BY <2>1, <2>2, <2>4, <3>1 DEF Types
  <2>6. Beginning'
    BY <2>1, <2>2 DEF Beginning
  <2> QED BY <2>3, <2>5, <2>6 DEF NothingMixed
<1>3. CASE Skip
  <2>1. /\ sent < pieces /\ ~skipped /\ sent' = sent + 1 /\ lost' = lost + 1 /\ skipped' = TRUE
        /\ UNCHANGED <<nal, pieces, fu, mixed>>
    BY <1>3 DEF Skip
  <2>2. Types'
    <3>1. sent + 1 \in Nat /\ sent + 1 <= pieces /\ lost + 1 \in Nat /\ lost + 1 # 0
      BY <2>1 DEF Types
    <3> QED BY <2>1, <3>1 DEF Types
  <2>3. Beginning'
    <3>1. fu # <<>> => fu[1].i = 1 /\ fu[1].nal = nal /\ fu[1].n = pieces /\ fu[Len(fu)].i <= sent
                       /\ \A j \in 2..Len(fu) : fu[j].nal = fu[1].nal /\ fu[j - 1].i < fu[j].i
      BY <2>1 DEF Beginning
    <3>2. fu # <<>> => fu[Len(fu)].i <= sent + 1
      <4>1. fu # <<>> => fu[Len(fu)] \in Fragments
        BY DEF Types
      <4>2. fu # <<>> => fu[Len(fu)].i \in Nat
        BY <4>1 DEF Fragments
      <4> QED BY <3>1, <4>2 DEF Types
    <3>3. lost + 1 # 0
      BY DEF Types
    <3> QED BY <2>1, <3>1, <3>2, <3>3 DEF Beginning
  <2> QED BY <2>1, <2>2, <2>3 DEF NothingMixed
<1>4. CASE Piped
  BY <1>4 DEF Piped, stream, Types, Beginning, NothingMixed
<1>5. CASE UNCHANGED vars
  BY <1>5 DEF vars, stream, Types, Beginning, NothingMixed
<1> QED BY <1>1, <1>2, <1>3, <1>4, <1>5, Cases

----------------------------------------------------------------------------
LEMMA NalsSized == Sized(Nals)
BY OutputAssumption DEF Sized, Nals, Kinds

\* What offer() counts for a queue that is codec safe.
LEMMA VideoBytes ==
  ASSUME PipeTypes, Accounted, NEW x \in Nals, NEW after, after = OfferVideo(x)
  PROVE  /\ after.bytes = Bytes(after.queue) /\ after.bytes <= MaxBytes
         /\ after.desynchronised => after.queue = <<>>
<1>1. /\ queue \in Seq(Nals) /\ parameter_sets \in Seq(Nals) /\ Bytes(queue) \in Nat
      /\ MaxBytes \in Nat /\ x.len \in Nat
  BY NalsSized, BytesType, OutputAssumption DEF PipeTypes, Sized
<1>2. ASSUME after = Resynchronised(<<>>, 0, x)
      PROVE  /\ after.bytes = Bytes(after.queue) /\ after.bytes <= MaxBytes
             /\ after.desynchronised => after.queue = <<>>
  <2>1. RestartWith(x) \in Seq(Nals)
    <3>1. <<x>> \in Seq(Nals)
      OBVIOUS
    <3>2. Latest(x) \in Seq(Nals)
      BY <1>1, <3>1 DEF Latest
    <3> QED BY <3>1, <3>2, ConcatProperties DEF RestartWith
  <2>2. Bytes(RestartWith(x)) \in Nat /\ <<>> \o RestartWith(x) = RestartWith(x)
    BY <2>1, NalsSized, BytesType, ConcatEmptySeq
  <2>3. \/ /\ Bytes(RestartWith(x)) <= MaxBytes
           /\ after = Offered(<<>> \o RestartWith(x), 0 + Bytes(RestartWith(x)), FALSE)
        \/ after = Offered(<<>>, 0, TRUE)
    BY <1>2 DEF Resynchronised
  <2>4. CASE after = Offered(<<>>, 0, TRUE)
    BY <1>1, <2>4, BytesEmpty DEF Offered
  <2>5. CASE /\ Bytes(RestartWith(x)) <= MaxBytes
             /\ after = Offered(<<>> \o RestartWith(x), 0 + Bytes(RestartWith(x)), FALSE)
    BY <2>2, <2>5 DEF Offered
  <2> QED BY <2>3, <2>4, <2>5
<1>3. CASE desynchronised
  <2>1. queue = <<>> /\ queued_bytes = 0
    BY <1>3, BytesEmpty DEF Accounted
  <2>2. after = Resynchronised(<<>>, 0, x)
    BY <1>3, <2>1 DEF OfferVideo
  <2> QED BY <1>2, <2>2
<1>4. CASE ~desynchronised /\ Fits(queued_bytes, x)
  <2>1. after = Offered(Append(queue, x), queued_bytes + x.len, FALSE)
    BY <1>4 DEF OfferVideo
  <2>2. Bytes(Append(queue, x)) = Bytes(queue) + x.len
    BY <1>1, NalsSized, BytesAppend
  <2> QED BY <1>1, <1>4, <2>1, <2>2 DEF Offered, Fits, Accounted
<1>5. CASE ~desynchronised /\ ~Fits(queued_bytes, x)
  <2>1. after = Resynchronised(<<>>, 0, x)
    BY <1>5 DEF OfferVideo
  <2> QED BY <1>2, <2>1
<1> QED BY <1>3, <1>4, <1>5

\* What offer() makes of a chunk of PCM, and what it counts.
LEMMA AudioFacts ==
  ASSUME PipeTypes, Accounted, NEW x \in Nals, NEW after, after = OfferAudio(x)
  PROVE  /\ after.queue \in Seq(Nals) /\ after.bytes = Bytes(after.queue)
         /\ after.bytes <= MaxBytes /\ after.desynchronised = desynchronised
<1>1. PICK N \in Nat : N = Len(queue) /\ queue \in Seq(Nals)
  BY DEF PipeTypes
<1> DEFINE left(n) == queued_bytes - Bytes(SubSeq(queue, 1, n))
           rest(n) == SubSeq(queue, n + 1, Len(queue))
           fitting == {n \in 0..Len(queue) : Fits(left(n), x)}
           popped == CHOOSE n \in fitting : \A m \in fitting : n <= m
<1>2. MaxBytes \in Nat /\ x.len \in Nat
  BY NalsSized, OutputAssumption DEF Sized
<1>3. ASSUME NEW n \in 0..N
      PROVE  rest(n) \in Seq(Nals) /\ left(n) = Bytes(rest(n)) /\ left(n) \in Nat
  <2>1. /\ SubSeq(queue, 1, n) \in Seq(Nals) /\ rest(n) \in Seq(Nals)
        /\ queue = SubSeq(queue, 1, n) \o rest(n)
    BY <1>1, QueueSplit
  <2> HIDE DEF rest
  <2>2. Bytes(queue) = Bytes(SubSeq(queue, 1, n)) + Bytes(rest(n))
    BY <2>1, NalsSized, BytesConcat
  <2>3. Bytes(SubSeq(queue, 1, n)) \in Nat /\ Bytes(rest(n)) \in Nat
    BY <2>1, NalsSized, BytesType
  <2>4. queued_bytes = Bytes(queue)
    BY DEF Accounted
  <2> QED BY <2>1, <2>2, <2>3, <2>4
<1>4. after = IF fitting = {} THEN Offered(<<>>, left(Len(queue)), desynchronised)
              ELSE Offered(Append(rest(popped), x), left(popped) + x.len, desynchronised)
  BY DEF OfferAudio
<1>5. CASE fitting = {}
  <2>1. after = Offered(<<>>, left(N), desynchronised)
    BY <1>1, <1>4, <1>5
  <2>2. N \in 0..N /\ rest(N) = <<>>
    BY <1>1, SubSeqEmpty
  <2>3. left(N) = Bytes(<<>>) /\ left(N) = 0
    BY <1>3, <2>2, BytesEmpty
  <2>4. <<>> \in Seq(Nals)
    OBVIOUS
  <2> HIDE DEF left
  <2> QED BY <1>2, <2>1, <2>3, <2>4 DEF Offered
<1>6. CASE fitting # {}
  <2>1. fitting \subseteq Nat
    BY <1>1
  <2>2. \E n \in fitting : \A m \in fitting : n <= m
    <3> HIDE DEF fitting
    <3> QED BY <1>6, <2>1, Least
  <2>3. popped \in fitting
    <3> HIDE DEF fitting
    <3> QED BY <2>2
  <2> HIDE DEF popped
  <2>4. popped \in 0..N /\ Fits(left(popped), x)
    BY <1>1, <2>3
  <2>5. rest(popped) \in Seq(Nals) /\ left(popped) = Bytes(rest(popped)) /\ left(popped) \in Nat
    BY <1>3, <2>4
  <2>6. after = Offered(Append(rest(popped), x), left(popped) + x.len, desynchronised)
    BY <1>4, <1>6
  <2> HIDE DEF left, rest
  <2>7. /\ Append(rest(popped), x) \in Seq(Nals)
        /\ Bytes(Append(rest(popped), x)) = Bytes(rest(popped)) + x.len
    BY <2>5, NalsSized, BytesAppend
  <2> QED BY <1>2, <2>4, <2>5, <2>6, <2>7 DEF Offered, Fits
<1> QED BY <1>5, <1>6

\* What an offer changes.
LEMMA OfferFacts ==
  ASSUME NEW x, Offer(x)
  PROVE  /\ UNCHANGED <<codec_safe, accepting, written, garbled>>
         /\ \/ (~accepting \/ broken)
               /\ UNCHANGED <<broken, queue, queued_bytes, desynchronised, parameter_sets>>
            \/ /\ broken' = TRUE /\ queue' = <<>> /\ queued_bytes' = 0
               /\ UNCHANGED <<desynchronised, parameter_sets>>
            \/ /\ accepting /\ ~broken /\ UNCHANGED broken
               /\ \E after :
                    /\ after = IF codec_safe THEN OfferVideo(x) ELSE OfferAudio(x)
                    /\ queue' = after.queue /\ queued_bytes' = after.bytes
                    /\ desynchronised' = after.desynchronised
                    /\ parameter_sets' = IF codec_safe THEN Latest(x) ELSE parameter_sets
BY Zenon DEF Offer, Enqueue, feeding, ghosts

LEMMA PipeTypesFrame ==
  ASSUME PipeTypes, Accounted,
         UNCHANGED <<codec_safe, desynchronised, queue, queued_bytes, parameter_sets, written, garbled>>
  PROVE  PipeTypes' /\ Accounted'
BY DEF PipeTypes, Accounted

LEMMA PipeTypesOffer ==
  ASSUME PipeTypes, Accounted, NEW x \in Nals, Offer(x)
  PROVE  PipeTypes' /\ Accounted'
<1>1. UNCHANGED <<codec_safe, written, garbled>>
  BY OfferFacts
<1>2. CASE UNCHANGED <<queue, queued_bytes, desynchronised, parameter_sets>>
  BY <1>1, <1>2, PipeTypesFrame
<1>3. CASE queue' = <<>> /\ queued_bytes' = 0 /\ UNCHANGED <<desynchronised, parameter_sets>>
  BY <1>1, <1>3, BytesEmpty, OutputAssumption DEF PipeTypes, Accounted
<1>4. ASSUME NEW after,
             after = IF codec_safe THEN OfferVideo(x) ELSE OfferAudio(x),
             queue' = after.queue, queued_bytes' = after.bytes,
             desynchronised' = after.desynchronised,
             parameter_sets' = IF codec_safe THEN Latest(x) ELSE parameter_sets
      PROVE  PipeTypes' /\ Accounted'
  <2>1. /\ after.queue \in Seq(Nals) /\ after.desynchronised \in BOOLEAN
        /\ after.bytes = Bytes(after.queue) /\ after.bytes <= MaxBytes
        /\ after.desynchronised => codec_safe /\ after.queue = <<>>
    <3>1. CASE codec_safe
      BY <1>4, <3>1, VideoFacts, VideoBytes
    <3>2. CASE ~codec_safe
      <4>1. ~desynchronised
        BY <3>2 DEF Accounted
      <4>2. /\ after.queue \in Seq(Nals) /\ after.bytes = Bytes(after.queue)
            /\ after.bytes <= MaxBytes /\ after.desynchronised = desynchronised
        BY <1>4, <3>2, AudioFacts
      <4> QED BY <4>1, <4>2 DEF PipeTypes
    <3> QED BY <3>1, <3>2
  <2>2. parameter_sets' \in Seq(Nals) /\ Len(parameter_sets') <= 1
    <3>1. <<x>> \in Seq(Nals) /\ Len(<<x>>) <= 1
      OBVIOUS
    <3> QED BY <1>4, <3>1 DEF Latest, PipeTypes
  <2>3. PipeTypes'
    BY <1>1, <1>4, <2>1, <2>2 DEF PipeTypes
  <2>4. Accounted'
    BY <1>1, <1>4, <2>1 DEF Accounted
  <2> QED BY <2>3, <2>4
<1> QED BY <1>2, <1>3, <1>4, OfferFacts

\* A step of the pipe's own leaves the queue, takes its head, or clears it for good.
LEMMA PipeFacts ==
  ASSUME \/ WriterLooks \/ WriteDone \/ WriteBreaks \/ PlayerExits
         \/ Close \/ Join \/ JoinAgain \/ Wait \/ WaitAgain \/ LastJoin
  PROVE  /\ UNCHANGED <<codec_safe, desynchronised, parameter_sets>>
         /\ \/ UNCHANGED <<accepting, broken, queue, queued_bytes, written, garbled>>
            \/ /\ queue' = <<>> /\ queued_bytes' = 0 /\ UNCHANGED <<written, garbled>>
               /\ ~accepting' \/ broken'
            \/ /\ queue # <<>> /\ queue' = Tail(queue) /\ UNCHANGED <<accepting, broken>>
               /\ queued_bytes' = queued_bytes - Head(queue).len
               /\ written' = [version |-> IF Head(queue).kind = "set" THEN Head(queue).version
                                          ELSE written.version, at |-> Head(queue).at]
               /\ garbled' = (garbled \/ Garbles(Head(queue)))
<1> USE DEF feeding, ghosts
<1>1. CASE WriterLooks
  BY <1>1, Zenon DEF WriterLooks
<1>2. CASE WriteDone \/ PlayerExits
  BY <1>2 DEF WriteDone, PlayerExits
<1>3. CASE WriteBreaks
  BY <1>3 DEF WriteBreaks
<1>4. CASE Close
  BY <1>4 DEF Close
<1>5. CASE Join \/ JoinAgain \/ Wait \/ WaitAgain \/ LastJoin
  BY <1>5 DEF Join, JoinAgain, Wait, WaitAgain, LastJoin, Continue
<1> QED BY <1>1, <1>2, <1>3, <1>4, <1>5

LEMMA PipeTypesStep ==
  ASSUME Types, PipeTypes, Accounted, [Next]_vars
  PROVE  PipeTypes' /\ Accounted'
<1> USE DEF pipe, feeding, ghosts
<1>1. CASE \E kind \in Kinds, n \in 1..MaxFragments : \E len \in LenOf[kind] : Camera(kind, len, n)
  BY <1>1, PipeTypesFrame DEF Camera
<1>2. CASE Record
  <2>1. nal \in Nals
    BY DEF Types
  <2> QED BY <1>2, <2>1, RecordPipe, PipeTypesFrame, PipeTypesOffer
<1>3. CASE Skip
  BY <1>3, PipeTypesFrame DEF Skip
<1>4. CASE UNCHANGED vars
  BY <1>4, PipeTypesFrame DEF vars
<1>5. CASE \/ WriterLooks \/ WriteDone \/ WriteBreaks \/ PlayerExits
           \/ Close \/ Join \/ JoinAgain \/ Wait \/ WaitAgain \/ LastJoin
  <2>1. UNCHANGED <<codec_safe, desynchronised, parameter_sets>>
    BY <1>5, PipeFacts
  <2>2. CASE UNCHANGED <<accepting, broken, queue, queued_bytes, written, garbled>>
    BY <2>1, <2>2, PipeTypesFrame
  <2>3. CASE queue' = <<>> /\ queued_bytes' = 0 /\ UNCHANGED <<written, garbled>>
    BY <2>1, <2>3, BytesEmpty, OutputAssumption DEF PipeTypes, Accounted
  <2>4. CASE /\ queue # <<>> /\ queue' = Tail(queue)
             /\ queued_bytes' = queued_bytes - Head(queue).len
             /\ written' = [version |-> IF Head(queue).kind = "set" THEN Head(queue).version
                                        ELSE written.version, at |-> Head(queue).at]
             /\ garbled' = (garbled \/ Garbles(Head(queue)))
    <3>1. garbled' \in BOOLEAN
      BY <2>4, Zenon
    <3>2. queue \in Seq(Nals) /\ written \in [version : Nat, at : Nat]
      BY DEF PipeTypes
    <3>3. Head(queue) \in Nals /\ Tail(queue) \in Seq(Nals)
      BY <2>4, <3>2
    <3>4. written' \in [version : Nat, at : Nat]
      <4>1. Head(queue).version \in Nat /\ Head(queue).at \in Nat /\ written.version \in Nat
        BY <3>2, <3>3 DEF Nals
      <4> QED BY <2>4, <4>1
    <3>5. PipeTypes'
      BY <2>1, <2>4, <3>1, <3>3, <3>4 DEF PipeTypes
    <3>6. Accounted'
      <4>1. /\ Bytes(Tail(queue)) = Bytes(queue) - Head(queue).len
            /\ Bytes(Tail(queue)) <= Bytes(queue)
        BY <2>4, <3>2, NalsSized, BytesTail
      <4>2. Bytes(queue) \in Nat /\ Bytes(Tail(queue)) \in Nat /\ MaxBytes \in Nat
        BY <3>2, <3>3, NalsSized, BytesType, OutputAssumption
      <4> QED BY <2>1, <2>4, <4>1, <4>2 DEF Accounted
    <3> QED BY <3>5, <3>6
  <2> QED BY <1>5, <2>2, <2>3, <2>4, PipeFacts
<1> QED BY <1>1, <1>2, <1>3, <1>4, <1>5, Cases

----------------------------------------------------------------------------
LEMMA Singleton ==
  ASSUME NEW S, NEW s \in Seq(S), Len(s) = 1
  PROVE  \E p \in S : s = <<p>>
<1>1. s[1] \in S
  BY ElementOfSeq
<1>2. <<s[1]>> \in Seq(S) /\ Len(<<s[1]>>) = 1 /\ <<s[1]>>[1] = s[1]
  BY <1>1
<1>3. s = <<s[1]>>
  BY <1>2, SeqEqual
<1> QED BY <1>1, <1>3

\* The NAL unit that a record completes, offered by a camera of which no record
\* was skipped.
LEMMA FollowingOffer ==
  ASSUME Types, PipeTypes, Chained(written, queue), Synchronised, codec_safe,
         sent < pieces, sent' = pieces, UNCHANGED <<nal, pieces>>, Offer(nal)
  PROVE  Chained(written, queue)' /\ Synchronised'
<1>1. /\ nal \in Nals /\ nal.kind # "none" /\ nal.version > 0
      /\ nal.version \in Nat /\ nal.at \in Nat /\ pieces \in Nat /\ sent \in Nat
  BY DEF Types, Nals
<1>2. OfferedVersion' = nal.version /\ OfferedAt' = nal.at
  BY <1>1 DEF OfferedVersion, OfferedAt
<1>3. OfferedVersion = (IF nal.kind = "set" THEN nal.version - 1 ELSE nal.version)
      /\ OfferedAt = nal.at - 1
  BY DEF OfferedVersion, OfferedAt
<1>4. UNCHANGED <<codec_safe, accepting, written, garbled>>
  BY <1>1, OfferFacts
<1>5. CASE (~accepting \/ broken) /\ UNCHANGED <<broken, queue, desynchronised, parameter_sets>>
  BY <1>4, <1>5 DEF Synchronised, Chained, Given, Follows
<1>6. CASE broken' = TRUE /\ queue' = <<>>
  BY <1>4, <1>6 DEF Synchronised, Chained
<1>7. CASE /\ accepting /\ ~broken /\ UNCHANGED broken
           /\ queue' = OfferVideo(nal).queue /\ desynchronised' = OfferVideo(nal).desynchronised
           /\ parameter_sets' = Latest(nal)
  <2>1. PICK after : after = OfferVideo(nal)
    OBVIOUS
  <2>2. queue' = after.queue /\ desynchronised' = after.desynchronised
    BY <1>7, <2>1
  <2>3. /\ after.desynchronised \in BOOLEAN
        /\ \/ ~desynchronised /\ ~after.desynchronised /\ after.queue = Append(queue, nal)
           \/ after.desynchronised /\ after.queue \in {queue, <<>>}
           \/ /\ ~after.desynchronised /\ nal.kind = "irap"
              /\ \E q \in {queue, <<>>} : after.queue = q \o (parameter_sets \o <<nal>>)
    BY <1>1, <2>1, VideoFacts
  <2>4. \/ parameter_sets = <<>> /\ OfferedVersion = 0
        \/ /\ Len(parameter_sets) = 1
           /\ parameter_sets[1].kind = "set" /\ parameter_sets[1].version = OfferedVersion
    BY <1>7 DEF Synchronised
  <2>5. /\ queue \in Seq(Nals) /\ parameter_sets \in Seq(Nals) /\ <<>> \in Seq(Nals)
    BY DEF PipeTypes
  <2>6. /\ Len(parameter_sets') = 1
        /\ parameter_sets'[1].kind = "set" /\ parameter_sets'[1].version = OfferedVersion'
    <3>1. CASE nal.kind = "set"
      <4>1. parameter_sets' = <<nal>>
        BY <1>7, <3>1 DEF Latest
      <4> QED BY <1>2, <3>1, <4>1
    <3>2. CASE nal.kind # "set"
      <4>1. parameter_sets' = parameter_sets /\ OfferedVersion = nal.version
        BY <1>3, <1>7, <3>2 DEF Latest
      <4> QED BY <1>1, <1>2, <2>4, <4>1
    <3> QED BY <3>1, <3>2
  <2>7. Chained(written, <<>>)
    BY DEF Chained
  <2>8. /\ Chained(written, queue)'
        /\ ~desynchronised' =>
             Given(written, queue, Len(queue))' = [version |-> nal.version, at |-> nal.at]
    <3>1. CASE ~desynchronised /\ after.queue = Append(queue, nal)
      <4>1. Given(written, queue, Len(queue)) = [version |-> OfferedVersion, at |-> OfferedAt]
        BY <1>7, <3>1 DEF Synchronised
      <4>2. Follows(Given(written, queue, Len(queue)), nal)
        BY <1>1, <1>3, <4>1 DEF Follows
      <4>3. /\ Chained(written, Append(queue, nal))
            /\ Given(written, Append(queue, nal), Len(Append(queue, nal)))
                 = [version |-> nal.version, at |-> nal.at]
        BY <1>1, <2>5, <4>2, ChainAppend
      <4> QED BY <1>4, <2>2, <3>1, <4>3
    <3>2. CASE after.desynchronised /\ after.queue \in {queue, <<>>}
      BY <1>4, <2>2, <2>7, <3>2
    <3>3. CASE /\ nal.kind = "irap"
               /\ \E q \in {queue, <<>>} : after.queue = q \o (parameter_sets \o <<nal>>)
      <4>1. PICK q \in {queue, <<>>} : after.queue = q \o (parameter_sets \o <<nal>>)
        BY <3>3
      <4>2. q \in Seq(Nals) /\ Chained(written, q)
        BY <2>5, <2>7
      <4>3. OfferedVersion = nal.version
        BY <1>3, <3>3
      <4>4. PICK p \in Nals : parameter_sets = <<p>>
        <5>1. Len(parameter_sets) = 1
          BY <1>1, <2>4, <4>3
        <5> QED BY <2>5, <5>1, Singleton
      <4>5. p.kind = "set" /\ p.version = nal.version
        BY <1>1, <2>4, <4>3, <4>4
      <4>6. after.queue = Append(Append(q, p), nal)
        BY <1>1, <4>1, <4>2, <4>4
      <4>7. Follows(Given(written, q, Len(q)), p)
        BY <4>5 DEF Follows
      <4>8. /\ Append(q, p) \in Seq(Nals) /\ Chained(written, Append(q, p))
            /\ Given(written, Append(q, p), Len(Append(q, p)))
                 = [version |-> p.version, at |-> p.at]
        BY <4>2, <4>7, ChainAppend
      <4>9. Follows(Given(written, Append(q, p), Len(Append(q, p))), nal)
        BY <3>3, <4>5, <4>8 DEF Follows
      <4> DEFINE r == Append(q, p)
      <4>10. r \in Seq(Nals) /\ Chained(written, r) /\ Follows(Given(written, r, Len(r)), nal)
        BY <4>8, <4>9
      <4> HIDE DEF r
      <4>11. /\ Chained(written, Append(r, nal))
             /\ Given(written, Append(r, nal), Len(Append(r, nal)))
                  = [version |-> nal.version, at |-> nal.at]
        BY <1>1, <4>10, ChainAppend
      <4>12. queue' = Append(r, nal) /\ written' = written
        BY <1>4, <2>2, <4>6 DEF r
      <4> QED BY <4>11, <4>12
    <3> QED BY <2>3, <3>1, <3>2, <3>3
  <2> QED BY <1>2, <2>6, <2>8 DEF Synchronised
<1> QED BY <1>1, <1>5, <1>6, <1>7, OfferFacts

LEMMA FollowingFrame ==
  ASSUME Following, UNCHANGED pipe, lost' = 0 => lost = 0,
         lost' = 0 => OfferedVersion' = OfferedVersion /\ OfferedAt' = OfferedAt
  PROVE  Following'
BY DEF Following, Synchronised, pipe, feeding, ghosts

LEMMA FollowingPipe ==
  ASSUME PipeTypes, Following, NothingGarbled, Piped,
         \/ WriterLooks \/ WriteDone \/ WriteBreaks \/ PlayerExits
         \/ Close \/ Join \/ JoinAgain \/ Wait \/ WaitAgain \/ LastJoin
  PROVE  Following' /\ NothingGarbled'
<1>1. lost' = lost /\ OfferedVersion' = OfferedVersion /\ OfferedAt' = OfferedAt
  BY DEF Piped, stream, OfferedVersion, OfferedAt
<1>2. UNCHANGED <<codec_safe, desynchronised, parameter_sets>>
  BY PipeFacts
<1>3. CASE UNCHANGED <<accepting, broken, queue, written, garbled>>
  BY <1>1, <1>2, <1>3 DEF Following, Synchronised, NothingGarbled
<1>4. CASE /\ queue' = <<>> /\ UNCHANGED <<written, garbled>>
           /\ ~accepting' \/ broken'
  BY <1>1, <1>2, <1>4 DEF Following, Synchronised, Chained, NothingGarbled
<1>5. CASE /\ queue # <<>> /\ queue' = Tail(queue) /\ UNCHANGED <<accepting, broken>>
           /\ written' = [version |-> IF Head(queue).kind = "set" THEN Head(queue).version
                                      ELSE written.version, at |-> Head(queue).at]
           /\ garbled' = (garbled \/ Garbles(Head(queue)))
  <2>1. CASE codec_safe /\ lost = 0
    <3>1. queue \in Seq(Nals) /\ written \in [version : Nat, at : Nat]
      BY <2>1 DEF PipeTypes
    <3>2. Chained(written, queue) /\ Synchronised /\ ~garbled
      BY <2>1 DEF Following, NothingGarbled
    <3>3. /\ Follows(written, Head(queue))
          /\ Chained(written', Tail(queue))
          /\ Given(written', Tail(queue), Len(Tail(queue))) = Given(written, queue, Len(queue))
      BY <1>5, <3>1, <3>2, ChainTail
    <3>4. ~Garbles(Head(queue))
      <4>1. Head(queue).kind # "set" => Head(queue).version = written.version
        BY <3>3 DEF Follows
      <4>2. Head(queue).kind = "inter" => written.at = Head(queue).at - 1
        <5>1. written.at \in Nat
          BY <3>1
        <5> QED BY <3>3, <5>1 DEF Follows
      <4> QED BY <4>1, <4>2 DEF Garbles
    <3>5. ~garbled'
      BY <1>5, <3>2, <3>4
    <3>6. Chained(written, queue)' /\ Synchronised'
      BY <1>1, <1>2, <1>5, <3>2, <3>3 DEF Synchronised
    <3> QED BY <3>5, <3>6 DEF Following, NothingGarbled
  <2>2. CASE lost # 0
    BY <1>1, <2>2 DEF Following, NothingGarbled
  <2>3. CASE ~codec_safe
    <3>1. ~Garbles(Head(queue))
      BY <2>3 DEF Garbles
    <3> QED BY <1>1, <1>2, <1>5, <2>3, <3>1 DEF Following, NothingGarbled
  <2> QED BY <2>1, <2>2, <2>3
<1> QED BY <1>3, <1>4, <1>5, PipeFacts

LEMMA FollowingStep ==
  ASSUME Types, PipeTypes, Beginning, Following, NothingGarbled, [Next]_vars
  PROVE  Following' /\ NothingGarbled'
<1>1. ASSUME NEW kind \in Kinds, NEW n \in 1..MaxFragments, NEW len \in LenOf[kind],
             Camera(kind, len, n)
      PROVE  Following' /\ NothingGarbled'
  <2>1. /\ nal' = [kind |-> kind, version |-> nal.version + (IF kind = "set" THEN 1 ELSE 0),
                   at |-> nal.at + 1, len |-> len]
        /\ sent = pieces /\ sent' = 0 /\ pieces' = n /\ UNCHANGED <<lost, pipe>>
    BY <1>1 DEF Camera
  <2>2. n > 0 /\ n \in Nat /\ nal.version \in Nat /\ nal.at \in Nat /\ pieces \in Nat
    BY OutputAssumption DEF Types, Nals
  <2>3. OfferedVersion = nal.version /\ OfferedAt = nal.at
    BY <2>1, <2>2 DEF OfferedVersion, OfferedAt
  <2>4. OfferedVersion' = nal.version
    <3>1. CASE kind = "set"
      BY <2>1, <2>2, <3>1 DEF OfferedVersion
    <3>2. CASE kind # "set"
      BY <2>1, <2>2, <3>2 DEF OfferedVersion
    <3> QED BY <3>1, <3>2
  <2>5. OfferedAt' = nal.at
    BY <2>1, <2>2 DEF OfferedAt
  <2>6. NothingGarbled'
    BY <2>1 DEF NothingGarbled, pipe, ghosts
  <2> QED BY <2>1, <2>3, <2>4, <2>5, <2>6, FollowingFrame
<1>2. CASE Record
  <2>1. PICK fed :
          /\ fed = Fed(fu, NextFragment) /\ sent < pieces
          /\ sent' = sent + 1 /\ UNCHANGED <<nal, pieces, lost>>
          /\ \/ fed.nals = {} /\ UNCHANGED pipe
             \/ fed.nals # {} /\ Offer(nal)
    BY <1>2, RecordFacts
  <2>2. lost = 0 => (fed.nals # {} <=> sent + 1 = pieces)
    BY <2>1, FedFacts
  <2>3. nal \in Nals /\ sent \in Nat /\ pieces \in Nat
    BY DEF Types
  <2>4. UNCHANGED <<garbled, codec_safe>>
    BY <2>1, <2>3, OfferFacts DEF pipe, ghosts
  <2>5. NothingGarbled'
    BY <2>1, <2>4 DEF NothingGarbled
  <2>6. CASE lost # 0 \/ ~codec_safe
    BY <2>1, <2>4, <2>5, <2>6 DEF Following
  <2>7. CASE lost = 0 /\ codec_safe /\ sent + 1 = pieces
    <3>1. Offer(nal) /\ sent' = pieces
      BY <2>1, <2>2, <2>7
    <3>2. Chained(written, queue) /\ Synchronised
      BY <2>7 DEF Following
    <3> QED BY <2>1, <2>5, <2>7, <3>1, <3>2, FollowingOffer DEF Following
  <2>8. CASE lost = 0 /\ codec_safe /\ sent + 1 # pieces
    <3>1. UNCHANGED pipe /\ sent' < pieces'
      BY <2>1, <2>2, <2>3, <2>8
    <3>2. OfferedVersion' = OfferedVersion /\ OfferedAt' = OfferedAt
      BY <2>1, <3>1 DEF OfferedVersion, OfferedAt
    <3> QED BY <2>1, <2>5, <3>1, <3>2, FollowingFrame
  <2> QED BY <2>6, <2>7, <2>8
<1>3. CASE Skip
  <2>1. lost' # 0
    BY <1>3 DEF Skip, Types
  <2> QED BY <2>1 DEF Following, NothingGarbled
<1>4. CASE UNCHANGED vars
  <2>1. UNCHANGED <<pipe, stream>>
    BY <1>4 DEF vars
  <2>2. OfferedVersion' = OfferedVersion /\ OfferedAt' = OfferedAt /\ lost' = lost
    BY <2>1 DEF stream, OfferedVersion, OfferedAt
  <2>3. NothingGarbled'
    BY <2>1 DEF NothingGarbled, pipe, ghosts, stream
  <2> QED BY <2>1, <2>2, <2>3, FollowingFrame
<1> QED BY <1>1, <1>2, <1>3, <1>4, FollowingPipe, Cases

----------------------------------------------------------------------------
\* IInv is inductive.
THEOREM OutputInvariant == Spec => []IInv
<1>1. Init => IInv
  <2> SUFFICES ASSUME Init PROVE IInv
    OBVIOUS
  <2> USE DEF Init, PipeInit
  <2>1. Control
    BY DEF Control, NoMissedWakeup, PlayerReaped
  <2>2. nal \in Nals /\ nal.kind = "none"
    BY DEF Nals
  <2>3. Types
    <3>1. fu \in Seq(Fragments)
      BY DEF NoFu
    <3>2. sent = 0 /\ pieces = 0 /\ lost = 0
      OBVIOUS
    <3>3. ~skipped /\ skipped \in BOOLEAN /\ mixed \in BOOLEAN
      BY Zenon
    <3>4. sent \in Nat /\ pieces \in Nat /\ sent <= pieces /\ lost \in Nat
      BY <3>2
    <3> HIDE DEF Init, PipeInit
    <3> QED BY <2>2, <3>1, <3>2, <3>3, <3>4 DEF Types
  <2>4. PipeTypes
    <3>1. queue \in Seq(Nals) /\ parameter_sets \in Seq(Nals)
      OBVIOUS
    <3>2. /\ written \in [version : Nat, at : Nat] /\ garbled = FALSE
          /\ codec_safe \in BOOLEAN /\ desynchronised = FALSE
      OBVIOUS
    <3>3. Len(parameter_sets) <= 1
      OBVIOUS
    <3> QED BY <3>1, <3>2, <3>3 DEF PipeTypes
  <2>8. Accounted
    BY BytesEmpty, OutputAssumption DEF Accounted
  <2>5. Beginning
    BY DEF Beginning, NoFu
  <2>6. NothingMixed /\ NothingGarbled
    BY DEF NothingMixed, NothingGarbled
  <2>7. Following
    <3>1. Len(queue) = 0 /\ OfferedVersion = 0 /\ OfferedAt = 0
      BY DEF OfferedVersion, OfferedAt
    <3>2. Given(written, queue, Len(queue)) = written
      BY <3>1 DEF Given
    <3> QED BY <3>1, <3>2 DEF Following, Synchronised, Chained
  <2>9. Places
    <3>1. lost = 0 /\ MaxLost \in Nat
      BY OutputAssumption
    <3>2. lost <= MaxLost
      BY <3>1
    <3> QED BY <3>2 DEF Places
  <2> QED BY <2>1, <2>3, <2>4, <2>5, <2>6, <2>7, <2>8, <2>9 DEF IInv
<1>2. IInv /\ [Next]_vars => IInv'
  BY ControlStep, PlacesStep, StreamStep, PipeTypesStep, FollowingStep DEF IInv
<1> QED BY <1>1, <1>2, PTL DEF Spec

\* offer(), its overflow policies, the writer and close() keep queued_bytes the
\* length of the queue, and the queue within max_bytes.
THEOREM QueueIsBounded == Spec => []TypeOK
<1>1. IInv => TypeOK
  <2> SUFFICES ASSUME IInv PROVE TypeOK
    OBVIOUS
  <2>1. sent \in 0..pieces /\ lost \in 0..MaxLost
    BY OutputAssumption DEF IInv, Types, Places
  <2> QED BY <2>1 DEF IInv, TypeOK, Types, PipeTypes, Accounted, Places
<1> QED BY <1>1, OutputInvariant, PTL

\* offer(), the writer and close() never leave the writer asleep with work to do.
THEOREM WriterIsWoken == Spec => []NoMissedWakeup
<1>1. IInv => NoMissedWakeup
  BY DEF IInv, Control
<1> QED BY <1>1, OutputInvariant, PTL

\* close() returns only when the player is gone.
THEOREM PlayerIsReaped == Spec => []PlayerReaped
<1>1. IInv => PlayerReaped
  BY DEF IInv, Control
<1> QED BY <1>1, OutputInvariant, PTL

\* feed() never joins fragments of two NAL units, unless two records in a row
\* are skipped.
THEOREM NeverMixed == Spec => []NothingMixed
<1>1. IInv => NothingMixed
  BY DEF IInv
<1> QED BY <1>1, OutputInvariant, PTL

\* However small the queue and whatever the player does, it is given no picture
\* it cannot decode.
THEOREM NeverGarbled == Spec => []NothingGarbled
<1>1. IInv => NothingGarbled
  BY DEF IInv
<1> QED BY <1>1, OutputInvariant, PTL
=============================================================================
