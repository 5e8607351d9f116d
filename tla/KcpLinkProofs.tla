--------------------------- MODULE KcpLinkProofs ---------------------------
(***************************************************************************)
(* Proofs about KcpLink.  IInv of that module is inductive: LinkInvariant  *)
(* proves it with one lemma per action, and the properties follow from it. *)
(* The step that carries the rest is DiffExact: while every number a peer  *)
(* looks at is within half the number space (SnAssumption and the age of   *)
(* packets, NetOK), the wrapping difference is the true one.               *)
(***************************************************************************)
EXTENDS KcpLink, TLAPS, WellFoundedInduction, SequenceTheorems, FiniteSetTheorems

\* A number below the modulus is its own remainder.
LEMMA ModSmall ==
  ASSUME NEW m \in Nat, NEW d \in Nat, d < m
  PROVE  d % m = d
OBVIOUS

\* A negative number above -m is brought into range by adding m once.
LEMMA ModNegative ==
  ASSUME NEW m \in Nat, NEW d \in Int, d < 0, -d < m
  PROVE  d % m = d + m
OBVIOUS

\* Where the elements of a concatenation come from.
LEMMA ConcatFacts ==
  ASSUME NEW S, NEW q \in Seq(S), NEW r \in Seq(S), NEW n \in Nat, Len(r) = n
  PROVE  /\ q \o r \in Seq(S)
         /\ Len(q \o r) = Len(q) + n
         /\ \A k \in 1..Len(q) : (q \o r)[k] = q[k]
         /\ \A k \in 1..n : (q \o r)[Len(q) + k] = r[k]
OBVIOUS

\* _itimediff is the true difference of two numbers that are less than half
\* the number space apart.
LEMMA DiffExact ==
  ASSUME NEW a \in Int, NEW b \in Int,
         2 * (a - b) < SnMod, 2 * (b - a) <= SnMod
  PROVE  Itimediff(a, b) = a - b
<1>1. SnMod \in Nat /\ SnMod > 0
  BY SnAssumption, WindowAssumption
<1>2. CASE a >= b
  <2>1. (a - b) % SnMod = a - b
    BY <1>1, <1>2, ModSmall
  <2> QED BY <2>1, <1>1, <1>2 DEF Itimediff
<1>3. CASE a < b
  <2>1. (a - b) % SnMod = (a - b) + SnMod
    BY <1>1, <1>3, ModNegative
  <2> QED BY <2>1, <1>1, <1>3 DEF Itimediff
<1> QED BY <1>2, <1>3

\* A non-empty set of segments has one with the least number.
LEMMA LeastSn ==
  ASSUME NEW buf, buf \subseteq Segment, buf # {}
  PROVE  \E s \in buf : \A t \in buf : s.sn <= t.sn
<1> DEFINE T == {s.sn : s \in buf}
<1>1. T \subseteq Nat /\ T # {}
  BY DEF Segment
<1>2. \E x \in T : \A y \in T : ~ (<<y, x>> \in OpToRel(<, Nat))
  <2> HIDE DEF T
  <2> QED BY <1>1, WFMin, NatLessThanWellFounded, Zenon
<1>3. PICK x \in T : \A y \in T : ~ (y < x)
  <2>1. \A x, y \in T : y < x => <<y, x>> \in OpToRel(<, Nat)
    <3> HIDE DEF T
    <3> QED BY <1>1, Zenon DEF OpToRel
  <2> HIDE DEF T
  <2> QED BY <1>2, <2>1
<1>4. PICK s \in buf : s.sn = x
  BY <1>3
<1>5. \A t \in buf : s.sn <= t.sn
  <2> TAKE t \in buf
  <2>1. t.sn \in T OBVIOUS
  <2>2. ~ (t.sn < x) BY <2>1, <1>3
  <2> QED BY <2>2, <1>4 DEF Segment
<1> QED BY <1>5

\* _shrink_buf returns a lower bound of the numbers in snd_buf: the number of
\* one of its segments, or snd_nxt when there is none.
LEMMA ShrinkBufFacts ==
  ASSUME NEW buf, buf \subseteq Segment, NEW nxt \in Nat
  PROVE  /\ ShrinkBuf(buf, nxt) \in Nat
         /\ \A s \in buf : ShrinkBuf(buf, nxt) <= s.sn
         /\ buf = {} => ShrinkBuf(buf, nxt) = nxt
         /\ buf # {} => \E s \in buf : ShrinkBuf(buf, nxt) = s.sn
<1>1. CASE buf = {}
  BY <1>1 DEF ShrinkBuf
<1>2. CASE buf # {}
  <2> DEFINE least == CHOOSE s \in buf : \A t \in buf : s.sn <= t.sn
  <2>1. least \in buf /\ \A t \in buf : least.sn <= t.sn
    BY <1>2, LeastSn
  <2>2. ShrinkBuf(buf, nxt) = least.sn
    BY <1>2 DEF ShrinkBuf
  <2> HIDE DEF least
  <2> QED BY <2>1, <2>2, <1>2 DEF Segment
<1> QED BY <1>1, <1>2

-----------------------------------------------------------------------------
\* In a buffer whose numbers are close to sn, the search of _parse_data finds
\* a segment exactly when one has that number.
LEMMA HoldsExact ==
  ASSUME NEW buf, buf \subseteq Segment, NEW nxt \in Nat, NEW k \in Nat, k <= RcvWnd,
         \A s \in buf : nxt <= s.sn /\ s.sn < nxt + RcvWnd
  PROVE  \A s \in buf : Itimediff(s.sn, nxt + k) = s.sn - (nxt + k)
<1> TAKE s \in buf
<1>1. s.sn \in Nat BY DEF Segment
<1> QED BY <1>1, DiffExact, SnAssumption, WindowAssumption

\* A run of segments that are all there has the numbers it should have.
LEMMA RunFacts ==
  ASSUME NEW buf, buf \subseteq Segment, NEW nxt \in Nat, NEW n \in 0..RcvWnd,
         \A s \in buf : nxt <= s.sn /\ s.sn < nxt + RcvWnd,
         \A s, t \in buf : s.sn = t.sn => s = t,
         \A k \in 1..n : Holds(buf, nxt + k - 1)
  PROVE  /\ Run(buf, nxt, n) \in Seq(Segment)
         /\ Len(Run(buf, nxt, n)) = n
         /\ \A k \in 1..n : Run(buf, nxt, n)[k] \in buf /\ Run(buf, nxt, n)[k].sn = nxt + k - 1
         /\ \A s \in buf : s.sn < nxt + n => \E k \in 1..n : s = Run(buf, nxt, n)[k]
<1> DEFINE f(k) == CHOOSE s \in buf : Itimediff(s.sn, nxt + k - 1) = 0
<1>0. n \in Nat /\ n <= RcvWnd /\ RcvWnd \in Nat
  BY WindowAssumption
<1>1. \A k \in 1..n : f(k) \in buf /\ f(k).sn = nxt + k - 1
  <2> TAKE k \in 1..n
  <2>1. \E s \in buf : Itimediff(s.sn, nxt + k - 1) = 0
    BY DEF Holds
  <2>2. f(k) \in buf /\ Itimediff(f(k).sn, nxt + k - 1) = 0
    BY <2>1
  <2> DEFINE j == k - 1
  <2>3. j \in Nat /\ j <= RcvWnd /\ nxt + k - 1 = nxt + j
    BY <1>0
  <2> HIDE DEF j, f
  <2>4. Itimediff(f(k).sn, nxt + j) = f(k).sn - (nxt + j)
    BY <2>2, <2>3, HoldsExact
  <2>5. f(k).sn \in Nat
    BY <2>2 DEF Segment
  <2> QED BY <2>2, <2>3, <2>4, <2>5
<1>2. Run(buf, nxt, n) = [k \in 1..n |-> f(k)]
  BY DEF Run
<1> HIDE DEF f
<1>3. \A k \in 1..n : f(k) \in Segment
  BY <1>1
<1>4. Run(buf, nxt, n) \in Seq(Segment) /\ Len(Run(buf, nxt, n)) = n
  BY <1>0, <1>2, <1>3
<1>5. \A k \in 1..n : Run(buf, nxt, n)[k] = f(k)
  BY <1>2
<1>6. ASSUME NEW s \in buf, s.sn < nxt + n
      PROVE  \E k \in 1..n : s = Run(buf, nxt, n)[k]
  <2> DEFINE k == s.sn - nxt + 1
  <2>1. k \in 1..n /\ s.sn = nxt + k - 1
    BY <1>0, <1>6 DEF Segment
  <2> HIDE DEF k
  <2>2. f(k) \in buf /\ f(k).sn = s.sn
    BY <2>1, <1>1
  <2>3. f(k) = s
    BY <2>2
  <2> QED BY <2>1, <2>3, <1>5
<1> QED BY <1>1, <1>4, <1>5, <1>6

\* The loop that fills rcv_queue takes segments from the buffer it is given,
\* with consecutive numbers from rcv_nxt on, and leaves the others.
LEMMA PullFacts ==
  ASSUME NEW buf, buf \subseteq Segment, NEW queue \in Seq(Segment), rcv_nxt \in Nat,
         \A s \in buf : rcv_nxt <= s.sn /\ s.sn < rcv_nxt + RcvWnd,
         \A s, t \in buf : s.sn = t.sn => s = t,
         Pull(buf, queue)
  PROVE  \E n \in Nat :
           /\ rcv_nxt' = rcv_nxt + n
           /\ rcv_queue' \in Seq(Segment)
           /\ Len(rcv_queue') = Len(queue) + n /\ Len(queue) + n <= RcvWnd
           /\ \A k \in 1..Len(queue) : rcv_queue'[k] = queue[k]
           /\ \A k \in 1..n : /\ rcv_queue'[Len(queue) + k] \in buf
                              /\ rcv_queue'[Len(queue) + k].sn = rcv_nxt + k - 1
           /\ rcv_buf' \subseteq buf
           /\ \A s \in buf : s \in rcv_buf' <=> s.sn >= rcv_nxt + n
<1>1. PICK n \in 0..RcvWnd :
        /\ \A k \in 1..n : Holds(buf, rcv_nxt + k - 1)
        /\ Len(queue) + n <= RcvWnd
        /\ rcv_nxt' = rcv_nxt + n
        /\ rcv_queue' = queue \o Run(buf, rcv_nxt, n)
        /\ rcv_buf' = buf \ {Run(buf, rcv_nxt, n)[k] : k \in 1..n}
  BY DEF Pull
<1> DEFINE r == Run(buf, rcv_nxt, n)
<1>2. /\ r \in Seq(Segment)
      /\ Len(r) = n
      /\ \A k \in 1..n : r[k] \in buf /\ r[k].sn = rcv_nxt + k - 1
      /\ \A s \in buf : s.sn < rcv_nxt + n => \E k \in 1..n : s = r[k]
  BY <1>1, RunFacts
<1> HIDE DEF r
<1>3. rcv_queue' = queue \o r /\ rcv_buf' = buf \ {r[k] : k \in 1..n}
  BY <1>1 DEF r
<1>4. n \in Nat
  BY WindowAssumption
<1>5. /\ rcv_queue' \in Seq(Segment)
      /\ Len(rcv_queue') = Len(queue) + n
      /\ \A k \in 1..Len(queue) : rcv_queue'[k] = queue[k]
      /\ \A k \in 1..n : rcv_queue'[Len(queue) + k] = r[k]
  <2>1. r \in Seq(Segment) /\ Len(r) = n
    BY <1>2
  <2> QED BY <1>3, <1>4, <2>1, ConcatFacts
<1>6. \A s \in buf : s \in rcv_buf' <=> s.sn >= rcv_nxt + n
  <2> TAKE s \in buf
  <2>1. s.sn \in Nat BY DEF Segment
  <2>2. CASE s.sn < rcv_nxt + n
    BY <2>1, <2>2, <1>2, <1>3, <1>4
  <2>3. CASE s.sn >= rcv_nxt + n
    BY <2>1, <2>3, <1>2, <1>3, <1>4
  <2> QED BY <2>1, <2>2, <2>3, <1>4
<1> QED BY <1>1, <1>2, <1>3, <1>4, <1>5, <1>6

-----------------------------------------------------------------------------
(* Consequences of the invariant used by several actions.                    *)

\* The lengths of the two queues are numbers.
LEMMA Lengths ==
  ASSUME TypeOK
  PROVE  /\ Len(accepted) \in Nat /\ Len(delivered) \in Nat
         /\ Len(snd_queue) \in Nat /\ Len(rcv_queue) \in Nat
BY DEF TypeOK

\* While the invariant holds the receiver is never more than a window ahead
\* of what the sender has released.
LEMMA UnaBound ==
  ASSUME IInv
  PROVE  snd_una <= rcv_nxt + RcvWnd /\ snd_nxt - rcv_nxt <= PacketLife
<1>1. snd_una \in Nat /\ snd_nxt \in Nat /\ rcv_nxt \in Nat /\ snd_buf \subseteq Segment
  BY DEF IInv, TypeOK
<1>2. snd_una <= rcv_nxt + RcvWnd
  <2>1. CASE snd_una = 0
    BY <1>1, <2>1, WindowAssumption
  <2>2. CASE snd_una > 0
    <3>1. snd_una - 1 \in 0..(snd_nxt - 1)
      BY <1>1, <2>2 DEF IInv, SenderOK
    <3>2. ~ \E s \in snd_buf : s.sn = snd_una - 1
      BY <1>1 DEF IInv, SenderOK
    <3>3. Received(snd_una - 1)
      BY <3>1, <3>2 DEF IInv, NothingForgotten
    <3>4. snd_una - 1 < rcv_nxt + RcvWnd
      BY <1>1, <3>3, WindowAssumption DEF Received, IInv, ReceiverOK
    <3> QED BY <1>1, <3>4, WindowAssumption
  <2> QED BY <1>1, <2>1, <2>2
<1>3. snd_nxt - snd_una <= SndWnd
  BY DEF IInv, SenderOK
<1> QED BY <1>1, <1>2, <1>3, SnAssumption, WindowAssumption

\* _flush numbers no more segments than are queued, nor than snd_wnd allows.
LEMMA AdmittedFacts ==
  ASSUME IInv
  PROVE  /\ Admitted \in Nat /\ Admitted <= Len(snd_queue)
         /\ snd_nxt + Admitted - snd_una <= SndWnd
<1> DEFINE w == Smaller(SndWnd, rmt_wnd)
<1>1. snd_una \in Nat /\ snd_nxt \in Nat /\ rmt_wnd \in Nat /\ Len(snd_queue) \in Nat
  BY Lengths DEF IInv, TypeOK
<1>2. snd_una <= snd_nxt /\ snd_nxt - snd_una <= SndWnd
  BY DEF IInv, SenderOK
<1>3. w \in Nat /\ w <= SndWnd
  BY <1>1, WindowAssumption DEF Smaller
<1> HIDE DEF w
<1>4. Itimediff(snd_una + w, snd_nxt) = snd_una + w - snd_nxt
  BY <1>1, <1>2, <1>3, DiffExact, SnAssumption, WindowAssumption
<1> QED BY <1>1, <1>2, <1>3, <1>4, WindowAssumption DEF Admitted, Smaller, w

\* Filling rcv_queue from a well-formed buffer keeps the receiver well formed,
\* and whatever was received stays received.
LEMMA PullPreserves ==
  ASSUME IInv, NEW buf, buf \subseteq Segment, NEW queue \in Seq(Segment),
         rcv_buf \subseteq buf,
         \A s \in buf : /\ s.data = s.sn /\ CountsDown(accepted, s)
                        /\ rcv_nxt <= s.sn /\ s.sn < rcv_nxt + RcvWnd /\ s.sn < snd_nxt,
         \A s, t \in buf : s.sn = t.sn => s = t,
         Len(queue) <= rcv_nxt,
         \A k \in 1..Len(queue) : /\ queue[k].data = rcv_nxt - Len(queue) + k - 1
                                 /\ CountsDown(accepted, queue[k]),
         Pull(buf, queue), UNCHANGED <<accepted, snd_nxt>>
  PROVE  /\ ReceiverOK'
         /\ rcv_nxt' \in Nat /\ rcv_nxt' >= rcv_nxt
         /\ rcv_buf' \subseteq Segment /\ rcv_queue' \in Seq(Segment)
         /\ rcv_nxt' - Len(rcv_queue') = rcv_nxt - Len(queue)
         /\ \A s \in buf : Received(s.sn)'
         /\ \A sn \in Nat : Received(sn) => Received(sn)'
<1>1. rcv_nxt \in Nat /\ snd_nxt \in Nat /\ Len(queue) \in Nat
  BY DEF IInv, TypeOK
<1>2. PICK n \in Nat :
        /\ rcv_nxt' = rcv_nxt + n
        /\ rcv_queue' \in Seq(Segment)
        /\ Len(rcv_queue') = Len(queue) + n /\ Len(queue) + n <= RcvWnd
        /\ \A k \in 1..Len(queue) : rcv_queue'[k] = queue[k]
        /\ \A k \in 1..n : /\ rcv_queue'[Len(queue) + k] \in buf
                           /\ rcv_queue'[Len(queue) + k].sn = rcv_nxt + k - 1
        /\ rcv_buf' \subseteq buf
        /\ \A s \in buf : s \in rcv_buf' <=> s.sn >= rcv_nxt + n
  BY <1>1, PullFacts
<1>3. rcv_nxt' <= snd_nxt
  <2>1. CASE n = 0
    BY <1>1, <1>2, <2>1 DEF IInv, ReceiverOK
  <2>2. CASE n > 0
    <3>1. n \in 1..n
      BY <2>2
    <3>2. rcv_nxt + n - 1 < snd_nxt
      BY <1>2, <3>1
    <3> QED BY <1>1, <1>2, <3>2
  <2> QED BY <2>1, <2>2
<1>4. ASSUME NEW k \in 1..Len(rcv_queue')
      PROVE  /\ rcv_queue'[k].data = rcv_nxt' - Len(rcv_queue') + k - 1
             /\ CountsDown(accepted', rcv_queue'[k])
  <2>1. CASE k <= Len(queue)
    <3>1. k \in 1..Len(queue)
      BY <1>1, <2>1
    <3> QED BY <1>1, <1>2, <3>1, SMTT(40)
  <2>2. CASE k > Len(queue)
    <3> DEFINE j == k - Len(queue)
    <3>1. j \in 1..n /\ k = Len(queue) + j
      BY <1>1, <1>2, <2>2
    <3> HIDE DEF j
    <3>2. rcv_queue'[k] \in buf /\ rcv_queue'[k].sn = rcv_nxt + j - 1
      BY <1>2, <3>1
    <3>3. rcv_queue'[k].data = rcv_nxt + j - 1 /\ CountsDown(accepted', rcv_queue'[k])
      BY <3>2
    <3>4. rcv_nxt' - Len(rcv_queue') + k - 1 = rcv_nxt + j - 1
      BY <1>1, <1>2, <3>1
    <3> QED BY <3>3, <3>4
  <2> QED BY <1>1, <2>1, <2>2
<1>5. ASSUME NEW s \in rcv_buf'
      PROVE  /\ s.data = s.sn /\ CountsDown(accepted', s)
             /\ rcv_nxt' <= s.sn /\ s.sn < rcv_nxt' + RcvWnd /\ s.sn < snd_nxt'
  <2>1. s \in buf /\ s.sn \in Nat /\ s.sn >= rcv_nxt + n
    BY <1>2, <1>5 DEF Segment
  <2> QED BY <1>1, <1>2, <2>1, WindowAssumption
<1>6. \A s, t \in rcv_buf' : s.sn = t.sn => s = t
  BY <1>2
<1>7. ReceiverOK'
  BY <1>1, <1>2, <1>3, <1>4, <1>5, <1>6 DEF ReceiverOK
<1>8. \A s \in buf : Received(s.sn)'
  <2> TAKE s \in buf
  <2>1. s.sn \in Nat BY DEF Segment
  <2>2. s \in rcv_buf' \/ s.sn < rcv_nxt'
    BY <1>1, <1>2, <2>1
  <2> QED BY <2>2 DEF Received
<1>9. \A sn \in Nat : Received(sn) => Received(sn)'
  <2> SUFFICES ASSUME NEW sn \in Nat, Received(sn) PROVE Received(sn)'
    OBVIOUS
  <2>1. CASE sn < rcv_nxt
    BY <1>1, <1>2, <2>1 DEF Received
  <2>2. CASE \E s \in rcv_buf : s.sn = sn
    BY <1>8, <2>2
  <2> QED BY <2>1, <2>2 DEF Received
<1> QED BY <1>1, <1>2, <1>7, <1>8, <1>9

-----------------------------------------------------------------------------
(* One lemma per action: the invariant is preserved.                         *)

\* A new pair of PythonKCP objects satisfies the invariant.
LEMMA InitInvariant == Init => IInv
<1> SUFFICES ASSUME Init PROVE IInv
  OBVIOUS
<1>1. TypeOK
  <2>1. /\ accepted \in Seq(Seq(Nat)) /\ delivered \in Seq(Seq(Nat))
        /\ snd_queue \in Seq(Chunk) /\ rcv_queue \in Seq(Segment)
    BY EmptySeq DEF Init
  <2>2. snd_buf \subseteq Segment /\ rcv_buf \subseteq Segment /\ acklist \subseteq Nat
        /\ net \subseteq Packet
    BY DEF Init
  <2>3. /\ snd_una \in Nat /\ snd_nxt \in Nat /\ rmt_wnd \in Nat /\ rcv_nxt \in Nat
        /\ faults \in Nat /\ probing \in BOOLEAN /\ ask_tell \in BOOLEAN
    BY DEF Init, IKCP_WND_RCV
  <2> QED BY <2>1, <2>2, <2>3 DEF TypeOK
<1>2. ChunksAccepted = 0 /\ Len(accepted) = 0 /\ Len(delivered) = 0
      /\ Len(snd_queue) = 0 /\ Len(rcv_queue) = 0
  BY DEF Init, ChunksAccepted
<1>3. InOrderExactlyOnce /\ AcceptedOK /\ DeliveredOK
  <2>1. rcv_nxt = 0
    BY DEF Init
  <2>2. 1..0 = {}
    OBVIOUS
  <2>3. InOrderExactlyOnce /\ AcceptedOK
    BY <1>2, <2>2 DEF InOrderExactlyOnce, AcceptedOK
  <2>4. DeliveredOK
    BY <1>2, <2>1 DEF DeliveredOK
  <2> QED BY <2>3, <2>4
<1>4. NothingForgotten /\ AcksAreTrue /\ NetOK
  BY DEF Init, NothingForgotten, AcksAreTrue, NetOK
<1>5. SenderOK /\ ReceiverOK
  BY <1>2, WindowAssumption DEF Init, SenderOK, ReceiverOK
<1> QED BY <1>1, <1>3, <1>4, <1>5 DEF IInv

\* send() preserves the invariant: the new chunks follow the accepted ones and
\* their frg counts down to 0.
LEMMA SendStep ==
  ASSUME IInv, NEW count \in 1..MaxFragments, Send(count)
  PROVE  IInv'
<1> DEFINE c0  == ChunksAccepted
           msg == [i \in 1..count |-> c0 + i - 1]
           new == [i \in 1..count |-> [data |-> c0 + i - 1, frg |-> count - i]]
           L   == Len(accepted)
<1>1. c0 \in Nat /\ count \in Nat /\ count >= 1 /\ L \in Nat
  BY Lengths, WindowAssumption DEF IInv, AcceptedOK
<1>2. /\ accepted' = Append(accepted, msg)
      /\ snd_queue' = snd_queue \o new
      /\ UNCHANGED <<snd_buf, snd_una, snd_nxt, rmt_wnd, probing>>
      /\ UNCHANGED <<rcv_nxt, rcv_buf, rcv_queue, acklist, ask_tell, delivered, net, faults>>
  BY DEF Send, receiver
<1>3. /\ msg \in Seq(Nat) /\ Len(msg) = count
      /\ \A i \in 1..count : msg[i] = c0 + i - 1
  <2> HIDE DEF c0
  <2> QED BY <1>1
<1>4. /\ new \in Seq(Chunk) /\ Len(new) = count
      /\ \A i \in 1..count : new[i].data = c0 + i - 1 /\ new[i].frg = count - i
  <2>1. \A i \in 1..count : [data |-> c0 + i - 1, frg |-> count - i] \in Chunk
    <3> HIDE DEF c0
    <3> QED BY <1>1 DEF Chunk
  <2>2. new \in Seq(Chunk) /\ Len(new) = count
    <3> HIDE DEF c0
    <3> QED BY <1>1, <2>1
  <2>3. \A i \in 1..count : new[i].data = c0 + i - 1 /\ new[i].frg = count - i
    <3> HIDE DEF c0
    <3> QED OBVIOUS
  <2> QED BY <2>2, <2>3
<1> HIDE DEF c0, msg, new
<1>5. /\ accepted' \in Seq(Seq(Nat)) /\ Len(accepted') = L + 1
      /\ \A m \in 1..L : accepted'[m] = accepted[m]
      /\ accepted'[L + 1] = msg
  BY <1>1, <1>2, <1>3 DEF IInv, TypeOK
<1> HIDE DEF L
<1>6. ChunksAccepted' = c0 + count
  <2>1. accepted' # <<>>
    BY <1>1, <1>5
  <2> QED BY <1>1, <1>3, <1>5, <2>1 DEF ChunksAccepted
<1>7. AcceptedOK'
  <2>1. ASSUME NEW m \in 1..Len(accepted')
        PROVE  /\ Len(accepted'[m]) >= 1
               /\ \A i \in 1..Len(accepted'[m]) : accepted'[m][i] = accepted'[m][1] + i - 1
               /\ m < Len(accepted') => accepted'[m + 1][1] = accepted'[m][1] + Len(accepted'[m])
               /\ accepted'[m][1] + Len(accepted'[m]) <= c0 + count
               /\ m = Len(accepted') => c0 + count = accepted'[m][1] + Len(accepted'[m])
    <3>0. m \in 1..(L + 1)
      BY <1>5
    <3>1. CASE m = L + 1
      <4>1. Len(accepted'[m]) = count /\ \A i \in 1..count : accepted'[m][i] = c0 + i - 1
        BY <1>3, <1>5, <3>1
      <4>2. accepted'[m][1] = c0
        BY <1>1, <4>1
      <4> QED BY <1>1, <1>5, <3>1, <4>1, <4>2
    <3>2. CASE m < L + 1
      <4>1. m \in 1..L /\ accepted'[m] = accepted[m]
        BY <1>1, <1>5, <3>0, <3>2
      <4>2. /\ Len(accepted[m]) >= 1
            /\ \A i \in 1..Len(accepted[m]) : accepted[m][i] = accepted[m][1] + i - 1
            /\ m < L => accepted[m + 1][1] = accepted[m][1] + Len(accepted[m])
            /\ accepted[m][1] + Len(accepted[m]) <= c0
            /\ m = L => c0 = accepted[m][1] + Len(accepted[m])
        BY <4>1 DEF IInv, AcceptedOK, L, c0
      <4>3. accepted[m][1] \in Nat /\ Len(accepted[m]) \in Nat
        <5>1. accepted[m] \in Seq(Nat)
          BY <4>1 DEF IInv, TypeOK, L
        <5> QED BY <5>1, <4>2
      <4>4. CASE m = L
        <5>1. accepted'[L + 1][1] = c0
          BY <1>1, <1>3, <1>5
        <5>2. c0 = accepted[m][1] + Len(accepted[m])
          BY <4>2, <4>4
        <5>3. accepted'[m + 1][1] = accepted'[m][1] + Len(accepted'[m])
          BY <4>1, <4>4, <5>1, <5>2
        <5> QED BY <1>1, <1>5, <4>1, <4>2, <4>3, <4>4, <5>2, <5>3
      <4>5. CASE m < L
        <5>1. m + 1 \in 1..L
          BY <1>1, <4>1, <4>5
        <5>2. accepted'[m + 1] = accepted[m + 1]
          BY <1>5, <5>1
        <5>3. accepted'[m + 1][1] = accepted'[m][1] + Len(accepted'[m])
          BY <4>1, <4>2, <4>5, <5>2
        <5> QED BY <1>1, <1>5, <4>1, <4>2, <4>3, <4>5, <5>3, SMTT(40)
      <4> QED BY <1>1, <4>1, <4>4, <4>5
    <3> QED BY <1>1, <1>5, <3>1, <3>2
  <2> QED BY <1>1, <1>6, <2>1 DEF AcceptedOK
<1>8. ASSUME NEW s, s.data \in Nat, s.data < c0, CountsDown(accepted, s)
      PROVE  CountsDown(accepted', s)
  <2> SUFFICES ASSUME NEW m \in 1..(L + 1), NEW i \in 1..Len(accepted'[m]),
                      accepted'[m][i] = s.data
               PROVE  s.frg = Len(accepted'[m]) - i
    BY <1>5, Zenon DEF CountsDown
  <2>1. CASE m = L + 1
    <3>1. s.data = c0 + i - 1 /\ i \in 1..count
      BY <1>3, <1>5, <2>1
    <3> QED BY <1>1, <1>8, <3>1
  <2>2. CASE m < L + 1
    <3>1. m \in 1..L
      BY <1>1, <2>2
    <3> QED BY <1>5, <1>8, <3>1 DEF CountsDown, L
  <2> QED BY <1>1, <2>1, <2>2
<1>9. ASSUME NEW k \in 1..count
      PROVE  CountsDown(accepted', new[k])
  <2> SUFFICES ASSUME NEW m \in 1..(L + 1), NEW i \in 1..Len(accepted'[m]),
                      accepted'[m][i] = c0 + k - 1
               PROVE  count - k = Len(accepted'[m]) - i
    BY <1>4, <1>5 DEF CountsDown
  <2>1. CASE m = L + 1
    <3>1. accepted'[m] = msg /\ Len(accepted'[m]) = count
      BY <1>3, <1>5, <2>1
    <3>2. i \in 1..count /\ accepted'[m][i] = c0 + i - 1
      BY <1>3, <3>1
    <3> QED BY <1>1, <3>1, <3>2
  <2>2. CASE m < L + 1
    <3>1. m \in 1..L /\ accepted'[m] = accepted[m]
      BY <1>1, <1>5, <2>2
    <3>2. accepted[m][i] = accepted[m][1] + i - 1 /\ accepted[m][1] + Len(accepted[m]) <= c0
      BY <3>1 DEF IInv, AcceptedOK, L, c0
    <3>3. accepted[m] \in Seq(Nat)
      BY <3>1 DEF IInv, TypeOK, L
    <3>4. accepted[m][1] \in Nat /\ Len(accepted[m]) \in Nat /\ i \in 1..Len(accepted[m])
      BY <3>1, <3>3
    <3> QED BY <1>1, <3>1, <3>2, <3>4
  <2> QED BY <1>1, <2>1, <2>2
<1>10. /\ snd_queue' \in Seq(Chunk)
       /\ Len(snd_queue') = Len(snd_queue) + count
       /\ \A k \in 1..Len(snd_queue) : snd_queue'[k] = snd_queue[k]
       /\ \A k \in 1..count : snd_queue'[Len(snd_queue) + k] = new[k]
  <2>1. snd_queue \in Seq(Chunk)
    BY DEF IInv, TypeOK
  <2> QED BY <1>1, <1>2, <1>4, <2>1, ConcatFacts
<1>11. snd_nxt \in Nat /\ Len(snd_queue) \in Nat /\ snd_nxt + Len(snd_queue) = c0
  BY Lengths DEF IInv, TypeOK, SenderOK, c0
<1>12. SenderOK'
  <2>1. ASSUME NEW k \in 1..Len(snd_queue')
        PROVE  /\ snd_queue'[k].data = snd_nxt + k - 1
               /\ CountsDown(accepted', snd_queue'[k])
    <3>1. CASE k <= Len(snd_queue)
      <4>1. k \in 1..Len(snd_queue)
        BY <1>11, <3>1
      <4>2. snd_queue[k].data = snd_nxt + k - 1 /\ CountsDown(accepted, snd_queue[k])
        BY <4>1 DEF IInv, SenderOK
      <4>3. snd_queue[k].data \in Nat /\ snd_queue[k].data < c0
        BY <1>11, <4>1, <4>2
      <4> QED BY <1>8, <1>10, <4>1, <4>2, <4>3
    <3>2. CASE k > Len(snd_queue)
      <4> DEFINE j == k - Len(snd_queue)
      <4>1. j \in 1..count /\ k = Len(snd_queue) + j
        <5>1. k \in 1..(Len(snd_queue) + count)
          BY <1>10
        <5> QED BY <1>1, <1>11, <3>2, <5>1
      <4> HIDE DEF j
      <4>2. snd_queue'[k] = new[j] /\ new[j].data = c0 + j - 1
        BY <1>4, <1>10, <4>1
      <4> QED BY <1>1, <1>9, <1>11, <4>1, <4>2
    <3> QED BY <1>11, <3>1, <3>2
  <2>2. ASSUME NEW s \in snd_buf
        PROVE  s.data = s.sn /\ CountsDown(accepted', s) /\ snd_una <= s.sn /\ s.sn < snd_nxt
    <3>1. /\ s.data = s.sn /\ CountsDown(accepted, s) /\ snd_una <= s.sn /\ s.sn < snd_nxt
          /\ s.sn \in Nat
      BY DEF IInv, SenderOK, TypeOK, Segment
    <3> QED BY <1>8, <1>11, <3>1
  <2>3. snd_una <= snd_nxt /\ snd_nxt - snd_una <= SndWnd
    BY DEF IInv, SenderOK
  <2>4. snd_nxt' + Len(snd_queue') = ChunksAccepted'
    <3>1. count \in Nat /\ snd_nxt' = snd_nxt
      BY <1>1, <1>2
    <3>2. Len(snd_queue') = Len(snd_queue) + count
      BY <1>10, Zenon
    <3>3. snd_nxt + (Len(snd_queue) + count) = c0 + count
      BY <1>11, <3>1
    <3> QED BY <1>6, <3>1, <3>2, <3>3
  <2> QED BY <1>2, <2>1, <2>2, <2>3, <2>4 DEF SenderOK
<1>13. ReceiverOK'
  <2>1. rcv_nxt \in Nat /\ Len(rcv_queue) \in Nat /\ rcv_nxt <= snd_nxt /\ Len(rcv_queue) <= rcv_nxt
    BY Lengths DEF IInv, TypeOK, ReceiverOK
  <2>2. ASSUME NEW k \in 1..Len(rcv_queue)
        PROVE  CountsDown(accepted', rcv_queue[k])
    <3>1. /\ rcv_queue[k].data = rcv_nxt - Len(rcv_queue) + k - 1
          /\ CountsDown(accepted, rcv_queue[k])
      BY DEF IInv, ReceiverOK
    <3>2. rcv_queue[k].data \in Nat /\ rcv_queue[k].data < c0
      BY <1>11, <2>1, <3>1
    <3> QED BY <1>8, <3>1, <3>2
  <2>3. ASSUME NEW s \in rcv_buf
        PROVE  CountsDown(accepted', s)
    <3>1. s.data = s.sn /\ s.sn < snd_nxt /\ s.sn \in Nat /\ CountsDown(accepted, s)
      BY DEF IInv, TypeOK, ReceiverOK, Segment
    <3> QED BY <1>8, <1>11, <3>1
  <2> QED BY <1>2, <2>2, <2>3 DEF IInv, ReceiverOK
<1>14. NetOK'
  <2>1. ASSUME NEW p \in net, p.cmd = "PUSH"
        PROVE  CountsDown(accepted', p)
    <3>1. p.data = p.sn /\ p.sn < snd_nxt /\ CountsDown(accepted, p)
      BY <2>1 DEF IInv, NetOK
    <3>2. p \in PushPacket
      BY <2>1 DEF IInv, TypeOK, Packet, PushPacket, AckPacket, WaskPacket, WinsPacket
    <3>3. p.sn \in Nat
      BY <3>2 DEF PushPacket
    <3> QED BY <1>8, <1>11, <3>1, <3>3
  <2> QED BY <1>2, <2>1 DEF IInv, NetOK, Fresh
<1>15. DeliveredOK'
  <2>1. Len(delivered) <= L /\ Len(delivered) \in Nat
    BY Lengths DEF IInv, InOrderExactlyOnce, L
  <2>2. CASE Len(delivered) < L
    <3>1. Len(delivered) + 1 \in 1..L
      BY <1>1, <2>1, <2>2
    <3> QED BY <1>1, <1>2, <1>5, <2>1, <2>2, <3>1 DEF IInv, DeliveredOK, L
  <2>3. CASE Len(delivered) = L
    <3>1. rcv_nxt - Len(rcv_queue) = c0
      BY <1>1, <2>3 DEF IInv, DeliveredOK, L, c0
    <3>2. accepted'[Len(delivered) + 1][1] = c0
      BY <1>1, <1>3, <1>5, <2>3
    <3> QED BY <1>1, <1>2, <1>5, <2>3, <3>1, <3>2 DEF DeliveredOK
  <2> QED BY <1>1, <2>1, <2>2, <2>3
<1>16. InOrderExactlyOnce'
  <2>1. Len(delivered) <= L /\ Len(delivered) \in Nat
    BY Lengths DEF IInv, InOrderExactlyOnce, L
  <2>2. \A m \in 1..Len(delivered) : delivered[m] = accepted[m] /\ m \in 1..L
    BY <1>1, <2>1 DEF IInv, InOrderExactlyOnce
  <2> QED BY <1>1, <1>2, <1>5, <2>1, <2>2 DEF InOrderExactlyOnce
<1>17. NothingForgotten' /\ AcksAreTrue'
  BY <1>2 DEF IInv, NothingForgotten, AcksAreTrue, Received
<1>18. TypeOK'
  BY <1>2, <1>5, <1>10 DEF IInv, TypeOK
<1> QED BY <1>7, <1>12, <1>13, <1>14, <1>15, <1>16, <1>17, <1>18 DEF IInv

\* _flush() of the sender preserves the invariant: new segments take the next
\* numbers, and packets too old to be told apart are gone.
LEMMA SenderFlushStep ==
  ASSUME IInv, NEW due \in SUBSET snd_buf, NEW probeDue \in BOOLEAN,
         SenderFlush(due, probeDue)
  PROVE  IInv' /\ snd_una' = snd_una /\ snd_nxt' >= snd_nxt /\ rcv_nxt' = rcv_nxt
<1> DEFINE n     == Admitted
           fresh == {Numbered(n)[k] : k \in 1..n}
           wask  == IF rmt_wnd = 0 /\ probing /\ probeDue THEN {[cmd |-> "WASK"]} ELSE {}
<1>1. /\ n \in Nat /\ n <= Len(snd_queue) /\ snd_nxt + n - snd_una <= SndWnd
      /\ snd_nxt \in Nat /\ snd_una \in Nat /\ Len(snd_queue) \in Nat /\ rcv_nxt \in Nat
  BY AdmittedFacts, Lengths DEF IInv, TypeOK
<1>2. /\ \A sn \in acklist : (snd_nxt + n) - sn <= PacketLife
      /\ snd_queue' = SubSeq(snd_queue, n + 1, Len(snd_queue))
      /\ snd_nxt' = snd_nxt + n
      /\ snd_buf' = snd_buf \cup fresh
      /\ net' = {p \in net \cup wask \cup {Push(s) : s \in due \cup fresh} : Fresh(p, snd_nxt + n)}
      /\ UNCHANGED <<accepted, snd_una, rmt_wnd, delivered, faults>>
      /\ UNCHANGED <<rcv_nxt, rcv_buf, rcv_queue, acklist, ask_tell>>
  <2>1. UNCHANGED <<accepted, snd_una, rmt_wnd, receiver, delivered, faults>>
    BY Zenon DEF SenderFlush
  <2>2. Timely(snd_nxt + n)
    BY Zenon DEF SenderFlush
  <2>3. /\ snd_queue' = SubSeq(snd_queue, n + 1, Len(snd_queue))
        /\ snd_nxt' = snd_nxt + n
        /\ snd_buf' = snd_buf \cup fresh
        /\ net' = {p \in net \cup wask \cup {Push(s) : s \in due \cup fresh} : Fresh(p, snd_nxt + n)}
    BY Zenon DEF SenderFlush
  <2>4. /\ UNCHANGED <<accepted, snd_una, rmt_wnd, delivered, faults>>
        /\ UNCHANGED <<rcv_nxt, rcv_buf, rcv_queue, acklist, ask_tell>>
    BY <2>1 DEF receiver
  <2>5. \A sn \in acklist : (snd_nxt + n) - sn <= PacketLife
    BY <2>2, Zenon DEF Timely
  <2> HIDE DEF n, fresh, wask
  <2> QED BY <2>3, <2>4, <2>5, Zenon
<1>17. probing' \in BOOLEAN
  BY Zenon DEF SenderFlush
<1>3. /\ snd_queue \in Seq(Chunk)
      /\ \A k \in 1..Len(snd_queue) :
           /\ snd_queue[k] \in Chunk
           /\ snd_queue[k].data = snd_nxt + k - 1 /\ CountsDown(accepted, snd_queue[k])
  <2>1. snd_queue \in Seq(Chunk)
    BY DEF IInv, TypeOK
  <2>2. \A k \in 1..Len(snd_queue) : snd_queue[k] \in Chunk
    BY <2>1, ElementOfSeq
  <2> QED BY <2>1, <2>2 DEF IInv, SenderOK
<1>4. ASSUME NEW k \in 1..n
      PROVE  LET s == Numbered(n)[k]
             IN  /\ s \in Segment /\ s.sn = snd_nxt + k - 1
                 /\ s.data = s.sn /\ CountsDown(accepted, s)
  <2> HIDE DEF n
  <2>1. k \in 1..Len(snd_queue)
    BY <1>1
  <2>2. Numbered(n)[k] = [sn |-> snd_nxt + k - 1, data |-> snd_queue[k].data, frg |-> snd_queue[k].frg]
    BY DEF Numbered
  <2>3. snd_nxt + k - 1 \in Nat
    BY <1>1
  <2> QED BY <1>3, <2>1, <2>2, <2>3 DEF Segment, Chunk, CountsDown
<1> HIDE DEF n, fresh, wask
<1>5. ASSUME NEW s \in fresh
      PROVE  /\ s \in Segment /\ s.data = s.sn /\ CountsDown(accepted, s)
             /\ snd_nxt <= s.sn /\ s.sn < snd_nxt + n
  <2>1. PICK k \in 1..n : s = Numbered(n)[k]
    BY DEF fresh
  <2> QED BY <1>1, <1>4, <2>1
<1>6. ASSUME NEW s \in snd_buf
      PROVE  /\ s \in Segment /\ s.sn \in Nat /\ s.data = s.sn /\ CountsDown(accepted, s)
             /\ snd_una <= s.sn /\ s.sn < snd_nxt
  BY DEF IInv, TypeOK, SenderOK, Segment
<1>7. /\ snd_queue' \in Seq(Chunk)
      /\ Len(snd_queue') = Len(snd_queue) - n
      /\ \A k \in 1..Len(snd_queue') : snd_queue'[k] = snd_queue[n + k] /\ n + k \in 1..Len(snd_queue)
  <2>1. \A i \in (n + 1)..Len(snd_queue) : snd_queue[i] \in Chunk
    BY <1>1, <1>3
  <2>2. /\ SubSeq(snd_queue, n + 1, Len(snd_queue)) \in Seq(Chunk)
        /\ Len(SubSeq(snd_queue, n + 1, Len(snd_queue))) = Len(snd_queue) - n
        /\ \A k \in 1..(Len(snd_queue) - n) :
             SubSeq(snd_queue, n + 1, Len(snd_queue))[k] = snd_queue[n + k]
    BY <1>1, <1>3, <2>1
  <2> QED BY <1>1, <1>2, <2>2
<1>8. SenderOK'
  <2>1. snd_nxt' + Len(snd_queue') = ChunksAccepted'
    <3>1. ChunksAccepted' = ChunksAccepted
      BY <1>2 DEF ChunksAccepted
    <3>2. snd_nxt + Len(snd_queue) = ChunksAccepted
      BY DEF IInv, SenderOK
    <3>3. Len(snd_queue') = Len(snd_queue) - n
      BY <1>7, Zenon
    <3>4. snd_nxt' = snd_nxt + n /\ n \in Nat /\ snd_nxt \in Nat /\ Len(snd_queue) \in Nat
      BY <1>1, <1>2
    <3>5. (snd_nxt + n) + (Len(snd_queue) - n) = snd_nxt + Len(snd_queue)
      BY <3>4
    <3> QED BY <3>1, <3>2, <3>3, <3>4, <3>5
  <2>2. ASSUME NEW k \in 1..Len(snd_queue')
        PROVE  /\ snd_queue'[k].data = snd_nxt' + k - 1 /\ CountsDown(accepted', snd_queue'[k])
    <3>1. n + k \in 1..Len(snd_queue) /\ snd_queue'[k] = snd_queue[n + k] /\ k \in Nat
      BY <1>7
    <3>2. snd_queue[n + k].data = snd_nxt + (n + k) - 1
      BY <1>3, <3>1
    <3>3. CountsDown(accepted', snd_queue'[k])
      BY <1>2, <1>3, <3>1
    <3>4. snd_queue'[k].data = snd_nxt + (n + k) - 1
      BY <3>1, <3>2
    <3> QED BY <1>1, <1>2, <3>1, <3>3, <3>4
  <2>3. snd_una' <= snd_nxt' /\ snd_nxt' - snd_una' <= SndWnd
    BY <1>1, <1>2 DEF IInv, SenderOK
  <2>4. ASSUME NEW s \in snd_buf'
        PROVE  s.data = s.sn /\ CountsDown(accepted', s) /\ snd_una' <= s.sn /\ s.sn < snd_nxt'
    <3>1. CASE s \in snd_buf
      BY <1>1, <1>2, <1>6, <3>1
    <3>2. CASE s \in fresh
      <4>1. s.sn \in Nat
        BY <1>5, <3>2 DEF Segment
      <4>2. snd_una <= snd_nxt
        BY DEF IInv, SenderOK
      <4> QED BY <1>1, <1>2, <1>5, <3>2, <4>1, <4>2
    <3> QED BY <1>2, <3>1, <3>2
  <2> QED BY <2>1, <2>2, <2>3, <2>4 DEF SenderOK
<1>9. NothingForgotten'
  <2>1. ASSUME NEW sn \in Nat, sn < snd_nxt + n
        PROVE  Received(sn)' \/ \E s \in snd_buf' : s.sn = sn
    <3>1. CASE sn < snd_nxt
      <4>1. sn \in 0..(snd_nxt - 1)
        BY <1>1, <2>1, <3>1
      <4> QED BY <1>2, <4>1 DEF IInv, NothingForgotten, Received
    <3>2. CASE sn >= snd_nxt
      <4> DEFINE k == sn - snd_nxt + 1
      <4>1. k \in 1..n /\ sn = snd_nxt + k - 1
        BY <1>1, <2>1, <3>2
      <4> HIDE DEF k
      <4>2. Numbered(n)[k] \in fresh /\ Numbered(n)[k].sn = sn
        BY <1>4, <4>1 DEF fresh
      <4> QED BY <1>2, <4>2
    <3> QED BY <1>1, <2>1, <3>1, <3>2
  <2>2. \A sn \in 0..(snd_nxt' - 1) : sn \in Nat /\ sn < snd_nxt + n
    <3>1. snd_nxt' = snd_nxt + n
      BY <1>2
    <3> QED BY <1>1, <3>1
  <2> QED BY <2>1, <2>2 DEF NothingForgotten
<1>10. ASSUME NEW p \in net'
       PROVE  /\ p \in Packet /\ Fresh(p, snd_nxt')
              /\ p.cmd = "PUSH" => p.data = p.sn /\ CountsDown(accepted', p) /\ p.sn < snd_nxt'
              /\ p.cmd \in {"ACK", "WINS"} => p.una <= rcv_nxt'
              /\ p.cmd = "ACK" => Received(p.sn)'
  <2>1. Fresh(p, snd_nxt') /\ p \in net \cup wask \cup {Push(s) : s \in due \cup fresh}
    BY <1>2
  <2>2. CASE p \in net
    <3>1. /\ p \in Packet
          /\ p.cmd = "PUSH" => p.data = p.sn /\ CountsDown(accepted, p) /\ p.sn < snd_nxt
          /\ p.cmd \in {"ACK", "WINS"} => p.una <= rcv_nxt
          /\ p.cmd = "ACK" => Received(p.sn)
      BY <2>2 DEF IInv, TypeOK, NetOK, AcksAreTrue
    <3>2. p.cmd = "PUSH" => p.sn \in Nat
      BY <3>1 DEF Packet, PushPacket, AckPacket, WaskPacket, WinsPacket
    <3>3. p.cmd = "ACK" => Received(p.sn)'
      BY <1>2, <3>1 DEF Received
    <3> QED BY <1>1, <1>2, <2>1, <3>1, <3>2, <3>3
  <2>3. CASE p \in wask
    <3>1. p = [cmd |-> "WASK"]
      BY <2>3 DEF wask
    <3> QED BY <2>1, <3>1 DEF Packet, WaskPacket
  <2>4. CASE p \in {Push(s) : s \in due \cup fresh}
    <3>1. PICK s \in due \cup fresh : p = Push(s)
      BY <2>4
    <3>2. s \in snd_buf \/ s \in fresh
      BY <3>1
    <3>3. s \in Segment /\ s.data = s.sn /\ CountsDown(accepted, s) /\ s.sn < snd_nxt + n
      BY <1>1, <1>5, <1>6, <3>2
    <3>4. p = [cmd |-> "PUSH", sn |-> s.sn, data |-> s.data, frg |-> s.frg]
      BY <3>1 DEF Push
    <3>5. p \in PushPacket
      BY <3>3, <3>4 DEF PushPacket, Segment
    <3> QED BY <1>2, <2>1, <3>3, <3>4, <3>5 DEF Packet, CountsDown
  <2> QED BY <2>1, <2>2, <2>3, <2>4
<1>11. NetOK'
  <2>1. acklist' = acklist /\ snd_nxt' = snd_nxt + n
    BY <1>2
  <2>2. \A sn \in acklist' : snd_nxt' - sn <= PacketLife
    <3>1. \A sn \in acklist : (snd_nxt + n) - sn <= PacketLife
      BY <1>2
    <3> QED BY <2>1, <3>1, Zenon
  <2>3. \A p \in net' :
          /\ Fresh(p, snd_nxt')
          /\ p.cmd = "PUSH" => p.data = p.sn /\ CountsDown(accepted', p) /\ p.sn < snd_nxt'
          /\ p.cmd \in {"ACK", "WINS"} => p.una <= rcv_nxt'
    BY <1>10
  <2> QED BY <2>2, <2>3 DEF NetOK
<1>12. AcksAreTrue'
  <2>1. \A sn \in acklist' : Received(sn)'
    BY <1>2 DEF IInv, AcksAreTrue, Received
  <2> QED BY <1>10, <2>1 DEF AcksAreTrue
<1>13. ReceiverOK'
  <2>1. ASSUME NEW s \in rcv_buf PROVE s.sn < snd_nxt + n
    BY <1>1 DEF IInv, TypeOK, ReceiverOK, Segment
  <2> QED BY <1>1, <1>2, <2>1 DEF IInv, ReceiverOK
<1>14. InOrderExactlyOnce' /\ AcceptedOK' /\ DeliveredOK'
  BY <1>2 DEF IInv, InOrderExactlyOnce, AcceptedOK, DeliveredOK, ChunksAccepted
<1>15. TypeOK'
  <2>1. snd_nxt' \in Nat /\ probing' \in BOOLEAN
    BY <1>1, <1>2, <1>17
  <2>2. snd_buf' \subseteq Segment /\ net' \subseteq Packet
    BY <1>2, <1>5, <1>6, <1>10
  <2> QED BY <1>2, <1>7, <2>1, <2>2 DEF IInv, TypeOK
<1>16. snd_una' = snd_una /\ snd_nxt' >= snd_nxt /\ rcv_nxt' = rcv_nxt
  BY <1>1, <1>2
<1> QED BY <1>8, <1>9, <1>11, <1>12, <1>13, <1>14, <1>15, <1>16 DEF IInv

\* _flush() of the receiver preserves the invariant: it only states what has
\* been received.
LEMMA ReceiverFlushStep ==
  ASSUME IInv, ReceiverFlush
  PROVE  IInv' /\ snd_una' = snd_una /\ snd_nxt' = snd_nxt /\ rcv_nxt' = rcv_nxt
<1> DEFINE acks == {[cmd |-> "ACK", sn |-> sn, una |-> rcv_nxt, wnd |-> WndUnused] : sn \in acklist}
           wins == IF ask_tell THEN {[cmd |-> "WINS", una |-> rcv_nxt, wnd |-> WndUnused]} ELSE {}
<1>1. /\ net' = net \cup acks \cup wins
      /\ acklist' = {} /\ ask_tell' = FALSE
      /\ UNCHANGED <<accepted, rcv_nxt, rcv_buf, rcv_queue, delivered, faults>>
      /\ UNCHANGED <<snd_queue, snd_buf, snd_una, snd_nxt, rmt_wnd, probing>>
  BY DEF ReceiverFlush, sender
<1>2. rcv_nxt \in Nat /\ snd_nxt \in Nat /\ WndUnused \in Nat /\ acklist \subseteq Nat
  <2>1. Len(rcv_queue) \in Nat /\ RcvWnd \in Nat
    BY Lengths, WindowAssumption DEF IInv
  <2> QED BY <2>1 DEF IInv, TypeOK, WndUnused
<1>3. ASSUME NEW p \in net'
      PROVE  /\ p \in Packet /\ Fresh(p, snd_nxt)
             /\ p.cmd = "PUSH" => p.data = p.sn /\ CountsDown(accepted, p) /\ p.sn < snd_nxt
             /\ p.cmd \in {"ACK", "WINS"} => p.una <= rcv_nxt
             /\ p.cmd = "ACK" => Received(p.sn)
  <2>1. CASE p \in net
    BY <2>1 DEF IInv, TypeOK, NetOK, AcksAreTrue
  <2>2. CASE p \in acks
    <3>1. PICK sn \in acklist : p = [cmd |-> "ACK", sn |-> sn, una |-> rcv_nxt, wnd |-> WndUnused]
      BY <2>2
    <3>2. Received(sn) /\ snd_nxt - sn <= PacketLife /\ snd_nxt - rcv_nxt <= PacketLife
      BY UnaBound DEF IInv, AcksAreTrue, NetOK
    <3>3. p \in AckPacket
      BY <1>2, <3>1 DEF AckPacket
    <3> QED BY <1>2, <3>1, <3>2, <3>3 DEF Packet, Fresh
  <2>3. CASE p \in wins
    <3>1. p = [cmd |-> "WINS", una |-> rcv_nxt, wnd |-> WndUnused]
      BY <2>3
    <3>2. snd_nxt - rcv_nxt <= PacketLife
      BY UnaBound
    <3>3. p \in WinsPacket
      BY <1>2, <3>1 DEF WinsPacket
    <3> QED BY <1>2, <3>1, <3>2, <3>3 DEF Packet, Fresh
  <2> QED BY <1>1, <2>1, <2>2, <2>3
<1> HIDE DEF acks, wins
<1>4. NetOK' /\ AcksAreTrue'
  BY <1>1, <1>3 DEF NetOK, AcksAreTrue, Received
<1>5. TypeOK'
  BY <1>1, <1>3 DEF IInv, TypeOK
<1>6. SenderOK' /\ ReceiverOK' /\ NothingForgotten'
  BY <1>1 DEF IInv, SenderOK, ReceiverOK, NothingForgotten, Received, ChunksAccepted
<1>7. InOrderExactlyOnce' /\ AcceptedOK' /\ DeliveredOK'
  BY <1>1 DEF IInv, InOrderExactlyOnce, AcceptedOK, DeliveredOK, ChunksAccepted
<1> QED BY <1>1, <1>4, <1>5, <1>6, <1>7 DEF IInv

\* A step of the receiver's side alone: packets are consumed, segments pulled.
LEMMA ReceiverStepRest ==
  ASSUME IInv, net' \subseteq net, faults' \in Nat,
         UNCHANGED <<accepted, snd_queue, snd_buf, snd_una, snd_nxt, rmt_wnd, probing>>,
         rcv_nxt' \in Nat, rcv_nxt' >= rcv_nxt,
         \A sn \in Nat : Received(sn) => Received(sn)',
         \A sn \in acklist' : sn \in Nat /\ Received(sn)' /\ snd_nxt - sn <= PacketLife
  PROVE  SenderOK' /\ NetOK' /\ AcceptedOK' /\ NothingForgotten' /\ AcksAreTrue'
         /\ net' \subseteq Packet /\ acklist' \subseteq Nat
<1>1. rcv_nxt \in Nat /\ net \subseteq Packet
  BY DEF IInv, TypeOK
<1>2. SenderOK' /\ AcceptedOK'
  BY DEF IInv, SenderOK, AcceptedOK, ChunksAccepted
<1>3. ASSUME NEW p \in net'
      PROVE  /\ Fresh(p, snd_nxt')
             /\ p.cmd = "PUSH" => p.data = p.sn /\ CountsDown(accepted', p) /\ p.sn < snd_nxt'
             /\ p.cmd \in {"ACK", "WINS"} => p.una <= rcv_nxt'
             /\ p.cmd = "ACK" => Received(p.sn)'
  <2>1. p \in net /\ p \in Packet
    BY <1>1
  <2>2. /\ Fresh(p, snd_nxt)
        /\ p.cmd = "PUSH" => p.data = p.sn /\ CountsDown(accepted, p) /\ p.sn < snd_nxt
        /\ p.cmd \in {"ACK", "WINS"} => p.una <= rcv_nxt
        /\ p.cmd = "ACK" => Received(p.sn)
    BY <2>1 DEF IInv, NetOK, AcksAreTrue
  <2>3. p.cmd = "ACK" => p.sn \in Nat
    BY <2>1 DEF Packet, PushPacket, AckPacket, WaskPacket, WinsPacket
  <2>4. p.cmd \in {"ACK", "WINS"} => p.una \in Nat
    BY <2>1 DEF Packet, PushPacket, AckPacket, WaskPacket, WinsPacket
  <2> QED BY <1>1, <2>2, <2>3, <2>4
<1>4. NetOK' /\ AcksAreTrue'
  BY <1>3 DEF NetOK, AcksAreTrue
<1>5. NothingForgotten'
  <2> SUFFICES ASSUME NEW sn \in 0..(snd_nxt - 1)
               PROVE  Received(sn)' \/ \E s \in snd_buf : s.sn = sn
    BY DEF NothingForgotten
  <2>1. Received(sn) \/ \E s \in snd_buf : s.sn = sn
    BY DEF IInv, NothingForgotten
  <2> QED BY <2>1
<1> QED BY <1>1, <1>2, <1>4, <1>5

\* An arriving packet adds nothing to the network.
LEMMA ArrivesFacts ==
  ASSUME IInv, NEW p, Arrives(p)
  PROVE  net' \subseteq net /\ faults' \in Nat
BY DEF Arrives, IInv, TypeOK

\* input() of a PUSH preserves the invariant, inside the window or not.
LEMMA RecvPushStep ==
  ASSUME IInv, NEW p \in net, RecvPush(p)
  PROVE  IInv' /\ snd_una' = snd_una /\ snd_nxt' = snd_nxt /\ rcv_nxt' >= rcv_nxt
<1> DEFINE seg == [sn |-> p.sn, data |-> p.data, frg |-> p.frg]
           buf == IF Holds(rcv_buf, p.sn) THEN rcv_buf ELSE rcv_buf \cup {seg}
<1>1. /\ UNCHANGED <<accepted, snd_queue, snd_buf, snd_una, snd_nxt, rmt_wnd, probing>>
      /\ UNCHANGED <<ask_tell, delivered>>
  BY DEF RecvPush, sender
<1>2. net' \subseteq net /\ faults' \in Nat
  BY ArrivesFacts DEF RecvPush
<1>3. /\ p \in PushPacket
      /\ p.sn \in Nat /\ p.data = p.sn /\ CountsDown(accepted, p) /\ p.sn < snd_nxt
      /\ snd_nxt - p.sn <= PacketLife
  <2>1. p.cmd = "PUSH" /\ p \in Packet
    BY DEF RecvPush, IInv, TypeOK
  <2>2. p \in PushPacket
    BY <2>1 DEF Packet, PushPacket, AckPacket, WaskPacket, WinsPacket
  <2>3. p.sn \in Nat
    BY <2>2 DEF PushPacket
  <2> QED BY <2>1, <2>2, <2>3 DEF IInv, NetOK, Fresh
<1>4. /\ rcv_nxt \in Nat /\ snd_nxt \in Nat /\ rcv_buf \subseteq Segment
      /\ rcv_queue \in Seq(Segment) /\ Len(rcv_queue) \in Nat /\ snd_una \in Nat
      /\ rcv_nxt <= snd_nxt /\ Len(rcv_queue) <= rcv_nxt
      /\ snd_nxt - snd_una <= SndWnd /\ snd_una <= rcv_nxt + RcvWnd
  BY Lengths, UnaBound DEF IInv, TypeOK, ReceiverOK, SenderOK
<1>5. /\ Itimediff(p.sn, rcv_nxt + RcvWnd) = p.sn - (rcv_nxt + RcvWnd)
      /\ InWindow(p.sn) => rcv_nxt <= p.sn /\ p.sn < rcv_nxt + RcvWnd
      /\ p.sn < rcv_nxt + RcvWnd => InWindow(p.sn) \/ p.sn < rcv_nxt
  <2>1. Itimediff(p.sn, rcv_nxt + RcvWnd) = p.sn - (rcv_nxt + RcvWnd)
    <3>1. /\ p.sn \in Int /\ rcv_nxt + RcvWnd \in Int
          /\ 2 * (p.sn - (rcv_nxt + RcvWnd)) < SnMod
          /\ 2 * ((rcv_nxt + RcvWnd) - p.sn) <= SnMod
      BY <1>3, <1>4, SnAssumption, WindowAssumption
    <3> QED BY <3>1, DiffExact
  <2>2. Itimediff(p.sn, rcv_nxt) = p.sn - rcv_nxt
    <3>1. /\ p.sn \in Int /\ rcv_nxt \in Int
          /\ 2 * (p.sn - rcv_nxt) < SnMod
          /\ 2 * (rcv_nxt - p.sn) <= SnMod
      BY <1>3, <1>4, SnAssumption, WindowAssumption
    <3> QED BY <3>1, DiffExact
  <2> QED BY <1>3, <1>4, <2>1, <2>2, WindowAssumption DEF InWindow
<1>6. \A s \in rcv_buf : /\ s.data = s.sn /\ CountsDown(accepted, s) /\ s.sn \in Nat
                        /\ rcv_nxt <= s.sn /\ s.sn < rcv_nxt + RcvWnd /\ s.sn < snd_nxt
  BY <1>4 DEF IInv, ReceiverOK, Segment
<1>7. CASE InWindow(p.sn)
  <2>0. rcv_nxt <= p.sn /\ p.sn < rcv_nxt + RcvWnd
    BY <1>5, <1>7
  <2>1. seg \in Segment /\ seg.sn = p.sn /\ seg.data = seg.sn /\ CountsDown(accepted, seg)
    BY <1>3 DEF Segment, PushPacket, CountsDown
  <2>2. \A s \in rcv_buf : Itimediff(s.sn, p.sn) = s.sn - p.sn
    <3> TAKE s \in rcv_buf
    <3>1. /\ s.sn \in Int /\ p.sn \in Int
          /\ 2 * (s.sn - p.sn) < SnMod
          /\ 2 * (p.sn - s.sn) <= SnMod
      BY <1>3, <1>4, <1>6, <2>0, SnAssumption, WindowAssumption, SMTT(40)
    <3> QED BY <3>1, DiffExact
  <2>3. Holds(rcv_buf, p.sn) <=> \E s \in rcv_buf : s.sn = p.sn
    BY <1>3, <1>6, <2>2 DEF Holds
  <2> HIDE DEF seg
  <2>4. /\ buf \subseteq Segment /\ rcv_buf \subseteq buf
        /\ \A s \in buf : /\ s.data = s.sn /\ CountsDown(accepted, s)
                          /\ rcv_nxt <= s.sn /\ s.sn < rcv_nxt + RcvWnd /\ s.sn < snd_nxt
    BY <1>3, <1>4, <1>6, <2>0, <2>1
  <2>5. \A s, t \in buf : s.sn = t.sn => s = t
    <3>1. \A s, t \in rcv_buf : s.sn = t.sn => s = t
      BY DEF IInv, ReceiverOK
    <3> QED BY <2>1, <2>3, <3>1
  <2>6. \E s \in buf : s.sn = p.sn
    BY <2>1, <2>3
  <2>7. Pull(buf, rcv_queue)
    BY <1>7 DEF RecvPush, seg
  <2> HIDE DEF buf
  <2>8. \A k \in 1..Len(rcv_queue) : /\ rcv_queue[k].data = rcv_nxt - Len(rcv_queue) + k - 1
                                    /\ CountsDown(accepted, rcv_queue[k])
    BY DEF IInv, ReceiverOK
  <2>9. /\ ReceiverOK'
        /\ rcv_nxt' \in Nat /\ rcv_nxt' >= rcv_nxt
        /\ rcv_buf' \subseteq Segment /\ rcv_queue' \in Seq(Segment)
        /\ rcv_nxt' - Len(rcv_queue') = rcv_nxt - Len(rcv_queue)
        /\ \A s \in buf : Received(s.sn)'
        /\ \A sn \in Nat : Received(sn) => Received(sn)'
    BY <1>1, <1>4, <2>4, <2>5, <2>7, <2>8, PullPreserves
  <2>10. Received(p.sn)'
    BY <2>6, <2>9
  <2>11. acklist' \subseteq acklist \cup {p.sn}
    BY DEF RecvPush
  <2>12. \A sn \in acklist' : sn \in Nat /\ Received(sn)' /\ snd_nxt - sn <= PacketLife
    <3> TAKE sn \in acklist'
    <3>1. CASE sn \in acklist
      BY <2>9, <3>1 DEF IInv, TypeOK, AcksAreTrue, NetOK
    <3>2. CASE sn = p.sn
      BY <1>3, <2>10, <3>2
    <3> QED BY <2>11, <3>1, <3>2
  <2>13. SenderOK' /\ NetOK' /\ AcceptedOK' /\ NothingForgotten' /\ AcksAreTrue'
         /\ net' \subseteq Packet /\ acklist' \subseteq Nat
    BY <1>1, <1>2, <2>9, <2>12, ReceiverStepRest
  <2>14. InOrderExactlyOnce' /\ DeliveredOK'
    BY <1>1, <2>9 DEF IInv, InOrderExactlyOnce, DeliveredOK, ChunksAccepted
  <2>15. TypeOK'
    BY <1>1, <1>2, <2>9, <2>13 DEF IInv, TypeOK
  <2> QED BY <1>1, <2>9, <2>13, <2>14, <2>15 DEF IInv
<1>8. CASE ~ InWindow(p.sn)
  <2>1. UNCHANGED <<rcv_nxt, rcv_buf, rcv_queue>>
    BY <1>8 DEF RecvPush
  <2>2. \A sn \in Nat : Received(sn) => Received(sn)'
    BY <2>1 DEF Received
  <2>3. \A sn \in acklist' : sn \in acklist \/ (sn = p.sn /\ p.sn < rcv_nxt)
    <3>1. acklist' = IF Itimediff(p.sn, rcv_nxt + RcvWnd) < 0 THEN acklist \cup {p.sn} ELSE acklist
      BY DEF RecvPush
    <3>2. Itimediff(p.sn, rcv_nxt + RcvWnd) < 0 => p.sn < rcv_nxt + RcvWnd
      BY <1>3, <1>4, <1>5, WindowAssumption
    <3> QED BY <1>5, <1>8, <3>1, <3>2
  <2>4. \A sn \in acklist' : sn \in Nat /\ Received(sn)' /\ snd_nxt - sn <= PacketLife
    <3> TAKE sn \in acklist'
    <3>1. CASE sn \in acklist
      BY <2>2, <3>1 DEF IInv, TypeOK, AcksAreTrue, NetOK
    <3>2. CASE sn = p.sn /\ p.sn < rcv_nxt
      BY <1>3, <2>1, <3>2 DEF Received
    <3> QED BY <2>3, <3>1, <3>2
  <2>5. SenderOK' /\ NetOK' /\ AcceptedOK' /\ NothingForgotten' /\ AcksAreTrue'
        /\ net' \subseteq Packet /\ acklist' \subseteq Nat
    BY <1>1, <1>2, <1>4, <2>1, <2>2, <2>4, ReceiverStepRest
  <2>6. InOrderExactlyOnce' /\ DeliveredOK' /\ ReceiverOK'
    BY <1>1, <2>1 DEF IInv, InOrderExactlyOnce, DeliveredOK, ReceiverOK, ChunksAccepted
  <2>7. TypeOK'
    BY <1>1, <1>2, <2>1, <2>5 DEF IInv, TypeOK
  <2> QED BY <1>1, <1>4, <2>1, <2>5, <2>6, <2>7 DEF IInv
<1> QED BY <1>7, <1>8

\* A step of the sender's side alone: acknowledged segments leave snd_buf.
LEMMA SenderStepRest ==
  ASSUME IInv, net' \subseteq net, faults' \in Nat, rmt_wnd' \in Nat,
         NEW buf, buf \subseteq snd_buf,
         \A s \in snd_buf : s \in buf \/ Received(s.sn),
         snd_buf' = buf, snd_una' = ShrinkBuf(buf, snd_nxt),
         UNCHANGED <<accepted, snd_queue, snd_nxt, probing, delivered>>,
         UNCHANGED <<rcv_nxt, rcv_buf, rcv_queue, acklist, ask_tell>>
  PROVE  IInv' /\ snd_una' >= snd_una /\ snd_nxt' = snd_nxt /\ rcv_nxt' = rcv_nxt
<1>1. /\ snd_una \in Nat /\ snd_nxt \in Nat /\ snd_buf \subseteq Segment /\ buf \subseteq Segment
      /\ snd_una <= snd_nxt /\ snd_nxt - snd_una <= SndWnd
      /\ \A s \in buf : snd_una <= s.sn /\ s.sn < snd_nxt /\ s.sn \in Nat
  BY DEF IInv, TypeOK, SenderOK, Segment
<1>2. /\ snd_una' \in Nat
      /\ \A s \in buf : snd_una' <= s.sn
      /\ buf = {} => snd_una' = snd_nxt
      /\ buf # {} => \E s \in buf : snd_una' = s.sn
  BY <1>1, ShrinkBufFacts
<1>3. snd_una' >= snd_una /\ snd_una' <= snd_nxt /\ snd_nxt - snd_una' <= SndWnd
  <2>1. CASE buf = {}
    BY <1>1, <1>2, <2>1, WindowAssumption
  <2>2. CASE buf # {}
    BY <1>1, <1>2, <2>2, WindowAssumption
  <2> QED BY <2>1, <2>2
<1>4. SenderOK'
  BY <1>2, <1>3 DEF IInv, SenderOK, ChunksAccepted
<1>5. NothingForgotten'
  BY DEF IInv, NothingForgotten, Received
<1>6. NetOK' /\ AcksAreTrue' /\ ReceiverOK'
  BY DEF IInv, NetOK, AcksAreTrue, ReceiverOK, Received
<1>7. InOrderExactlyOnce' /\ AcceptedOK' /\ DeliveredOK'
  BY DEF IInv, InOrderExactlyOnce, AcceptedOK, DeliveredOK, ChunksAccepted
<1>8. TypeOK'
  BY <1>1, <1>2 DEF IInv, TypeOK
<1> QED BY <1>3, <1>4, <1>5, <1>6, <1>7, <1>8 DEF IInv

\* una releases only segments the receiver has moved past.
LEMMA ParseUnaFacts ==
  ASSUME IInv, NEW una \in Nat, una <= rcv_nxt, snd_nxt - una <= PacketLife
  PROVE  /\ ParseUna(snd_buf, una) \subseteq snd_buf
         /\ \A s \in snd_buf : s \in ParseUna(snd_buf, una) \/ s.sn < rcv_nxt
<1>1. /\ snd_una \in Nat /\ snd_nxt \in Nat /\ rcv_nxt \in Nat
      /\ rcv_nxt <= snd_nxt /\ snd_nxt - snd_una <= SndWnd
      /\ \A s \in snd_buf : snd_una <= s.sn /\ s.sn < snd_nxt /\ s.sn \in Nat
  BY DEF IInv, TypeOK, SenderOK, ReceiverOK, Segment
<1>2. ASSUME NEW s \in snd_buf, s \notin ParseUna(snd_buf, una)
      PROVE  s.sn < rcv_nxt
  <2>1. s.sn <= s.sn
    BY <1>1
  <2>2. ~ (Itimediff(una, s.sn) <= 0)
    BY <1>2, <2>1 DEF ParseUna
  <2>3. Itimediff(una, s.sn) = una - s.sn
    <3>1. /\ una \in Int /\ s.sn \in Int
          /\ 2 * (una - s.sn) < SnMod
          /\ 2 * (s.sn - una) <= SnMod
      BY <1>1, SnAssumption, WindowAssumption
    <3> QED BY <3>1, DiffExact
  <2> QED BY <1>1, <2>2, <2>3
<1> QED BY <1>2 DEF ParseUna

\* input() of an ACK preserves the invariant: una and sn both name segments
\* the receiver has.
LEMMA RecvAckStep ==
  ASSUME IInv, NEW p \in net, RecvAck(p)
  PROVE  IInv' /\ snd_una' >= snd_una /\ snd_nxt' = snd_nxt /\ rcv_nxt' = rcv_nxt
<1> DEFINE afterUna == ParseUna(snd_buf, p.una)
           afterAck == ParseAck(afterUna, ShrinkBuf(afterUna, snd_nxt), snd_nxt, p.sn)
<1>1. /\ snd_buf' = afterAck /\ snd_una' = ShrinkBuf(afterAck, snd_nxt) /\ rmt_wnd' = p.wnd
      /\ UNCHANGED <<accepted, snd_queue, snd_nxt, probing, delivered>>
      /\ UNCHANGED <<rcv_nxt, rcv_buf, rcv_queue, acklist, ask_tell>>
  BY DEF RecvAck, receiver
<1>2. net' \subseteq net /\ faults' \in Nat
  BY ArrivesFacts DEF RecvAck
<1>3. /\ p.sn \in Nat /\ p.una \in Nat /\ p.wnd \in Nat
      /\ p.una <= rcv_nxt /\ Received(p.sn)
      /\ snd_nxt - p.sn <= PacketLife /\ snd_nxt - p.una <= PacketLife
  <2>1. p.cmd = "ACK" /\ p \in Packet
    BY DEF RecvAck, IInv, TypeOK
  <2>2. p \in AckPacket
    BY <2>1 DEF Packet, PushPacket, AckPacket, WaskPacket, WinsPacket
  <2>3. p.sn \in Nat /\ p.una \in Nat /\ p.wnd \in Nat
    BY <2>2 DEF AckPacket
  <2> QED BY <2>1, <2>3 DEF IInv, NetOK, AcksAreTrue, Fresh
<1>4. /\ snd_una \in Nat /\ snd_nxt \in Nat /\ rcv_nxt \in Nat
      /\ rcv_nxt <= snd_nxt /\ snd_nxt - snd_una <= SndWnd
      /\ \A s \in snd_buf : snd_una <= s.sn /\ s.sn < snd_nxt /\ s.sn \in Nat
      /\ \A s \in rcv_buf : s.sn < snd_nxt
  BY DEF IInv, TypeOK, SenderOK, ReceiverOK, Segment
<1>5. afterUna \subseteq snd_buf /\ \A s \in snd_buf : s \in afterUna \/ s.sn < rcv_nxt
  BY <1>3, ParseUnaFacts
<1>6. p.sn < snd_nxt
  BY <1>3, <1>4 DEF Received
<1> HIDE DEF afterUna
<1>7. \A s \in afterUna : s \in afterAck \/ s.sn = p.sn
  <2> TAKE s \in afterUna
  <2>1. Itimediff(p.sn, s.sn) = p.sn - s.sn
    <3>1. /\ p.sn \in Int /\ s.sn \in Int
          /\ 2 * (p.sn - s.sn) < SnMod
          /\ 2 * (s.sn - p.sn) <= SnMod
      BY <1>3, <1>4, <1>5, <1>6, SnAssumption, WindowAssumption
    <3> QED BY <3>1, DiffExact
  <2>2. s \in afterAck \/ Itimediff(p.sn, s.sn) = 0
    BY DEF ParseAck
  <2> QED BY <1>3, <1>4, <1>5, <2>1, <2>2
<1>8. afterAck \subseteq afterUna
  BY DEF ParseAck
<1> HIDE DEF afterAck
<1>9. \A s \in snd_buf : s \in afterAck \/ Received(s.sn)
  BY <1>3, <1>5, <1>7 DEF Received
<1>10. afterAck \subseteq snd_buf
  BY <1>5, <1>8
<1> QED BY <1>1, <1>2, <1>3, <1>9, <1>10, SenderStepRest

\* input() of a WINS preserves the invariant.
LEMMA RecvWinsStep ==
  ASSUME IInv, NEW p \in net, RecvWins(p)
  PROVE  IInv' /\ snd_una' >= snd_una /\ snd_nxt' = snd_nxt /\ rcv_nxt' = rcv_nxt
<1> DEFINE afterUna == ParseUna(snd_buf, p.una)
<1>1. /\ snd_buf' = afterUna /\ snd_una' = ShrinkBuf(afterUna, snd_nxt) /\ rmt_wnd' = p.wnd
      /\ UNCHANGED <<accepted, snd_queue, snd_nxt, probing, delivered>>
      /\ UNCHANGED <<rcv_nxt, rcv_buf, rcv_queue, acklist, ask_tell>>
  BY DEF RecvWins, receiver
<1>2. net' \subseteq net /\ faults' \in Nat
  BY ArrivesFacts DEF RecvWins
<1>3. p.una \in Nat /\ p.wnd \in Nat /\ p.una <= rcv_nxt /\ snd_nxt - p.una <= PacketLife
  <2>1. p.cmd = "WINS" /\ p \in Packet
    BY DEF RecvWins, IInv, TypeOK
  <2>2. p \in WinsPacket
    BY <2>1 DEF Packet, PushPacket, AckPacket, WaskPacket, WinsPacket
  <2>3. p.una \in Nat /\ p.wnd \in Nat
    BY <2>2 DEF WinsPacket
  <2> QED BY <2>1, <2>3 DEF IInv, NetOK, Fresh
<1>4. afterUna \subseteq snd_buf /\ \A s \in snd_buf : s \in afterUna \/ s.sn < rcv_nxt
  BY <1>3, ParseUnaFacts
<1> HIDE DEF afterUna
<1>5. \A s \in snd_buf : s \in afterUna \/ Received(s.sn)
  BY <1>4 DEF Received
<1> QED BY <1>1, <1>2, <1>3, <1>4, <1>5, SenderStepRest

\* A packet disappears, or a WASK is taken note of: nothing else moves.
LEMMA QuietStep ==
  ASSUME IInv, net' \subseteq net, faults' \in Nat, ask_tell' \in BOOLEAN,
         UNCHANGED <<accepted, sender, rcv_nxt, rcv_buf, rcv_queue, acklist, delivered>>
  PROVE  IInv' /\ snd_una' = snd_una /\ snd_nxt' = snd_nxt /\ rcv_nxt' = rcv_nxt
<1>1. /\ UNCHANGED <<accepted, snd_queue, snd_buf, snd_una, snd_nxt, rmt_wnd, probing>>
      /\ UNCHANGED <<rcv_nxt, rcv_buf, rcv_queue, acklist, delivered>>
  BY DEF sender
<1>2. SenderOK' /\ ReceiverOK' /\ NothingForgotten'
  BY <1>1 DEF IInv, SenderOK, ReceiverOK, NothingForgotten, Received, ChunksAccepted
<1>3. InOrderExactlyOnce' /\ AcceptedOK' /\ DeliveredOK'
  BY <1>1 DEF IInv, InOrderExactlyOnce, AcceptedOK, DeliveredOK, ChunksAccepted
<1>4. NetOK' /\ AcksAreTrue'
  BY <1>1 DEF IInv, NetOK, AcksAreTrue, Received
<1>5. TypeOK'
  BY <1>1 DEF IInv, TypeOK
<1> QED BY <1>1, <1>2, <1>3, <1>4, <1>5 DEF IInv

\* What recv() assembles is the next message: the first segment in rcv_queue is
\* the first chunk of it, frg tells how many follow, and no earlier chunk has
\* frg = 0.
LEMMA NextMessage ==
  ASSUME IInv, rcv_queue # <<>>, MessageComplete,
         NEW k \in 1..Len(rcv_queue), MessageEnd(k)
  PROVE  LET m == Len(delivered) + 1
         IN  /\ m \in 1..Len(accepted)
             /\ k = Len(accepted[m])
             /\ accepted[m][1] = rcv_nxt - Len(rcv_queue)
             /\ [j \in 1..k |-> rcv_queue[j].data] = accepted[m]
<1> DEFINE m == Len(delivered) + 1
           d0 == rcv_nxt - Len(rcv_queue)
           c == Len(accepted[m])
<1>1. /\ Len(rcv_queue) \in Nat /\ Len(rcv_queue) >= 1 /\ rcv_queue \in Seq(Segment)
      /\ Len(delivered) \in Nat /\ Len(accepted) \in Nat /\ Len(delivered) <= Len(accepted)
      /\ rcv_nxt \in Nat /\ snd_nxt \in Nat /\ Len(snd_queue) \in Nat
      /\ rcv_nxt <= snd_nxt /\ Len(rcv_queue) <= rcv_nxt
  BY Lengths DEF IInv, TypeOK, ReceiverOK, InOrderExactlyOnce
<1>2. Len(delivered) < Len(accepted)
  <2>1. d0 < ChunksAccepted
    BY <1>1 DEF IInv, SenderOK
  <2>2. CASE Len(delivered) = Len(accepted)
    BY <1>1, <2>1, <2>2 DEF IInv, DeliveredOK, AcceptedOK
  <2> QED BY <1>1, <2>2
<1>3. m \in 1..Len(accepted)
  BY <1>1, <1>2
<1>4. d0 \in Nat /\ accepted[m][1] = d0
  BY <1>1, <1>2 DEF IInv, DeliveredOK
<1>5. accepted[m] \in Seq(Nat) /\ c \in Nat /\ c >= 1
      /\ \A i \in 1..c : accepted[m][i] = d0 + i - 1
  <2>1. accepted[m] \in Seq(Nat)
    BY <1>3 DEF IInv, TypeOK
  <2> QED BY <1>3, <1>4, <2>1 DEF IInv, AcceptedOK
<1>6. \A j \in 1..Len(rcv_queue) : /\ rcv_queue[j].data = d0 + j - 1
                                  /\ CountsDown(accepted, rcv_queue[j])
  BY DEF IInv, ReceiverOK
<1> HIDE DEF m, d0, c
<1>7. \A j \in 1..Len(rcv_queue) : j <= c => rcv_queue[j].frg = c - j
  <2> SUFFICES ASSUME NEW j \in 1..Len(rcv_queue), j <= c
               PROVE  rcv_queue[j].frg = c - j
    OBVIOUS
  <2>1. j \in 1..c
    BY <1>1, <1>5
  <2>2. accepted[m][j] = rcv_queue[j].data
    BY <1>5, <1>6, <2>1
  <2> QED BY <1>3, <1>6, <2>1, <2>2 DEF CountsDown, c
<1>8. Len(rcv_queue) >= c
  <2>1. rcv_queue[1].frg = c - 1
    BY <1>1, <1>5, <1>7
  <2> QED BY <1>1, <1>5, <2>1 DEF MessageComplete
<1>9. k = c
  <2>1. rcv_queue[k].frg = 0 \/ k = Len(rcv_queue)
    BY DEF MessageEnd
  <2>2. \A j \in 1..(k - 1) : rcv_queue[j].frg # 0
    BY DEF MessageEnd
  <2>3. CASE k > c
    <3>1. c \in 1..(k - 1) /\ c \in 1..Len(rcv_queue)
      BY <1>1, <1>5, <1>8, <2>3
    <3>2. rcv_queue[c].frg = 0
      BY <1>5, <1>7, <3>1
    <3> QED BY <2>2, <3>1, <3>2
  <2>4. CASE k < c
    <3>1. rcv_queue[k].frg = c - k
      BY <1>1, <1>5, <1>7, <2>4
    <3> QED BY <1>1, <1>5, <1>8, <2>1, <2>4, <3>1
  <2> QED BY <1>1, <1>5, <2>3, <2>4
<1>10. [j \in 1..k |-> rcv_queue[j].data] = accepted[m]
  <2>1. \A j \in 1..c : rcv_queue[j].data = accepted[m][j]
    <3> TAKE j \in 1..c
    <3>1. j \in 1..Len(rcv_queue)
      BY <1>1, <1>5, <1>8
    <3> QED BY <1>5, <1>6, <3>1
  <2>2. accepted[m] = [j \in 1..c |-> accepted[m][j]]
    BY <1>5 DEF c
  <2> QED BY <1>9, <2>1, <2>2
<1> QED BY <1>3, <1>4, <1>9, <1>10 DEF m, c, d0

\* recv() preserves the invariant: what it returns is the next message.
LEMMA RecvStep ==
  ASSUME IInv, Recv
  PROVE  IInv' /\ snd_una' = snd_una /\ snd_nxt' = snd_nxt /\ rcv_nxt' >= rcv_nxt
<1>1. PICK k \in 1..Len(rcv_queue) :
        /\ MessageEnd(k)
        /\ delivered' = Append(delivered, [j \in 1..k |-> rcv_queue[j].data])
        /\ Pull(rcv_buf, SubSeq(rcv_queue, k + 1, Len(rcv_queue)))
  BY DEF Recv
<1>2. /\ rcv_queue # <<>> /\ MessageComplete
      /\ UNCHANGED <<accepted, snd_queue, snd_buf, snd_una, snd_nxt, rmt_wnd, probing>>
      /\ UNCHANGED <<acklist, ask_tell, net, faults>>
  BY DEF Recv, sender
<1> DEFINE m == Len(delivered) + 1
           queue == SubSeq(rcv_queue, k + 1, Len(rcv_queue))
<1>3. /\ m \in 1..Len(accepted)
      /\ k = Len(accepted[m])
      /\ accepted[m][1] = rcv_nxt - Len(rcv_queue)
      /\ [j \in 1..k |-> rcv_queue[j].data] = accepted[m]
  BY <1>1, <1>2, NextMessage
<1>4. /\ rcv_queue \in Seq(Segment) /\ Len(rcv_queue) \in Nat
      /\ rcv_nxt \in Nat /\ snd_nxt \in Nat /\ Len(rcv_queue) <= rcv_nxt
      /\ Len(delivered) \in Nat /\ Len(accepted) \in Nat
      /\ rcv_buf \subseteq Segment /\ delivered \in Seq(Seq(Nat)) /\ accepted \in Seq(Seq(Nat))
  BY Lengths DEF IInv, TypeOK, ReceiverOK
<1>5. /\ queue \in Seq(Segment)
      /\ Len(queue) = Len(rcv_queue) - k
      /\ \A j \in 1..Len(queue) : queue[j] = rcv_queue[k + j] /\ k + j \in 1..Len(rcv_queue)
  <2>1. \A i \in (k + 1)..Len(rcv_queue) : rcv_queue[i] \in Segment
    BY <1>4
  <2> QED BY <1>4, <2>1
<1> HIDE DEF queue
<1>6. \A j \in 1..Len(queue) : /\ queue[j].data = rcv_nxt - Len(queue) + j - 1
                              /\ CountsDown(accepted, queue[j])
  <2> TAKE j \in 1..Len(queue)
  <2>1. queue[j] = rcv_queue[k + j] /\ k + j \in 1..Len(rcv_queue) /\ j \in Nat
    BY <1>5
  <2>2. /\ rcv_queue[k + j].data = rcv_nxt - Len(rcv_queue) + (k + j) - 1
        /\ CountsDown(accepted, rcv_queue[k + j])
    BY <2>1 DEF IInv, ReceiverOK
  <2>3. rcv_nxt - Len(queue) + j - 1 = rcv_nxt - Len(rcv_queue) + (k + j) - 1
    BY <1>4, <1>5, <2>1
  <2> QED BY <2>1, <2>2, <2>3
<1>7. /\ ReceiverOK'
      /\ rcv_nxt' \in Nat /\ rcv_nxt' >= rcv_nxt
      /\ rcv_buf' \subseteq Segment /\ rcv_queue' \in Seq(Segment)
      /\ rcv_nxt' - Len(rcv_queue') = rcv_nxt - Len(queue)
      /\ \A sn \in Nat : Received(sn) => Received(sn)'
  <2>1. \A s \in rcv_buf : /\ s.data = s.sn /\ CountsDown(accepted, s)
                          /\ rcv_nxt <= s.sn /\ s.sn < rcv_nxt + RcvWnd /\ s.sn < snd_nxt
    BY DEF IInv, ReceiverOK
  <2>2. \A s, t \in rcv_buf : s.sn = t.sn => s = t
    BY DEF IInv, ReceiverOK
  <2>3. Len(queue) <= rcv_nxt /\ Pull(rcv_buf, queue)
    BY <1>1, <1>4, <1>5 DEF queue
  <2> QED BY <1>2, <1>4, <1>5, <1>6, <2>1, <2>2, <2>3, PullPreserves
<1>8. \A sn \in acklist' : sn \in Nat /\ Received(sn)' /\ snd_nxt - sn <= PacketLife
  BY <1>2, <1>7 DEF IInv, TypeOK, AcksAreTrue, NetOK
<1>9. SenderOK' /\ NetOK' /\ AcceptedOK' /\ NothingForgotten' /\ AcksAreTrue'
      /\ net' \subseteq Packet /\ acklist' \subseteq Nat
  <2>1. net' \subseteq net /\ faults' \in Nat
    BY <1>2 DEF IInv, TypeOK
  <2> QED BY <1>2, <1>7, <1>8, <2>1, ReceiverStepRest
<1>10. /\ delivered' \in Seq(Seq(Nat)) /\ Len(delivered') = m
       /\ \A i \in 1..Len(delivered) : delivered'[i] = delivered[i]
       /\ delivered'[m] = accepted[m]
  <2>1. accepted[m] \in Seq(Nat) /\ delivered' = Append(delivered, accepted[m])
    BY <1>1, <1>3, <1>4
  <2> QED BY <1>4, <2>1
<1>11. InOrderExactlyOnce'
  <2>1. \A i \in 1..Len(delivered) : delivered[i] = accepted[i]
    BY DEF IInv, InOrderExactlyOnce
  <2>2. \A i \in 1..m : i \in 1..Len(delivered) \/ i = m
    BY <1>4
  <2>3. \A i \in 1..Len(delivered') : delivered'[i] = accepted'[i]
    BY <1>2, <1>10, <2>1, <2>2
  <2>4. Len(delivered') <= Len(accepted')
    BY <1>2, <1>3, <1>4, <1>10
  <2> QED BY <2>3, <2>4 DEF InOrderExactlyOnce
<1>12. DeliveredOK'
  <2>1. rcv_nxt' - Len(rcv_queue') = accepted[m][1] + Len(accepted[m])
    <3>1. rcv_nxt - Len(queue) = (rcv_nxt - Len(rcv_queue)) + k
      BY <1>4, <1>5
    <3> QED BY <1>3, <1>7, <3>1
  <2>2. accepted' = accepted /\ ChunksAccepted' = ChunksAccepted
    BY <1>2 DEF ChunksAccepted
  <2>3. /\ m < Len(accepted) => accepted[m + 1][1] = accepted[m][1] + Len(accepted[m])
        /\ m = Len(accepted) => ChunksAccepted = accepted[m][1] + Len(accepted[m])
    BY <1>3 DEF IInv, AcceptedOK
  <2>4. CASE m < Len(accepted)
    BY <1>10, <2>1, <2>2, <2>3, <2>4 DEF DeliveredOK
  <2>5. CASE m = Len(accepted)
    BY <1>4, <1>10, <2>1, <2>2, <2>3, <2>5 DEF DeliveredOK
  <2> QED BY <1>3, <1>4, <2>4, <2>5
<1>13. TypeOK'
  BY <1>2, <1>7, <1>9, <1>10 DEF IInv, TypeOK
<1> QED BY <1>2, <1>7, <1>9, <1>11, <1>12, <1>13 DEF IInv

-----------------------------------------------------------------------------
\* Every action preserves the invariant.
LEMMA NextStep ==
  ASSUME IInv, Next
  PROVE  IInv' /\ snd_una' >= snd_una /\ snd_nxt' >= snd_nxt /\ rcv_nxt' >= rcv_nxt
<1>0. snd_una \in Nat /\ snd_nxt \in Nat /\ rcv_nxt \in Nat
  BY DEF IInv, TypeOK
<1>1. CASE SomeSend
  <2>1. PICK count \in 1..MaxFragments : Send(count)
    BY <1>1 DEF SomeSend
  <2>2. UNCHANGED <<snd_una, snd_nxt, rcv_nxt>>
    BY <2>1 DEF Send, receiver
  <2> QED BY <1>0, <2>1, <2>2, SendStep
<1>2. CASE SomeFlush /\ NetSmall'
  <2>1. PICK due \in SUBSET snd_buf, probeDue \in BOOLEAN : SenderFlush(due, probeDue)
    BY <1>2 DEF SomeFlush
  <2> QED BY <1>0, <2>1, SenderFlushStep
<1>3. CASE ReceiverFlush /\ NetSmall'
  BY <1>0, <1>3, ReceiverFlushStep
<1>4. CASE \E p \in net : Input(p)
  <2>1. PICK p \in net : Input(p)
    BY <1>4
  <2>2. CASE RecvPush(p)
    BY <1>0, <2>2, RecvPushStep
  <2>3. CASE RecvWask(p)
    <3>1. /\ ask_tell' \in BOOLEAN
          /\ UNCHANGED <<accepted, sender, rcv_nxt, rcv_buf, rcv_queue, acklist, delivered>>
      BY <2>3 DEF RecvWask
    <3>2. net' \subseteq net /\ faults' \in Nat
      BY <2>3, ArrivesFacts DEF RecvWask
    <3> QED BY <1>0, <3>1, <3>2, QuietStep
  <2>4. CASE RecvAck(p)
    BY <1>0, <2>4, RecvAckStep
  <2>5. CASE RecvWins(p)
    BY <1>0, <2>5, RecvWinsStep
  <2> QED BY <2>1, <2>2, <2>3, <2>4, <2>5 DEF Input
<1>5. CASE Recv
  BY <1>0, <1>5, RecvStep
<1>6. CASE \E p \in net : Lose(p)
  <2>1. /\ net' \subseteq net /\ faults' \in Nat /\ ask_tell' \in BOOLEAN
        /\ UNCHANGED <<accepted, sender, rcv_nxt, rcv_buf, rcv_queue, acklist, delivered>>
    BY <1>6 DEF Lose, IInv, TypeOK, receiver
  <2> QED BY <1>0, <2>1, QuietStep
<1> QED BY <1>1, <1>2, <1>3, <1>4, <1>5, <1>6 DEF Next

\* So does a step that changes nothing.
LEMMA StutterStep ==
  ASSUME IInv, UNCHANGED vars
  PROVE  IInv'
<1>1. /\ net' \subseteq net /\ faults' \in Nat /\ ask_tell' \in BOOLEAN
      /\ UNCHANGED <<accepted, sender, rcv_nxt, rcv_buf, rcv_queue, acklist, delivered>>
  BY DEF vars, receiver, IInv, TypeOK
<1> QED BY <1>1, QuietStep

\* The invariant of the link: numbers and chunks agree everywhere, what the
\* sender let go the receiver has, and the network holds only true statements.
THEOREM LinkInvariant == Spec => []IInv
<1>1. IInv /\ [Next]_vars => IInv'
  BY NextStep, StutterStep
<1> QED BY <1>1, InitInvariant, PTL DEF Spec

\* The fields of the two PythonKCP objects keep their types.
THEOREM LinkTypes == Spec => []TypeOK
<1>1. IInv => TypeOK
  BY DEF IInv
<1> QED BY <1>1, LinkInvariant, PTL

\* recv() returns whole messages, in order, none twice and none skipped, for
\* every window, fragment count and number space that satisfies the
\* assumptions, whatever is lost, repeated or reordered.
THEOREM LinkInOrderExactlyOnce == Spec => []InOrderExactlyOnce
<1>1. IInv => InOrderExactlyOnce
  BY DEF IInv
<1> QED BY <1>1, LinkInvariant, PTL

\* The sender drops a segment from snd_buf only when the receiver holds it.
THEOREM LinkNothingForgotten == Spec => []NothingForgotten
<1>1. IInv => NothingForgotten
  BY DEF IInv
<1> QED BY <1>1, LinkInvariant, PTL

\* No acknowledgement is made for a segment that was not stored.
THEOREM LinkAcksAreTrue == Spec => []AcksAreTrue
<1>1. IInv => AcksAreTrue
  BY DEF IInv
<1> QED BY <1>1, LinkInvariant, PTL

\* Neither edge of the send window nor rcv_nxt ever moves back.
THEOREM LinkEdgesAdvance == Spec => EdgesAdvance
<1>1. IInv /\ [Next]_vars =>
        [snd_una' >= snd_una /\ snd_nxt' >= snd_nxt /\ rcv_nxt' >= rcv_nxt]_vars
  BY NextStep
<1> QED BY <1>1, LinkInvariant, PTL DEF Spec, EdgesAdvance

\* Both windows bound what is buffered: the send window by its width, rcv_buf
\* because its numbers are distinct and lie in a window of RcvWnd.
THEOREM LinkBuffersBounded == Spec => []BuffersBounded
<1>1. ASSUME IInv PROVE BuffersBounded
  <2>1. /\ snd_nxt - snd_una <= SndWnd /\ Len(rcv_queue) <= RcvWnd
        /\ rcv_nxt \in Nat /\ RcvWnd \in Nat /\ RcvWnd > 0 /\ rcv_buf \subseteq Segment
    BY <1>1, WindowAssumption DEF IInv, TypeOK, SenderOK, ReceiverOK
  <2> DEFINE W == rcv_nxt..(rcv_nxt + RcvWnd - 1)
             f == [s \in rcv_buf |-> s.sn]
  <2>2. IsFiniteSet(W) /\ Cardinality(W) = RcvWnd
    <3>1. rcv_nxt \in Int /\ rcv_nxt + RcvWnd - 1 \in Int /\ ~ (rcv_nxt > rcv_nxt + RcvWnd - 1)
          /\ (rcv_nxt + RcvWnd - 1) - rcv_nxt + 1 = RcvWnd
      BY <2>1
    <3> QED BY <3>1, FS_Interval
  <2>3. \A s \in rcv_buf : s.sn \in W
    BY <1>1, <2>1 DEF IInv, ReceiverOK, Segment
  <2>4. \A s, t \in rcv_buf : s.sn = t.sn => s = t
    BY <1>1 DEF IInv, ReceiverOK
  <2>5. f \in Injection(rcv_buf, W)
    <3> HIDE DEF W
    <3> QED BY <2>3, <2>4 DEF Injection, IsInjective
  <2>6. Cardinality(rcv_buf) <= RcvWnd
    <3> HIDE DEF W, f
    <3> QED BY <2>2, <2>5, FS_Injection
  <2> QED BY <2>1, <2>6 DEF BuffersBounded
<1> QED BY <1>1, LinkInvariant, PTL

-----------------------------------------------------------------------------
\* The link implements the reliable stream: a send() is the stream accepting a
\* message, a recv() that returns one is the stream delivering it, and every
\* other step of sender, receiver and network leaves the stream as it is.
THEOREM LinkRefinesStream == Spec => Stream!Spec
<1>1. Init => Stream!Init
  BY DEF Init, Stream!Init
<1>2. ASSUME IInv, [Next]_vars
      PROVE  [Stream!Next]_(Stream!vars)
  <2>1. CASE SomeSend
    <3>1. PICK count \in 1..MaxFragments : Send(count)
      BY <2>1 DEF SomeSend
    <3>2. /\ ChunksAccepted + count <= MaxChunks
          /\ accepted' = Append(accepted, [i \in 1..count |-> ChunksAccepted + i - 1])
          /\ delivered' = delivered
      BY <3>1 DEF Send
    <3>3. ChunksAccepted \in 0..(MaxChunks - 1)
      BY <1>2, <3>2, WindowAssumption DEF IInv, AcceptedOK
    <3>4. [i \in 1..count |-> ChunksAccepted + i - 1] \in Message
      BY <3>3 DEF Message
    <3>5. Stream!Accept
      BY <3>2, <3>4 DEF Stream!Accept
    <3> QED BY <3>5 DEF Stream!Next
  <2>2. CASE Recv
    <3>1. PICK k \in 1..Len(rcv_queue) :
            /\ MessageEnd(k)
            /\ delivered' = Append(delivered, [j \in 1..k |-> rcv_queue[j].data])
      BY <2>2 DEF Recv
    <3>2. rcv_queue # <<>> /\ MessageComplete /\ accepted' = accepted
      BY <2>2 DEF Recv
    <3>3. /\ Len(delivered) + 1 \in 1..Len(accepted)
          /\ [j \in 1..k |-> rcv_queue[j].data] = accepted[Len(delivered) + 1]
      BY <1>2, <3>1, <3>2, NextMessage
    <3>4. Len(delivered) < Len(accepted)
      BY <1>2, <3>3, Lengths DEF IInv
    <3>5. Stream!Deliver
      BY <3>1, <3>2, <3>3, <3>4 DEF Stream!Deliver
    <3> QED BY <3>5 DEF Stream!Next
  <2>3. ASSUME UNCHANGED <<accepted, delivered>>
        PROVE  [Stream!Next]_(Stream!vars)
    BY <2>3 DEF Stream!vars
  <2>4. CASE SomeFlush /\ NetSmall'
    BY <2>3, <2>4 DEF SomeFlush, SenderFlush
  <2>5. CASE ReceiverFlush /\ NetSmall'
    BY <2>3, <2>5 DEF ReceiverFlush
  <2>6. CASE \E p \in net : Input(p)
    BY <2>3, <2>6 DEF Input, RecvPush, RecvWask, RecvAck, RecvWins
  <2>7. CASE \E p \in net : Lose(p)
    BY <2>3, <2>7 DEF Lose
  <2>8. CASE UNCHANGED vars
    BY <2>3, <2>8 DEF vars
  <2> QED BY <1>2, <2>1, <2>2, <2>4, <2>5, <2>6, <2>7, <2>8 DEF Next
<1> QED BY <1>1, <1>2, LinkInvariant, PTL DEF Spec, Stream!Spec
=============================================================================
