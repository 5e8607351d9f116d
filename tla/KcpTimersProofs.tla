--------------------------- MODULE KcpTimersProofs ---------------------------
(***************************************************************************)
(* The safety of KcpTimers for every clock, interval, RTO, window and      *)
(* number of segments: that nothing is repeated early, nothing that timed  *)
(* out waits longer than an interval, and a closed window is probed.       *)
(*                                                                         *)
(* Each comparison of times is exact (DiffExact), for no two times that    *)
(* are compared are half the clock apart; the rest is about plain numbers. *)
(***************************************************************************)
EXTENDS KcpTimers, FiniteSetTheorems, WellFoundedInduction, TLAPS

Segment == [sn : Nat, sent : Nat, rto : Nat, fastack : Nat, passed : Nat, wait : Nat]

\* the longest a segment may have to wait, after any number of back-offs
MaxWait == 2 * (MaxTime + MaxRto)

Typed ==
  /\ start \in 0..(ClockMod - 1) /\ nodelay \in BOOLEAN /\ updated \in BOOLEAN
  /\ current \in 0..MaxTime /\ {ts_flush, flushed, queued, snd_nxt, acks} \subseteq Nat
  /\ rx_rto \in MinRto..MaxRto /\ rx_srtt \in Nat /\ rx_rttval \in Nat
  /\ rmt_wnd \in {0, SndWnd}
  /\ {probe_wait, ts_probe, probed} \subseteq Nat
  /\ snd_buf \subseteq Segment
  /\ transmissions \subseteq [sn : Nat, sent : 0..current]

\* snd_buf: one segment for each number, and no more than the window lets out
Numbers ==
  /\ \A s \in snd_buf : s.sn < snd_nxt /\ snd_nxt <= s.sn + SndWnd
  /\ \A s, t \in snd_buf : s.sn = t.sn => s = t

\* no segment had timed out at the last flush, and acknowledgements that passed
\* it are counted as the code counts them
InTime(s, t) ==
  /\ s.rto >= 1 /\ s.rto <= s.wait /\ s.wait <= MaxWait
  /\ s.passed >= s.fastack
  /\ t < s.sent + s.wait

Waits == \A s \in snd_buf : InTime(s, flushed) /\ s.sent <= current

\* the next flush
Flushes ==
  /\ flushed <= current
  /\ ~updated => snd_buf = {}
  /\ updated => current < ts_flush /\ ts_flush <= flushed + Interval

\* the next probe
Probes ==
  probe_wait # 0 =>
    /\ ts_probe = probed + probe_wait /\ probe_wait <= ProbeLimit
    /\ flushed < ts_probe /\ probed <= current

IInv == Typed /\ Numbers /\ Waits /\ Flushes /\ Probes

\* a step repeats nothing early
NotEarly ==
  \A s \in snd_buf : \A t \in snd_buf' :
    (s.sn = t.sn /\ s.sent # t.sent) => t.sent >= s.sent + s.wait \/ s.passed >= Resend

----------------------------------------------------------------------------
LEMMA ModSmall ==
  ASSUME NEW m \in Nat, NEW d \in Nat, d < m
  PROVE  d % m = d
OBVIOUS

LEMMA ModNegative ==
  ASSUME NEW m \in Nat, NEW d \in Int, d < 0, -d < m
  PROVE  d % m = d + m
OBVIOUS

LEMMA Divides ==
  ASSUME NEW m \in Nat, m > 0, NEW d \in Nat
  PROVE  d % m \in 0..(m - 1) /\ \E q \in Int : d = m * q + (d % m)
<1>1. d % m \in 0..(m - 1)
  OBVIOUS
<1>2. d = m * (d \div m) + (d % m) /\ d \div m \in Int
  OBVIOUS
<1> QED BY <1>1, <1>2

LEMMA Distribute ==
  ASSUME NEW m \in Int, NEW p \in Int, NEW q \in Int
  PROVE  m * p - m * q = m * (p - q) /\ m * p \in Int /\ m * q \in Int
OBVIOUS

LEMMA Multiple ==
  ASSUME NEW m \in Nat, m > 0, NEW k \in Int, m * k < 2 * m, -(2 * m) < m * k
  PROVE  k \in {-1, 0, 1}
<1>1. CASE k >= 2
  <2>1. m * (k - 2) >= 0
    BY <1>1
  <2> QED BY <2>1
<1>2. CASE k <= -2
  <2>1. m * (-2 - k) >= 0
    BY <1>2
  <2> QED BY <2>1
<1> QED BY <1>1, <1>2

LEMMA DiffExact ==
  ASSUME NEW a \in Nat, NEW b \in Nat, start \in 0..(ClockMod - 1),
         2 * (a - b) < ClockMod, 2 * (b - a) < ClockMod
  PROVE  Itimediff(a, b) = a - b
<1>1. ClockMod \in Nat /\ ClockMod > 0 /\ start \in Nat
  BY TimerAssumption
<1>2. PICK m \in Nat : m = ClockMod
  BY <1>1
<1>3. PICK p \in Int : start + a = m * p + Ms(a)
  BY <1>1, <1>2, Divides DEF Ms
<1>4. PICK q \in Int : start + b = m * q + Ms(b)
  BY <1>1, <1>2, Divides DEF Ms
<1>5. Ms(a) \in 0..(m - 1) /\ Ms(b) \in 0..(m - 1)
  BY <1>1, <1>2, Divides DEF Ms
<1>6. PICK d \in Int : d = Ms(a) - Ms(b)
  BY <1>5
<1>7. d = (a - b) - m * (p - q)
  <2>1. m * p - m * q = m * (p - q) /\ m * p \in Int /\ m * q \in Int
    BY Distribute
  <2>2. m * (p - q) \in Int
    BY <2>1
  <2>3. PICK x \in Int, y \in Int : x = m * p /\ y = m * q
    BY <2>1
  <2>4. x - y = m * (p - q)
    BY <2>1, <2>3
  <2>5. a - b = (x - y) + d
    BY <1>1, <1>3, <1>4, <1>5, <1>6, <2>3
  <2> QED BY <2>4, <2>5
<1>8. PICK k \in Int : k = p - q
  OBVIOUS
<1>9. d = (a - b) - m * k /\ -m < d /\ d < m
  BY <1>5, <1>6, <1>7, <1>8
<1>10. k \in {-1, 0, 1}
  <2>1. m * k \in Int
    OBVIOUS
  <2>2. m * k < 2 * m /\ -(2 * m) < m * k
    BY <1>2, <1>9, <2>1
  <2> QED BY <1>1, <1>2, <2>2, Multiple
<1>11. d \in {a - b, (a - b) + m, (a - b) - m}
  BY <1>9, <1>10
<1>12. d % m = (IF a >= b THEN a - b ELSE (a - b) + m)
  <2>1. CASE d >= 0
    BY <1>2, <1>9, <1>11, <2>1, ModSmall
  <2>2. CASE d < 0
    BY <1>2, <1>9, <1>11, <2>2, ModNegative
  <2> QED BY <2>1, <2>2
<1> QED BY <1>1, <1>2, <1>6, <1>12 DEF Itimediff

----------------------------------------------------------------------------
\* The constants, as numbers.
LEMMA Constants ==
  /\ {ClockMod, Interval, Slap, MinRto, DefRto, MaxRto, Resend, ProbeInit, ProbeLimit, SndWnd,
      MaxTime, MaxSegments, MaxAcks, MaxWait} \subseteq Nat
  /\ Interval >= 1 /\ Slap >= 1 /\ MinRto >= 1 /\ Resend >= 1 /\ ProbeInit >= 1 /\ SndWnd >= 1
  /\ MinRto <= DefRto /\ DefRto <= MaxRto /\ ProbeInit <= ProbeLimit /\ Gaps \subseteq Nat
  /\ MaxWait = 2 * (MaxTime + MaxRto)
  /\ 2 * (MaxTime + MaxWait) < ClockMod
  /\ 2 * (MaxTime + Interval) < ClockMod /\ 2 * (MaxTime + ProbeLimit) < ClockMod
BY TimerAssumption, ClockAssumption DEF MaxWait

\* A non-empty snd_buf has a segment with the least number.
LEMMA LeastSn ==
  ASSUME snd_buf \subseteq Segment, snd_buf # {}
  PROVE  \E s \in snd_buf : \A u \in snd_buf : s.sn <= u.sn
<1> DEFINE T == {s.sn : s \in snd_buf}
<1>1. T \subseteq Nat /\ T # {}
  BY DEF Segment
<1>2. \E x \in T : \A y \in T : ~ (<<y, x>> \in OpToRel(<, Nat))
  <2> HIDE DEF T
  <2> QED BY <1>1, WFMin, NatLessThanWellFounded, Zenon
<1>3. PICK x \in T : \A y \in T : ~ (y < x)
  <2>1. \A x, y \in T : y < x => <<y, x>> \in OpToRel(<, Nat)
    <3> HIDE DEF T
    <3> QED BY <1>1 DEF OpToRel
  <2> QED BY <1>2, <2>1
<1>4. \A y \in T : x <= y
  <2> HIDE DEF T
  <2> QED BY <1>1, <1>3
<1> QED BY <1>4

\* snd_una is a number behind which nothing is outstanding, and what is admitted
\* stays within the window.
LEMMA WindowFacts ==
  ASSUME Typed, Numbers
  PROVE  /\ Admitted \in Nat /\ Admitted <= queued
         /\ Admitted > 0 => \A s \in snd_buf : snd_nxt + Admitted <= s.sn + SndWnd
         /\ Admitted <= SndWnd
<1> USE DEF Typed
<1>1. Una(snd_buf) \in Nat /\ Una(snd_buf) <= snd_nxt /\ \A s \in snd_buf : Una(snd_buf) <= s.sn
  <2>1. CASE snd_buf = {}
    BY <2>1 DEF Una
  <2>2. CASE snd_buf # {}
    <3>1. PICK s \in snd_buf : /\ s = CHOOSE x \in snd_buf : \A u \in snd_buf : x.sn <= u.sn
                               /\ \A u \in snd_buf : s.sn <= u.sn
      BY <2>2, LeastSn
    <3>2. Una(snd_buf) = s.sn
      BY <2>2, <3>1 DEF Una
    <3> QED BY <3>1, <3>2 DEF Numbers, Segment
  <2> QED BY <2>1, <2>2
<1>2. Smaller(SndWnd, rmt_wnd) \in 0..SndWnd
  BY Constants DEF Smaller
<1>3. Admitted \in Nat /\ Admitted <= queued
      /\ (Admitted > 0 => snd_nxt + Admitted <= Una(snd_buf) + SndWnd)
  BY <1>1, <1>2, Constants DEF Admitted, Smaller
<1> QED BY <1>1, <1>3, Constants DEF Segment

----------------------------------------------------------------------------
\* The comparisons of _flush().

LEMMA TimedOutIs ==
  ASSUME Typed, NEW s \in Segment, NEW t \in 0..MaxTime, s.sent <= t, s.wait <= MaxWait
  PROVE  TimedOut(s, t) <=> t >= s.sent + s.wait
<1>1. t \in Nat /\ s.sent \in Nat /\ s.wait \in Nat /\ s.sent + s.wait \in Nat
  BY DEF Segment
<1>2. 2 * (t - (s.sent + s.wait)) < ClockMod /\ 2 * ((s.sent + s.wait) - t) < ClockMod
  BY <1>1, Constants
<1>3. Itimediff(t, s.sent + s.wait) = t - (s.sent + s.wait)
  BY <1>1, <1>2, DiffExact DEF Typed
<1> QED BY <1>1, <1>3 DEF TimedOut

\* What becomes of an outstanding segment.
LEMMA ResentFacts ==
  ASSUME Typed, NEW s \in Segment, NEW f \in Nat, InTime(s, f),
         NEW t \in 0..MaxTime, s.sent <= t, f <= t
  PROVE  /\ Resent(s, t) \in Segment /\ Resent(s, t).sn = s.sn /\ Resent(s, t).sent <= t
         /\ InTime(Resent(s, t), t)
         /\ Resent(s, t).sent # s.sent => t >= s.sent + s.wait \/ s.passed >= Resend
         /\ Resent(s, t).sent \in {s.sent, t}
<1>1. /\ t \in Nat /\ rx_rto \in Nat /\ rx_rto >= 1 /\ rx_rto <= MaxRto
      /\ {s.sn, s.sent, s.rto, s.fastack, s.passed, s.wait} \subseteq Nat
  BY Constants DEF Typed, Segment
<1>2. s.rto >= 1 /\ s.rto <= s.wait /\ s.wait <= MaxWait /\ s.passed >= s.fastack
  BY DEF InTime
<1>3. TimedOut(s, t) <=> t >= s.sent + s.wait
  BY <1>2, TimedOutIs
<1>4. CASE TimedOut(s, t)
  <2>1. s.rto <= MaxTime
    BY <1>1, <1>2, <1>3, <1>4, Constants
  <2>2. PICK b \in Nat : b = Backoff(s) /\ b >= 1 /\ b <= MaxWait
    <3>1. rx_rto \div 2 \in Nat /\ rx_rto \div 2 <= rx_rto
      BY <1>1
    <3>2. Larger(s.rto, rx_rto) \in Nat /\ Larger(s.rto, rx_rto) <= MaxTime + MaxRto
      BY <1>1, <2>1, Constants DEF Larger
    <3>3. Backoff(s) \in Nat /\ Backoff(s) >= 1 /\ Backoff(s) <= MaxWait
      BY <1>1, <1>2, <2>1, <3>1, <3>2, Constants DEF Backoff
    <3> QED BY <3>3
  <2>3. Resent(s, t) = [s EXCEPT !.sent = t, !.rto = b, !.wait = b]
    <3>1. Resent(s, t) = [s EXCEPT !.sent = t, !.rto = Backoff(s), !.wait = Backoff(s)]
      BY <1>4 DEF Resent, FastResent
    <3> QED BY <2>2, <3>1
  <2>4. PICK r \in Segment : /\ r = Resent(s, t)
          /\ r.sn = s.sn /\ r.sent = t /\ r.rto = b /\ r.wait = b
          /\ r.fastack = s.fastack /\ r.passed = s.passed
    <3>1. Resent(s, t) \in Segment
      BY <1>1, <2>2, <2>3 DEF Segment
    <3>2. /\ Resent(s, t).sn = s.sn /\ Resent(s, t).sent = t /\ Resent(s, t).rto = b
          /\ Resent(s, t).wait = b /\ Resent(s, t).fastack = s.fastack
          /\ Resent(s, t).passed = s.passed
      BY <2>3 DEF Segment
    <3> QED BY <3>1, <3>2
  <2>5. InTime(r, t)
    BY <1>1, <1>2, <2>2, <2>4 DEF InTime
  <2> QED BY <1>1, <1>3, <1>4, <2>4, <2>5
<1>5. CASE ~TimedOut(s, t) /\ FastResent(s, t)
  <2>1. Resent(s, t) = [s EXCEPT !.sent = t, !.wait = s.rto, !.fastack = 0, !.passed = 0]
    BY <1>5 DEF Resent
  <2>2. PICK r \in Segment : /\ r = Resent(s, t)
          /\ r.sn = s.sn /\ r.sent = t /\ r.rto = s.rto /\ r.wait = s.rto
          /\ r.fastack = 0 /\ r.passed = 0
    <3>1. Resent(s, t) \in Segment
      <4>1. Resent(s, t) = [sn |-> s.sn, sent |-> t, rto |-> s.rto, fastack |-> 0, passed |-> 0,
                            wait |-> s.rto]
        BY <2>1 DEF Segment
      <4> QED BY <1>1, <4>1 DEF Segment
    <3>2. /\ Resent(s, t).sn = s.sn /\ Resent(s, t).sent = t /\ Resent(s, t).rto = s.rto
          /\ Resent(s, t).wait = s.rto /\ Resent(s, t).fastack = 0 /\ Resent(s, t).passed = 0
      BY <2>1 DEF Segment
    <3> QED BY <3>1, <3>2
  <2>3. InTime(r, t)
    BY <1>1, <1>2, <2>2, Constants DEF InTime
  <2>4. s.passed >= Resend
    BY <1>1, <1>2, <1>5, Constants DEF FastResent
  <2> QED BY <1>1, <2>2, <2>3, <2>4
<1>6. CASE ~TimedOut(s, t) /\ ~FastResent(s, t)
  <2>1. Resent(s, t) = s
    BY <1>6 DEF Resent
  <2>2. InTime(s, t)
    BY <1>1, <1>2, <1>3, <1>6 DEF InTime
  <2> QED BY <1>1, <2>1, <2>2
<1> QED BY <1>4, <1>5, <1>6

LEMMA FirstFacts ==
  ASSUME Typed, NEW sn \in Nat, NEW t \in 0..MaxTime
  PROVE  /\ FirstSent(sn, t) \in Segment /\ FirstSent(sn, t).sn = sn
         /\ FirstSent(sn, t).sent = t /\ InTime(FirstSent(sn, t), t)
<1>1. t \in Nat /\ rx_rto \in Nat /\ rx_rto >= 1 /\ rx_rto <= MaxRto
  BY Constants DEF Typed
<1>2. rx_rto \div 8 \in Nat /\ rx_rto \div 8 <= rx_rto
  BY <1>1
<1>3. PICK w \in Nat : w = rx_rto + (IF nodelay THEN 0 ELSE rx_rto \div 8)
                       /\ w >= rx_rto /\ w <= 2 * MaxRto
  BY <1>1, <1>2, Constants
<1>4. PICK r \in Segment : /\ r = FirstSent(sn, t)
        /\ r.sn = sn /\ r.sent = t /\ r.rto = rx_rto /\ r.wait = w /\ r.fastack = 0 /\ r.passed = 0
  <2>1. FirstSent(sn, t) = [sn |-> sn, sent |-> t, rto |-> rx_rto, fastack |-> 0, passed |-> 0,
                            wait |-> w]
    BY <1>3 DEF FirstSent
  <2>2. FirstSent(sn, t) \in Segment
    BY <1>1, <2>1 DEF Segment
  <2> QED BY <2>1, <2>2
<1>5. InTime(r, t)
  BY <1>1, <1>3, <1>4, Constants DEF InTime
<1> QED BY <1>4, <1>5

\* The whole of _flush() at time t.
LEMMA FlushFacts ==
  ASSUME Typed, Numbers, Waits, Flushes, Probes, NEW t \in 0..MaxTime, current <= t, Flush(t)
  PROVE  /\ queued' \in Nat /\ snd_nxt' \in Nat /\ {probe_wait', ts_probe', probed'} \subseteq Nat
         /\ snd_buf' \subseteq Segment
         /\ \A s \in snd_buf' : InTime(s, t) /\ s.sent <= t
         /\ Numbers'
         /\ transmissions' \subseteq [sn : Nat, sent : 0..t]
         /\ probe_wait' # 0 => /\ ts_probe' = probed' + probe_wait' /\ probe_wait' <= ProbeLimit
                               /\ t < ts_probe' /\ probed' <= t
         /\ NotEarly
<1> PICK adm \in Nat : adm = Admitted
  BY WindowFacts
<1> DEFINE fresh == {FirstSent(sn, t) : sn \in snd_nxt..(snd_nxt + adm - 1)}
           again == {s \in snd_buf : TimedOut(s, t) \/ FastResent(s, t)}
<1>1. /\ Probe(t) /\ queued' = queued - adm /\ snd_nxt' = snd_nxt + adm
      /\ snd_buf' = {Resent(s, t) : s \in snd_buf} \cup fresh
      /\ transmissions' = transmissions \cup {[sn |-> s.sn, sent |-> t] : s \in fresh \cup again}
  BY DEF Flush
<1>2. /\ t \in Nat /\ current \in Nat /\ flushed \in Nat /\ snd_nxt \in Nat /\ queued \in Nat
      /\ flushed <= t
  BY Constants DEF Typed, Flushes
<1>3. /\ adm <= queued /\ adm <= SndWnd
      /\ adm > 0 => \A s \in snd_buf : snd_nxt + adm <= s.sn + SndWnd
  BY WindowFacts
<1>4. ASSUME NEW s \in snd_buf
      PROVE  /\ Resent(s, t) \in Segment /\ Resent(s, t).sn = s.sn /\ Resent(s, t).sent <= t
             /\ InTime(Resent(s, t), t)
             /\ Resent(s, t).sent # s.sent => t >= s.sent + s.wait \/ s.passed >= Resend
             /\ Resent(s, t).sent \in {s.sent, t}
             /\ s \in Segment
  <2>1. s \in Segment /\ InTime(s, flushed) /\ s.sent <= t
    BY <1>2 DEF Typed, Waits, Segment
  <2> QED BY <1>2, <2>1, ResentFacts
<1>5. ASSUME NEW sn \in snd_nxt..(snd_nxt + adm - 1)
      PROVE  /\ FirstSent(sn, t) \in Segment /\ FirstSent(sn, t).sn = sn
             /\ FirstSent(sn, t).sent = t /\ InTime(FirstSent(sn, t), t)
  <2>1. sn \in Nat
    BY <1>2
  <2> QED BY <2>1, FirstFacts
<1>6. \A r \in snd_buf' : \/ \E s \in snd_buf : r = Resent(s, t)
                          \/ \E sn \in snd_nxt..(snd_nxt + adm - 1) : r = FirstSent(sn, t)
  BY <1>1
<1>7. /\ snd_buf' \subseteq Segment
      /\ \A s \in snd_buf' : InTime(s, t) /\ s.sent <= t
  BY <1>2, <1>4, <1>5, <1>6
<1>8. queued' \in Nat /\ snd_nxt' \in Nat
  BY <1>1, <1>2, <1>3
<1>9. transmissions' \subseteq [sn : Nat, sent : 0..t]
  <2>1. \A s \in fresh \cup again : s.sn \in Nat
    BY <1>4, <1>5 DEF Segment
  <2>2. transmissions \subseteq [sn : Nat, sent : 0..t]
    BY <1>2 DEF Typed
  <2>3. t \in 0..t
    BY <1>2
  <2> HIDE DEF fresh, again
  <2> QED BY <1>1, <2>1, <2>2, <2>3
<1>10. /\ {probe_wait', ts_probe', probed'} \subseteq Nat
       /\ probe_wait' # 0 => /\ ts_probe' = probed' + probe_wait' /\ probe_wait' <= ProbeLimit
                             /\ t < ts_probe' /\ probed' <= t
  <2>1. {probe_wait, ts_probe, probed} \subseteq Nat
    BY DEF Typed
  <2>2. CASE rmt_wnd # 0
    BY <1>1, <2>1, <2>2 DEF Probe
  <2>3. CASE rmt_wnd = 0 /\ probe_wait = 0
    BY <1>1, <1>2, <2>1, <2>3, Constants DEF Probe
  <2>4. CASE rmt_wnd = 0 /\ probe_wait # 0
    <3>1. ts_probe = probed + probe_wait /\ probe_wait <= ProbeLimit /\ probed <= t
      BY <1>2, <2>1, <2>4 DEF Probes
    <3>2. Itimediff(t, ts_probe) = t - ts_probe
      BY <1>2, <2>1, <3>1, Constants, DiffExact DEF Typed
    <3>3. Longer \in Nat /\ Longer >= 1 /\ Longer <= ProbeLimit
      <4>1. probe_wait \div 2 \in Nat
        BY <2>1
      <4> QED BY <2>1, <2>4, <4>1, Constants DEF Longer, Smaller
    <3>4. CASE t - ts_probe >= 0
      BY <1>1, <1>2, <2>1, <2>4, <3>2, <3>3, <3>4 DEF Probe
    <3>5. CASE t - ts_probe < 0
      <4>1. UNCHANGED probe
        BY <1>1, <1>2, <2>1, <2>4, <3>2, <3>5 DEF Probe, probe
      <4> QED BY <1>2, <2>1, <3>1, <3>5, <4>1 DEF probe
    <3> QED BY <1>2, <2>1, <3>4, <3>5
  <2> QED BY <2>2, <2>3, <2>4
<1>11. \A s \in snd_buf : s.sn \in Nat /\ s.sn < snd_nxt /\ snd_nxt <= s.sn + SndWnd
  BY <1>4 DEF Numbers, Segment
<1>12. Numbers'
  <2>1. \A r \in snd_buf' : r.sn < snd_nxt' /\ snd_nxt' <= r.sn + SndWnd
    <3>1. ASSUME NEW s \in snd_buf
          PROVE  s.sn < snd_nxt + adm /\ snd_nxt + adm <= s.sn + SndWnd
      BY <1>2, <1>3, <1>11, Constants
    <3>2. ASSUME NEW sn \in snd_nxt..(snd_nxt + adm - 1)
          PROVE  sn < snd_nxt + adm /\ snd_nxt + adm <= sn + SndWnd
      BY <1>2, <1>3, Constants
    <3> QED BY <1>1, <1>4, <1>5, <1>6, <3>1, <3>2
  <2>2. \A r, u \in snd_buf' : r.sn = u.sn => r = u
    <3>1. \A s, v \in snd_buf : s.sn = v.sn => s = v
      BY DEF Numbers
    <3>2. \A s \in snd_buf : \A sn \in snd_nxt..(snd_nxt + adm - 1) : s.sn # sn
      BY <1>2, <1>11
    <3> QED BY <1>4, <1>5, <1>6, <3>1, <3>2
  <2> QED BY <2>1, <2>2 DEF Numbers
<1>13. ASSUME NEW s \in snd_buf, NEW u \in snd_buf', s.sn = u.sn, s.sent # u.sent
       PROVE  u.sent >= s.sent + s.wait \/ s.passed >= Resend
  <2>1. u = Resent(s, t)
    <3>1. \A v \in snd_buf : v.sn = s.sn => v = s
      BY DEF Numbers
    <3>2. s.sn \notin snd_nxt..(snd_nxt + adm - 1)
      BY <1>2, <1>11
    <3> QED BY <1>4, <1>5, <1>6, <1>13, <3>1, <3>2
  <2> QED BY <1>4, <1>13, <2>1
<1>14. NotEarly
  BY <1>13 DEF NotEarly
<1> QED BY <1>7, <1>8, <1>9, <1>10, <1>12, <1>14

----------------------------------------------------------------------------
\* The calls.

LEMMA SendStep ==
  ASSUME IInv, Send
  PROVE  IInv' /\ NotEarly
<1>1. /\ queued' = queued + 1
      /\ UNCHANGED <<start, nodelay, current, updated, ts_flush, flushed, snd_nxt, snd_buf,
                     rx_srtt, rx_rttval, rx_rto, rmt_wnd, probe_wait, ts_probe, probed,
                     transmissions, acks>>
  BY DEF Send, clock, rtt, probe, peer
<1>2. Typed'
  BY <1>1 DEF IInv, Typed
<1>3. Numbers' /\ NotEarly
  BY <1>1 DEF IInv, Numbers, NotEarly
<1>4. Waits' /\ Flushes' /\ Probes'
  BY <1>1 DEF IInv, Waits, Flushes, Probes, InTime
<1> QED BY <1>2, <1>3, <1>4 DEF IInv

\* flush() between two calls of update().
LEMMA DirectFlushStep ==
  ASSUME IInv, DirectFlush
  PROVE  IInv' /\ NotEarly
<1>1. /\ updated /\ Flush(current)
      /\ UNCHANGED <<start, nodelay, current, updated, ts_flush, flushed,
                     rx_srtt, rx_rttval, rx_rto, rmt_wnd, acks>>
  BY DEF DirectFlush, clock, rtt, peer
<1>2. Typed /\ Numbers /\ Waits /\ Flushes /\ Probes
  BY DEF IInv
<1>3. current \in 0..MaxTime /\ current \in Nat /\ flushed \in Nat /\ flushed <= current
  BY <1>2, Constants DEF Typed, Flushes
<1>4. /\ queued' \in Nat /\ snd_nxt' \in Nat /\ {probe_wait', ts_probe', probed'} \subseteq Nat
      /\ snd_buf' \subseteq Segment
      /\ \A s \in snd_buf' : InTime(s, current) /\ s.sent <= current
      /\ Numbers'
      /\ transmissions' \subseteq [sn : Nat, sent : 0..current]
      /\ probe_wait' # 0 => /\ ts_probe' = probed' + probe_wait' /\ probe_wait' <= ProbeLimit
                            /\ current < ts_probe' /\ probed' <= current
      /\ NotEarly
  BY <1>1, <1>2, <1>3, FlushFacts
<1>5. Typed'
  BY <1>1, <1>2, <1>4 DEF Typed
<1>6. Waits'
  <2>1. ASSUME NEW s \in snd_buf'
        PROVE  InTime(s, flushed)
    BY <1>3, <1>4 DEF InTime, Segment
  <2> QED BY <1>1, <1>4, <2>1 DEF Waits, InTime
<1>7. Flushes' /\ Probes'
  BY <1>1, <1>2, <1>3, <1>4 DEF Flushes, Probes
<1> QED BY <1>4, <1>5, <1>6, <1>7 DEF IInv

\* update(): the flush that is due happens, and the next one is at most an
\* interval away.
LEMMA UpdateStep ==
  ASSUME IInv, NEW t \in 0..MaxTime, current <= t, Update(t)
  PROVE  IInv' /\ NotEarly
<1>1. Typed /\ Numbers /\ Waits /\ Flushes /\ Probes
  BY DEF IInv
<1>2. /\ t \in Nat /\ current \in Nat /\ flushed \in Nat /\ ts_flush \in Nat
      /\ flushed <= t /\ start \in 0..(ClockMod - 1)
  BY <1>1, Constants DEF Typed, Flushes
<1>3. PICK planned \in Nat : planned = (IF updated THEN ts_flush ELSE t)
  BY <1>2
<1>4. planned <= t + Interval /\ (~updated => planned = t)
  BY <1>1, <1>2, <1>3, Constants DEF Flushes
<1>5. Itimediff(t, planned) = t - planned
  <2>1. t >= planned => 2 * (t - planned) < ClockMod
    BY <1>2, Constants
  <2>2. 2 * (planned - t) < ClockMod /\ 2 * (t - planned) < ClockMod
    BY <1>2, <1>4, Constants
  <2> QED BY <1>2, <2>2, DiffExact
<1>6. /\ current' = t /\ updated' = TRUE
      /\ UNCHANGED <<start, nodelay, rx_srtt, rx_rttval, rx_rto, rmt_wnd, acks>>
  BY DEF Update, rtt, peer
<1>7. CASE t - planned >= Slap \/ t - planned < -Slap \/ t - planned >= 0
  <2>1. PICK from \in Nat : /\ from = (IF t - planned >= Slap \/ t - planned < -Slap THEN t ELSE planned)
                            /\ from <= t
    BY <1>2, <1>7, Constants
  <2>2. /\ ts_flush' = (IF Itimediff(t, from + Interval) >= 0 THEN t + Interval ELSE from + Interval)
        /\ flushed' = t /\ Flush(t)
    BY <1>3, <1>5, <1>7, <2>1 DEF Update
  <2>3. ts_flush' \in Nat /\ t < ts_flush' /\ ts_flush' <= t + Interval
    <3>1. CASE 2 * (t - (from + Interval)) < ClockMod
      <4>1. from + Interval \in Nat /\ 2 * ((from + Interval) - t) < ClockMod
        BY <1>2, <2>1, Constants
      <4>2. Itimediff(t, from + Interval) = t - (from + Interval)
        BY <1>2, <3>1, <4>1, DiffExact
      <4> QED BY <1>2, <2>1, <2>2, <4>2, Constants
    <3>2. 2 * (t - (from + Interval)) < ClockMod
      BY <1>2, <2>1, Constants
    <3> QED BY <3>1, <3>2
  <2>4. /\ queued' \in Nat /\ snd_nxt' \in Nat /\ {probe_wait', ts_probe', probed'} \subseteq Nat
        /\ snd_buf' \subseteq Segment
        /\ \A s \in snd_buf' : InTime(s, t) /\ s.sent <= t
        /\ Numbers'
        /\ transmissions' \subseteq [sn : Nat, sent : 0..t]
        /\ probe_wait' # 0 => /\ ts_probe' = probed' + probe_wait' /\ probe_wait' <= ProbeLimit
                              /\ t < ts_probe' /\ probed' <= t
        /\ NotEarly
    BY <1>1, <2>2, FlushFacts
  <2>5. Typed'
    BY <1>1, <1>2, <1>6, <2>2, <2>3, <2>4 DEF Typed
  <2>6. Waits' /\ Flushes' /\ Probes'
    BY <1>2, <1>6, <2>2, <2>3, <2>4 DEF Waits, Flushes, Probes, InTime
  <2> QED BY <2>4, <2>5, <2>6 DEF IInv
<1>8. CASE ~(t - planned >= Slap \/ t - planned < -Slap \/ t - planned >= 0)
  <2>1. /\ ts_flush' = planned
        /\ UNCHANGED <<flushed, queued, snd_nxt, snd_buf, probe_wait, ts_probe, probed, transmissions>>
    BY <1>3, <1>5, <1>8 DEF Update, probe
  <2>2. updated /\ planned = ts_flush /\ t < ts_flush
    BY <1>2, <1>3, <1>4, <1>8
  <2>3. Typed'
    <3>1. transmissions \subseteq [sn : Nat, sent : 0..t]
      BY <1>1, <1>2 DEF Typed
    <3> QED BY <1>1, <1>2, <1>6, <2>1, <2>2, <3>1 DEF Typed
  <2>4. Numbers' /\ NotEarly
    BY <1>1, <2>1 DEF Numbers, NotEarly
  <2>5. Waits'
    <3>1. \A s \in snd_buf : InTime(s, flushed) /\ s.sent <= t
      BY <1>1, <1>2 DEF Waits, Typed, Segment
    <3> QED BY <1>6, <2>1, <3>1 DEF Waits, InTime
  <2>6. Flushes' /\ Probes'
    BY <1>1, <1>2, <1>6, <2>1, <2>2 DEF Flushes, Probes, Typed
  <2> QED BY <2>3, <2>4, <2>5, <2>6 DEF IInv
<1> QED BY <1>7, <1>8

\* The estimate of the round trip, from any sample.
LEMMA EstimateFacts ==
  ASSUME Typed, NEW sample \in Nat
  PROVE  /\ Estimate(sample).srtt \in Nat /\ Estimate(sample).rttval \in Nat
         /\ Clamped(Estimate(sample).rto) \in MinRto..MaxRto
<1>1. rx_srtt \in Nat /\ rx_rttval \in Nat
  BY DEF Typed
<1>2. PICK delta \in Nat : delta = Larger(sample - rx_srtt, rx_srtt - sample)
  <2>1. CASE sample >= rx_srtt
    BY <1>1, <2>1 DEF Larger
  <2>2. CASE sample < rx_srtt
    BY <1>1, <2>2 DEF Larger
  <2> QED BY <1>1, <2>1, <2>2
<1>3. PICK srtt \in Nat :
        srtt = (IF rx_srtt = 0 THEN sample ELSE Larger((7 * rx_srtt + sample) \div 8, 1))
  <2>1. (7 * rx_srtt + sample) \div 8 \in Nat
    BY <1>1
  <2> QED BY <2>1 DEF Larger
<1>4. PICK rttval \in Nat :
        rttval = (IF rx_srtt = 0 THEN sample \div 2 ELSE (3 * rx_rttval + delta) \div 4)
  BY <1>1, <1>2
<1>5. PICK rto \in Nat : rto = srtt + Larger(Interval, 4 * rttval)
  BY <1>3, <1>4, Constants DEF Larger
<1>6. Estimate(sample) = [srtt |-> srtt, rttval |-> rttval, rto |-> rto]
  BY <1>2, <1>3, <1>4, <1>5 DEF Estimate
<1>7. Clamped(rto) \in MinRto..MaxRto
  BY <1>5, Constants DEF Clamped, Larger, Smaller
<1> QED BY <1>6, <1>7

\* A segment that the acknowledgement leaves: only its counts change, and both
\* by the same amount.
LEMMA PassedFacts ==
  ASSUME Typed, Waits, NEW buf \in SUBSET snd_buf, NEW tr \in transmissions,
         NEW r \in Passed(buf, tr)
  PROVE  /\ r \in Segment /\ InTime(r, flushed) /\ r.sent <= current
         /\ \E s \in buf : s.sn = r.sn /\ s.sent = r.sent
<1>1. PICK s \in buf :
        \/ r = s
        \/ r = [s EXCEPT !.fastack = @ + (IF Itimediff(tr.sent, s.sent) >= 0 THEN 1 ELSE 0),
                          !.passed  = @ + (IF tr.sent >= s.sent THEN 1 ELSE 0)]
  BY DEF Passed
<1>2. s \in Segment /\ InTime(s, flushed) /\ s.sent <= current
  BY DEF Typed, Waits
<1>3. /\ tr.sent \in Nat /\ s.sent \in Nat /\ tr.sent <= MaxTime /\ s.sent <= MaxTime
      /\ current \in Nat /\ current <= MaxTime
  BY <1>2, Constants DEF Typed, Segment
<1>4. CASE r = s
  BY <1>2, <1>4
<1>5. CASE r = [s EXCEPT !.fastack = @ + (IF Itimediff(tr.sent, s.sent) >= 0 THEN 1 ELSE 0),
                          !.passed  = @ + (IF tr.sent >= s.sent THEN 1 ELSE 0)]
  <2>1. Itimediff(tr.sent, s.sent) = tr.sent - s.sent
    <3>1. 2 * (tr.sent - s.sent) < ClockMod /\ 2 * (s.sent - tr.sent) < ClockMod
      BY <1>3, Constants
    <3>2. start \in 0..(ClockMod - 1)
      BY DEF Typed
    <3> QED BY <1>3, <3>1, <3>2, DiffExact
  <2>2. PICK one \in {0, 1} : /\ one = (IF tr.sent >= s.sent THEN 1 ELSE 0)
                              /\ one = (IF Itimediff(tr.sent, s.sent) >= 0 THEN 1 ELSE 0)
    BY <1>3, <2>1
  <2>3. r = [s EXCEPT !.fastack = s.fastack + one, !.passed = s.passed + one]
    BY <1>2, <1>5, <2>2 DEF Segment
  <2>4. r \in Segment
    <3>1. r = [sn |-> s.sn, sent |-> s.sent, rto |-> s.rto, fastack |-> s.fastack + one,
               passed |-> s.passed + one, wait |-> s.wait]
      BY <1>2, <2>3 DEF Segment
    <3>2. /\ {s.sn, s.sent, s.rto, s.wait} \subseteq Nat
          /\ s.fastack + one \in Nat /\ s.passed + one \in Nat
      BY <1>2, <2>2 DEF Segment
    <3> QED BY <3>1, <3>2 DEF Segment
  <2>5. /\ r.sn = s.sn /\ r.sent = s.sent /\ r.rto = s.rto /\ r.wait = s.wait
        /\ r.fastack = s.fastack + one /\ r.passed = s.passed + one
    BY <1>2, <2>3 DEF Segment
  <2>6. InTime(r, flushed)
    BY <1>2, <2>2, <2>5 DEF InTime, Segment
  <2> QED BY <1>2, <2>4, <2>5, <2>6
<1> QED BY <1>1, <1>4, <1>5

\* input() of an ACK.
LEMMA AckStep ==
  ASSUME IInv, NEW tr \in transmissions, NEW una \in 0..snd_nxt, NEW wnd \in {0, SndWnd},
         Ack(tr, una, wnd)
  PROVE  IInv' /\ NotEarly
<1>1. Typed /\ Numbers /\ Waits /\ Flushes /\ Probes
  BY DEF IInv
<1>2. PICK left \in SUBSET snd_buf : left = {s \in snd_buf : s.sn >= una /\ s.sn # tr.sn}
  OBVIOUS
<1>3. /\ acks' = acks + 1 /\ rmt_wnd' = wnd /\ snd_buf' = Passed(left, tr)
      /\ UNCHANGED <<start, nodelay, current, updated, ts_flush, flushed, queued, snd_nxt,
                     probe_wait, ts_probe, probed, transmissions>>
  BY <1>2 DEF Ack, clock, probe
<1>4. PICK sample \in Nat : sample = Itimediff(current, tr.sent)
  <2>1. current \in Nat /\ tr.sent \in Nat /\ tr.sent <= current /\ current <= MaxTime
    BY <1>1, Constants DEF Typed
  <2>2. 2 * (current - tr.sent) < ClockMod /\ 2 * (tr.sent - current) < ClockMod
    BY <2>1, Constants
  <2>3. Itimediff(current, tr.sent) = current - tr.sent
    BY <1>1, <2>1, <2>2, DiffExact DEF Typed
  <2> QED BY <2>1, <2>3
<1>5. /\ rx_srtt' = Estimate(sample).srtt /\ rx_rttval' = Estimate(sample).rttval
      /\ rx_rto' = Clamped(Estimate(sample).rto)
  BY <1>4 DEF Ack
<1>6. \A r \in snd_buf' : /\ r \in Segment /\ InTime(r, flushed) /\ r.sent <= current
                          /\ \E s \in snd_buf : s.sn = r.sn /\ s.sent = r.sent
  BY <1>1, <1>2, <1>3, PassedFacts
<1>7. Typed'
  <2>1. snd_buf' \subseteq Segment
    BY <1>6
  <2>2. /\ rx_srtt' \in Nat /\ rx_rttval' \in Nat /\ rx_rto' \in MinRto..MaxRto
    BY <1>1, <1>4, <1>5, EstimateFacts
  <2> QED BY <1>1, <1>3, <2>1, <2>2 DEF Typed
<1>8. \A s, v \in left : s.sn = v.sn => s = v
  BY <1>1, <1>2 DEF Numbers
<1>9. Numbers'
  <2>1. \A r \in snd_buf' : r.sn < snd_nxt' /\ snd_nxt' <= r.sn + SndWnd
    BY <1>1, <1>3, <1>6 DEF Numbers
  <2>2. \A r, u \in snd_buf' : r.sn = u.sn => r = u
    <3> DEFINE Marked(s) ==
          IF (Una(left) <= tr.sn /\ tr.sn < snd_nxt) /\ s.sn < tr.sn
          THEN [s EXCEPT !.fastack = @ + (IF Itimediff(tr.sent, s.sent) >= 0 THEN 1 ELSE 0),
                         !.passed  = @ + (IF tr.sent >= s.sent THEN 1 ELSE 0)]
          ELSE s
    <3>1. ASSUME NEW s \in left
          PROVE  Marked(s).sn = s.sn
      BY <1>1, <1>2 DEF Typed, Segment
    <3>2. snd_buf' = {Marked(s) : s \in left}
      BY <1>3 DEF Passed
    <3> HIDE DEF Marked
    <3> QED BY <1>8, <3>1, <3>2
  <2> QED BY <2>1, <2>2 DEF Numbers
<1>10. Waits' /\ Flushes' /\ Probes'
  BY <1>1, <1>3, <1>6 DEF Waits, Flushes, Probes, InTime
<1>11. NotEarly
  BY <1>1, <1>6 DEF NotEarly, Numbers
<1> QED BY <1>7, <1>9, <1>10, <1>11 DEF IInv

\* input() of the WINS that answers a probe.
LEMMA WinsStep ==
  ASSUME IInv, NEW wnd \in {0, SndWnd}, Wins(wnd)
  PROVE  IInv' /\ NotEarly
<1>1. /\ acks' = acks + 1 /\ rmt_wnd' = wnd /\ snd_buf' \subseteq snd_buf
      /\ UNCHANGED <<start, nodelay, current, updated, ts_flush, flushed, queued, snd_nxt,
                     rx_srtt, rx_rttval, rx_rto, probe_wait, ts_probe, probed, transmissions>>
  BY DEF Wins, clock, rtt, probe
<1>2. Typed'
  BY <1>1 DEF IInv, Typed
<1>3. Numbers' /\ NotEarly
  BY <1>1 DEF IInv, Numbers, NotEarly
<1>4. Waits' /\ Flushes' /\ Probes'
  BY <1>1 DEF IInv, Waits, Flushes, Probes, InTime
<1> QED BY <1>2, <1>3, <1>4 DEF IInv

LEMMA InitInv == Init => IInv
<1> SUFFICES ASSUME Init
             PROVE  IInv
  OBVIOUS
<1>1. /\ start \in 0..(ClockMod - 1) /\ nodelay \in BOOLEAN
      /\ rx_rto \in MinRto..MaxRto
  BY Constants, TimerAssumption DEF Init
<1>2. Typed
  <2>1. current \in 0..MaxTime /\ {ts_flush, flushed, queued, snd_nxt, acks} \subseteq Nat
    BY Constants DEF Init
  <2>2. /\ rx_srtt \in Nat /\ rx_rttval \in Nat /\ {probe_wait, ts_probe, probed} \subseteq Nat
    BY DEF Init
  <2>4. updated \in BOOLEAN
    BY DEF Init
  <2>5. rmt_wnd \in {0, SndWnd}
    BY DEF Init
  <2>3. snd_buf \subseteq Segment /\ transmissions \subseteq [sn : Nat, sent : 0..current]
    BY DEF Init
  <2> QED BY <1>1, <2>1, <2>2, <2>3, <2>4, <2>5 DEF Typed
<1>3. Numbers /\ Waits /\ Flushes /\ Probes
  BY DEF Init, Numbers, Waits, Flushes, Probes
<1> QED BY <1>2, <1>3 DEF IInv

LEMMA NextInv == IInv /\ [Next]_vars => IInv' /\ (Next => NotEarly)
<1> SUFFICES ASSUME IInv, [Next]_vars
             PROVE  IInv' /\ (Next => NotEarly)
  OBVIOUS
<1>1. CASE Next
  <2>1. CASE Send
    BY <2>1, SendStep
  <2>2. CASE DirectFlush
    BY <2>2, DirectFlushStep
  <2>3. ASSUME NEW d \in Gaps, current + d <= MaxTime, Update(current + d)
        PROVE  IInv' /\ NotEarly
    <3>1. current + d \in 0..MaxTime /\ current <= current + d
      BY <2>3, Constants DEF IInv, Typed
    <3> QED BY <2>3, <3>1, UpdateStep
  <2>4. ASSUME NEW tr \in transmissions, NEW una \in 0..snd_nxt, NEW wnd \in {0, SndWnd},
               Ack(tr, una, wnd)
        PROVE  IInv' /\ NotEarly
    BY <2>4, AckStep
  <2>5. ASSUME NEW wnd \in {0, SndWnd}, Wins(wnd)
        PROVE  IInv' /\ NotEarly
    BY <2>5, WinsStep
  <2> QED BY <1>1, <2>1, <2>2, <2>3, <2>4, <2>5 DEF Next
<1>2. CASE UNCHANGED vars
  <2>1. UNCHANGED <<start, nodelay, current, updated, ts_flush, flushed, queued, snd_nxt, snd_buf,
                    rx_srtt, rx_rttval, rx_rto, rmt_wnd, probe_wait, ts_probe, probed,
                    transmissions, acks>>
    BY <1>2 DEF vars, clock, rtt, probe, peer
  <2>2. Typed' /\ Numbers'
    BY <2>1 DEF IInv, Typed, Numbers
  <2>3. Waits' /\ Flushes' /\ Probes'
    BY <2>1 DEF IInv, Waits, Flushes, Probes, InTime
  <2>4. NotEarly
    BY <2>1 DEF IInv, Numbers, NotEarly
  <2> QED BY <2>2, <2>3, <2>4 DEF IInv
<1> QED BY <1>1, <1>2

----------------------------------------------------------------------------
\* The invariant holds: every comparison of times the object makes is between
\* times less than half the clock apart, and nothing had timed out at the last
\* flush.
THEOREM TimersInvariant == Spec => []IInv
<1>1. Init => IInv
  BY InitInv
<1>2. IInv /\ [Next]_vars => IInv'
  BY NextInv
<1> QED BY <1>1, <1>2, PTL DEF Spec

\* snd_buf never holds more segments than the send window, and the RTO keeps its
\* limits.
THEOREM TimersTyped == Spec => []TypeOK
<1>1. IInv => TypeOK
  <2> SUFFICES ASSUME IInv
               PROVE  TypeOK
    OBVIOUS
  <2>1. Typed /\ Numbers /\ Waits
    BY DEF IInv
  <2>2. Cardinality(snd_buf) <= SndWnd
    <3> DEFINE T == (snd_nxt - SndWnd)..(snd_nxt - 1)
               f == [s \in snd_buf |-> s.sn]
    <3>1. \A s \in snd_buf : s.sn \in T
      BY <2>1, Constants DEF Typed, Numbers, Segment
    <3>2. f \in Injection(snd_buf, T)
      BY <2>1, <3>1 DEF Numbers, Injection, IsInjective
    <3>3. IsFiniteSet(T) /\ Cardinality(T) = SndWnd
      <4>1. snd_nxt - SndWnd \in Int /\ snd_nxt - 1 \in Int
        BY <2>1, Constants DEF Typed
      <4>2. IsFiniteSet(T) /\ Cardinality(T) = (IF snd_nxt - SndWnd > snd_nxt - 1 THEN 0
                                ELSE (snd_nxt - 1) - (snd_nxt - SndWnd) + 1)
        BY <4>1, FS_Interval
      <4>3. snd_nxt \in Nat /\ SndWnd \in Nat /\ SndWnd >= 1
        BY <2>1, Constants DEF Typed
      <4> HIDE DEF T
      <4> QED BY <4>2, <4>3
    <3>4. Injection(snd_buf, T) # {}
      BY <3>2
    <3> HIDE DEF T, f
    <3> QED BY <3>3, <3>4, FS_Injection
  <2>3. \A s \in snd_buf : s.sn \in 0..(snd_nxt - 1) /\ s.sent <= current /\ s.fastack \in Nat
    BY <2>1 DEF Typed, Numbers, Waits, Segment
  <2> QED BY <2>1, <2>2, <2>3, Constants DEF TypeOK, Typed
<1> QED BY <1>1, TimersInvariant, PTL

\* No segment is repeated before its timeout unless enough later ones passed it,
\* however long the object runs and wherever its clock wraps.
THEOREM NeverRepeatedEarly == Spec => NeverEarly
<1>1. IInv /\ [Next]_vars => [NotEarly]_vars
  BY NextInv
<1>2. [NotEarly]_vars =>
        [\A s \in snd_buf : \A t \in snd_buf' :
           (s.sn = t.sn /\ s.sent # t.sent)
             => t.sent >= s.sent + s.wait \/ s.passed >= Resend]_vars
  BY DEF NotEarly
<1> QED BY <1>1, <1>2, TimersInvariant, PTL DEF Spec, NeverEarly

\* What timed out is sent again by the first update() an interval later.
THEOREM TimeoutsAreServed == Spec => []ResentInTime
<1>1. IInv => ResentInTime
  BY Constants DEF IInv, Typed, Waits, Flushes, InTime, Segment, ResentInTime
<1> QED BY <1>1, TimersInvariant, PTL

\* A closed window is probed at least once in ProbeLimit.
THEOREM ProbesAreSent == Spec => []ProbedInTime
<1>1. IInv => ProbedInTime
  BY Constants DEF IInv, Typed, Probes, ProbedInTime
<1> QED BY <1>1, TimersInvariant, PTL
==============================================================================
