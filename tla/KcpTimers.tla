------------------------------ MODULE KcpTimers ------------------------------
(***************************************************************************)
(* When a PythonKCP object sends (tuya_p2p/_kcp_python.py): update() with  *)
(* its flush interval, retransmission by timeout and by acknowledgements   *)
(* of later segments, the estimate of the round trip, and the probes of a  *)
(* window that closed.  KcpLink leaves all of this open.                   *)
(*                                                                         *)
(* Time is counted from the construction of the object and unbounded; the  *)
(* code sees now_ms(), which starts anywhere and wraps at ClockMod (2^32   *)
(* ms), and compares times through Itimediff only.  A segment keeps the    *)
(* time it was last sent and how long it may stay unanswered; its ts and   *)
(* resendts are the two and their sum on the code's clock.                 *)
(*                                                                         *)
(* The peer acknowledges transmissions in any order, repeatedly or never,  *)
(* with any una that was ever true and any window; each ACK comes in a     *)
(* datagram of its own, as parse_kcp_datagram demands.  nc = 1.            *)
(***************************************************************************)
EXTENDS Integers, FiniteSets

CONSTANTS
  ClockMod,        \* now_ms() is taken modulo ClockMod
  Starts,          \* now_ms() at the construction
  Interval,        \* KCPConfig.interval
  Slap,            \* 10000 ms: update() was not called for long
  MinRto, DefRto, MaxRto,    \* IKCP_RTO_MIN, IKCP_RTO_DEF, IKCP_RTO_MAX
  Resend,          \* KCPConfig.resend
  NodelayModes,    \* KCPConfig.nodelay
  ProbeInit, ProbeLimit,     \* 7000 ms and 120000 ms
  SndWnd,          \* KCPConfig.snd_wnd
  Gaps,            \* time between two calls of update()
  MaxTime,         \* bound: time in all
  MaxSegments,     \* bound: segments in all
  MaxAcks          \* bound: datagrams of the peer in all

ASSUME TimerAssumption ==
  /\ {ClockMod, Interval, Slap, MinRto, DefRto, MaxRto, Resend, ProbeInit, ProbeLimit, SndWnd}
       \subseteq Nat \ {0}
  /\ MinRto <= DefRto /\ DefRto <= MaxRto /\ ProbeInit <= ProbeLimit
  /\ Starts \subseteq 0..(ClockMod - 1) /\ NodelayModes \subseteq BOOLEAN
  /\ Gaps \subseteq Nat /\ {MaxTime, MaxSegments, MaxAcks} \subseteq Nat

\* No two times that are compared are half the clock apart, the back-off of a
\* segment that is never acknowledged included; in the code ClockMod is 2^32 ms.
ASSUME ClockAssumption ==
  2 * (3 * MaxTime + 2 * MaxRto + Interval + ProbeLimit) < ClockMod

VARIABLES
  start, nodelay,
  current,         \* current: the time of the last update()
  updated,         \* updated
  ts_flush,        \* ts_flush
  queued,          \* segments in snd_queue
  snd_nxt,         \* snd_nxt
  snd_buf,         \* segments sent and not acknowledged
  rx_srtt, rx_rttval, rx_rto,
  rmt_wnd,         \* rmt_wnd
  probe_wait, ts_probe,
  probed,          \* ghost: when the last probe was sent or the timer started
  flushed,         \* ghost: time of the last flush of update()
  transmissions,   \* ghost: every segment sent, and when
  received,        \* ghost: the numbers the peer has
  asked,           \* a WASK was sent that was not answered
  acks             \* datagrams of the peer so far

clock == <<start, nodelay, current, updated, ts_flush, flushed>>
rtt   == <<rx_srtt, rx_rttval, rx_rto>>
probe == <<probe_wait, ts_probe, probed>>
peer  == <<received, acks>>
vars  == <<clock, queued, snd_nxt, snd_buf, rtt, rmt_wnd, probe, transmissions, peer, asked>>

Larger(a, b)  == IF a < b THEN b ELSE a
Smaller(a, b) == IF a < b THEN a ELSE b

\* a time on the code's clock
Ms(t) == (start + t) % ClockMod

ItimediffUnsigned(later, earlier) == (Ms(later) - Ms(earlier)) % ClockMod

ItimediffPlain(later, earlier) == Ms(later) - Ms(earlier)

Itimediff(later, earlier) ==
  LET v == (Ms(later) - Ms(earlier)) % ClockMod
  IN  IF 2 * v >= ClockMod THEN v - ClockMod ELSE v

Init ==
  /\ start \in Starts /\ nodelay \in NodelayModes
  /\ current = 0 /\ updated = FALSE /\ ts_flush = Interval /\ flushed = 0
  /\ queued = 0 /\ snd_nxt = 0 /\ snd_buf = {}
  /\ rx_srtt = 0 /\ rx_rttval = 0 /\ rx_rto = DefRto
  /\ rmt_wnd = SndWnd /\ probe_wait = 0 /\ ts_probe = 0 /\ probed = 0
  /\ transmissions = {} /\ received = {} /\ asked = FALSE /\ acks = 0

----------------------------------------------------------------------------
\* _flush()

\* snd_una
Una(buf) == IF buf = {} THEN snd_nxt ELSE (CHOOSE s \in buf : \A t \in buf : s.sn <= t.sn).sn

Admitted ==
  LET room == Una(snd_buf) + Smaller(SndWnd, rmt_wnd) - snd_nxt
  IN  IF room <= 0 THEN 0 ELSE Smaller(room, queued)

\* a segment sent for the first time has the eighth part of the RTO longer
FirstSent(sn, t) ==
  [sn |-> sn, sent |-> t, rto |-> rx_rto, fastack |-> 0, passed |-> 0,
   wait |-> rx_rto + (IF nodelay THEN 0 ELSE rx_rto \div 8)]

TimedOut(s, t) == Itimediff(t, s.sent + s.wait) >= 0

FastResent(s, t) == ~TimedOut(s, t) /\ s.fastack >= Resend

Backoff(s) == s.rto + (IF nodelay THEN rx_rto \div 2 ELSE Larger(s.rto, rx_rto))

Resent(s, t) ==
  CASE TimedOut(s, t) ->
         [s EXCEPT !.sent = t, !.rto = Backoff(s), !.wait = Backoff(s)]
    [] FastResent(s, t) ->
         [s EXCEPT !.sent = t, !.wait = s.rto, !.fastack = 0, !.passed = 0]
    [] OTHER -> s

LongerUncapped == probe_wait + probe_wait \div 2

Longer == Smaller(probe_wait + probe_wait \div 2, ProbeLimit)

\* the zero-window probe
Probe(t) ==
  IF rmt_wnd # 0 THEN probe_wait' = 0 /\ ts_probe' = 0 /\ UNCHANGED <<probed, asked>>
  ELSE \/ /\ probe_wait = 0
          /\ probe_wait' = ProbeInit /\ ts_probe' = t + ProbeInit /\ probed' = t
          /\ UNCHANGED asked
       \/ /\ probe_wait # 0 /\ Itimediff(t, ts_probe) >= 0
          /\ probe_wait' = Longer /\ ts_probe' = t + Longer /\ probed' = t
          /\ asked' = TRUE
       \/ /\ probe_wait # 0 /\ Itimediff(t, ts_probe) < 0
          /\ UNCHANGED <<probe, asked>>

Flush(t) ==
  LET fresh == {FirstSent(sn, t) : sn \in snd_nxt..(snd_nxt + Admitted - 1)}
      again == {s \in snd_buf : TimedOut(s, t) \/ FastResent(s, t)}
  IN  /\ Probe(t)
      /\ queued' = queued - Admitted
      /\ snd_nxt' = snd_nxt + Admitted
      /\ snd_buf' = {Resent(s, t) : s \in snd_buf} \cup fresh
      /\ transmissions' = transmissions \cup {[sn |-> s.sn, sent |-> t] : s \in fresh \cup again}

----------------------------------------------------------------------------
\* The calls

Send ==
  /\ snd_nxt + queued < MaxSegments
  /\ queued' = queued + 1
  /\ UNCHANGED <<clock, snd_nxt, snd_buf, rtt, rmt_wnd, probe, transmissions, peer, asked>>

\* flush(): with the time of the last update()
DirectFlush ==
  /\ updated /\ Flush(current)
  /\ UNCHANGED <<clock, rtt, rmt_wnd, peer>>

\* update() at time t: after a long pause, or a clock that jumped, the interval
\* starts anew; a flush that comes late does not bring the next one forward
Update(t) ==
  LET planned == IF updated THEN ts_flush ELSE t
      slap    == Itimediff(t, planned)
      jumped  == slap >= Slap \/ slap < -Slap
      from    == IF jumped THEN t ELSE planned
      next    == IF Itimediff(t, from + Interval) >= 0 THEN t + Interval ELSE from + Interval
  IN  /\ current' = t /\ updated' = TRUE
      /\ IF jumped \/ slap >= 0
         THEN ts_flush' = next /\ flushed' = t /\ Flush(t)
         ELSE /\ ts_flush' = planned
              /\ UNCHANGED <<flushed, queued, snd_nxt, snd_buf, probe, transmissions, asked>>
      /\ UNCHANGED <<start, nodelay, rtt, rmt_wnd, peer>>

\* _update_ack
Estimate(sample) ==
  LET delta  == Larger(sample - rx_srtt, rx_srtt - sample)
      srtt   == IF rx_srtt = 0 THEN sample ELSE Larger((7 * rx_srtt + sample) \div 8, 1)
      rttval == IF rx_srtt = 0 THEN sample \div 2 ELSE (3 * rx_rttval + delta) \div 4
  IN  [srtt |-> srtt, rttval |-> rttval, rto |-> srtt + Larger(Interval, 4 * rttval)]

Unclamped(rto) == Larger(MinRto, rto)

Clamped(rto) == Larger(MinRto, Smaller(rto, MaxRto))

\* _parse_fastack: earlier segments that were not sent since
Passed(buf, tr) ==
  LET counted == Una(buf) <= tr.sn /\ tr.sn < snd_nxt
  IN  {IF counted /\ s.sn < tr.sn
       THEN [s EXCEPT !.fastack = @ + (IF Itimediff(tr.sent, s.sent) >= 0 THEN 1 ELSE 0),
                      !.passed  = @ + (IF tr.sent >= s.sent THEN 1 ELSE 0)]
       ELSE s : s \in buf}

FirstMissing(set) == CHOOSE n \in 0..MaxSegments : n \notin set /\ \A m \in 0..(n - 1) : m \in set

\* input() of the ACK of one transmission; una may be an old one
Ack(tr, una, wnd) ==
  LET sample == Itimediff(current, tr.sent)
      left   == {s \in snd_buf : s.sn >= una /\ s.sn # tr.sn}
  IN  /\ acks < MaxAcks /\ acks' = acks + 1
      /\ received' = received \cup {tr.sn} /\ una <= FirstMissing(received')
      /\ rmt_wnd' = wnd
      /\ IF sample >= 0
         THEN /\ rx_srtt' = Estimate(sample).srtt /\ rx_rttval' = Estimate(sample).rttval
              /\ rx_rto' = Clamped(Estimate(sample).rto)
         ELSE UNCHANGED rtt
      /\ snd_buf' = Passed(left, tr)
      /\ UNCHANGED <<clock, queued, snd_nxt, probe, transmissions, asked>>

\* input() of the WINS that answers a probe
Wins(wnd) ==
  /\ asked /\ asked' = FALSE
  /\ acks < MaxAcks /\ acks' = acks + 1
  /\ rmt_wnd' = wnd
  /\ snd_buf' = {s \in snd_buf : s.sn >= FirstMissing(received)}
  /\ UNCHANGED <<clock, queued, snd_nxt, rtt, probe, transmissions, received>>

Next ==
  \/ Send \/ DirectFlush
  \/ \E d \in Gaps : current + d <= MaxTime /\ Update(current + d)
  \/ \E tr \in transmissions, una \in 0..snd_nxt, wnd \in {0, SndWnd} : Ack(tr, una, wnd)
  \/ \E wnd \in {0, SndWnd} : Wins(wnd)

Spec == Init /\ [][Next]_vars

----------------------------------------------------------------------------
\* Properties

\* Types and limits of the fields: the RTO stays within its limits whatever the
\* samples, snd_buf within the window.
TypeOK ==
  /\ rx_rto \in MinRto..MaxRto /\ {rx_srtt, rx_rttval} \subseteq Nat
  /\ {probe_wait, ts_probe, probed, flushed} \subseteq Nat
  /\ {current, ts_flush, queued, snd_nxt, acks} \subseteq Nat
  /\ \A s \in snd_buf : s.sn \in 0..(snd_nxt - 1) /\ s.sent <= current /\ s.fastack \in Nat
  /\ Cardinality(snd_buf) <= SndWnd

\* No segment is repeated on a path that is merely slow: a second transmission
\* waits for the timeout of the first, or for Resend acknowledgements of later
\* segments that were sent no earlier, wherever the clock wraps.  (A timeout does
\* not forget the acknowledgements counted before it.)
NeverEarly ==
  [][\A s \in snd_buf : \A t \in snd_buf' :
       (s.sn = t.sn /\ s.sent # t.sent)
         => t.sent >= s.sent + s.wait \/ s.passed >= Resend]_vars

\* A segment whose timeout is over is sent again by the first update() that
\* comes an interval later: neither a long pause nor the wrap of the clock
\* leaves it, or the flushes, waiting.
ResentInTime ==
  updated => /\ current < flushed + Interval
             /\ \A s \in snd_buf : current < s.sent + s.wait + Interval

\* While the peer's window is closed, the first flush of update() that comes
\* ProbeLimit after a probe sends the next one, whatever became of the probes and
\* answers before.
ProbedInTime ==
  (updated /\ rmt_wnd = 0 /\ probe_wait # 0) => flushed < probed + ProbeLimit
=============================================================================
