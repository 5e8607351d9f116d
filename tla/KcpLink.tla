------------------------------ MODULE KcpLink ------------------------------
(***************************************************************************)
(* Two PythonKCP objects (tuya_p2p/_kcp_python.py), one that sends and one *)
(* that receives, over UDP: packets are lost, duplicated and reordered.    *)
(*                                                                         *)
(* A chunk of payload is a natural number, its place in everything send()  *)
(* ever accepted.  Sequence numbers are kept unbounded, but the protocol   *)
(* only ever looks at them through Itimediff, which reduces them modulo    *)
(* SnMod (2^32 in the code) as _itimediff does, so a comparison that wraps *)
(* in the code wraps here.  snd_buf, rcv_buf and acklist are sets: the     *)
(* first two are kept sorted by sn without repetitions by the code, and    *)
(* every entry of the third produces one ACK in the next flush.            *)
(*                                                                         *)
(* Time is abstract: a flush may find any transmitted segment due again    *)
(* (its timer ran out, or enough later ones were acknowledged) and may     *)
(* find the window probe due.  Every segment travels in a datagram of its  *)
(* own, and nc = 1 as in every configuration of nexxt_lan.py, so cwnd is   *)
(* the smaller of the two windows.  Sequence numbers of the idle direction *)
(* never move and are left out.                                            *)
(***************************************************************************)
EXTENDS Integers, Sequences, FiniteSets

CONSTANTS
  SnMod,         \* sequence numbers on the wire are taken modulo SnMod
  PacketLife,    \* no number older than this reaches a peer (see Fresh)
  SndWnd,        \* KCPConfig.snd_wnd of the sending object
  RcvWnd,        \* KCPConfig.rcv_wnd of the receiving object
  MaxFragments,  \* longest message, in chunks (IKCP_WND_RCV - 1 in the code)
  MaxChunks,     \* bound: chunks accepted in all
  MaxFaults,     \* bound: packets lost or duplicated in all
  MaxNet         \* bound: packets under way at a time

ASSUME WindowAssumption ==
  /\ SndWnd \in Nat \ {0} /\ RcvWnd \in Nat \ {0}
  /\ MaxFragments \in Nat \ {0}
  /\ MaxChunks \in Nat /\ MaxFaults \in Nat /\ MaxNet \in Nat

\* Every number a peer compares is within half the number space of the other.
ASSUME SnAssumption ==
  /\ SnMod \in Nat /\ PacketLife \in Nat
  /\ SndWnd + RcvWnd <= PacketLife
  /\ 2 * (PacketLife + RcvWnd) <= SnMod

VARIABLES
  accepted,   \* ghost: the messages send() accepted, each the list of its chunks
  snd_queue,  \* segments not yet numbered
  snd_buf,    \* segments transmitted and not acknowledged
  snd_una,    \* first unacknowledged number
  snd_nxt,    \* next number to assign
  rmt_wnd,    \* window the receiver last advertised
  probing,    \* probe_wait # 0: the zero-window probe timer runs
  rcv_nxt,    \* next number that can enter rcv_queue
  rcv_buf,    \* segments received ahead of rcv_nxt, or kept back by a full queue
  rcv_queue,  \* segments in order, for recv()
  acklist,    \* numbers to acknowledge in the next flush
  ask_tell,   \* probe & IKCP_ASK_TELL: a WINS is due in the next flush
  delivered,  \* ghost: the messages recv() returned
  net,        \* packets under way, in either direction
  faults      \* packets lost or duplicated so far

sender   == <<snd_queue, snd_buf, snd_una, snd_nxt, rmt_wnd, probing>>
receiver == <<rcv_nxt, rcv_buf, rcv_queue, acklist, ask_tell>>
vars     == <<accepted, sender, receiver, delivered, net, faults>>

Chunk   == [data : Nat, frg : Nat]
Segment == [sn : Nat, data : Nat, frg : Nat]

PushPacket == [cmd : {"PUSH"}, sn : Nat, data : Nat, frg : Nat]
AckPacket  == [cmd : {"ACK"}, sn : Nat, una : Nat, wnd : Nat]
WaskPacket == [cmd : {"WASK"}]
WinsPacket == [cmd : {"WINS"}, una : Nat, wnd : Nat]
Packet     == PushPacket \cup AckPacket \cup WaskPacket \cup WinsPacket

IKCP_WND_RCV == 128

----------------------------------------------------------------------------
\* Numbers

Itimediff(later, earlier) ==
  LET v == (later - earlier) % SnMod
  IN  IF 2 * v >= SnMod THEN v - SnMod ELSE v

\* The network forgets what is more than PacketLife behind the newest segment.
Fresh(p, nxt) ==
  /\ p.cmd \in {"PUSH", "ACK"} => nxt - p.sn <= PacketLife
  /\ p.cmd \in {"ACK", "WINS"} => nxt - p.una <= PacketLife

----------------------------------------------------------------------------
\* Pieces of the handlers

Smaller(a, b) == IF a < b THEN a ELSE b

ChunksAccepted ==
  IF accepted = <<>> THEN 0
  ELSE LET last == accepted[Len(accepted)] IN last[Len(last)] + 1

ShrinkBufLast(buf, nxt) ==
  IF buf = {} THEN nxt
  ELSE (CHOOSE s \in buf : \A t \in buf : t.sn <= s.sn).sn

\* snd_buf[0].sn, or snd_nxt when nothing is outstanding
ShrinkBuf(buf, nxt) ==
  IF buf = {} THEN nxt
  ELSE (CHOOSE s \in buf : \A t \in buf : s.sn <= t.sn).sn

ParseUnaInclusive(buf, una) ==
  {s \in buf : \E t \in buf : t.sn <= s.sn /\ Itimediff(una, t.sn) < 0}

\* the leading segments below una are acknowledged
ParseUna(buf, una) ==
  {s \in buf : \E t \in buf : t.sn <= s.sn /\ Itimediff(una, t.sn) <= 0}

ParseAck(buf, una, nxt, sn) ==
  IF Itimediff(sn, una) < 0 \/ Itimediff(sn, nxt) >= 0 THEN buf
  ELSE {s \in buf : Itimediff(sn, s.sn) # 0}

InWindow(sn) ==
  /\ Itimediff(sn, rcv_nxt + RcvWnd) < 0
  /\ Itimediff(sn, rcv_nxt) >= 0

\* the segments of buf with the n numbers from nxt on, in order
Holds(buf, sn) == \E s \in buf : Itimediff(s.sn, sn) = 0

Run(buf, nxt, n) ==
  [k \in 1..n |-> CHOOSE s \in buf : Itimediff(s.sn, nxt + k - 1) = 0]

\* what the loop at the end of recv() and _parse_data() moves: the longest
\* run from rcv_nxt on that is there and for which rcv_queue has room
Pull(buf, queue) ==
  \E n \in 0..RcvWnd :
    /\ \A k \in 1..n : Holds(buf, rcv_nxt + k - 1)
    /\ Len(queue) + n <= RcvWnd
    /\ Holds(buf, rcv_nxt + n) => Len(queue) + n = RcvWnd
    /\ rcv_nxt' = rcv_nxt + n
    /\ rcv_queue' = queue \o Run(buf, rcv_nxt, n)
    /\ rcv_buf' = buf \ {Run(buf, rcv_nxt, n)[k] : k \in 1..n}

WndUnusedUnclamped == RcvWnd - Len(rcv_queue) - Cardinality(rcv_buf)

WndUnused == IF Len(rcv_queue) < RcvWnd THEN RcvWnd - Len(rcv_queue) ELSE 0

Push(s) == [cmd |-> "PUSH", sn |-> s.sn, data |-> s.data, frg |-> s.frg]

----------------------------------------------------------------------------
Init ==
  /\ accepted = <<>> /\ delivered = <<>>
  /\ snd_queue = <<>> /\ snd_buf = {} /\ snd_una = 0 /\ snd_nxt = 0
  /\ rmt_wnd = IKCP_WND_RCV /\ probing = FALSE
  /\ rcv_nxt = 0 /\ rcv_buf = {} /\ rcv_queue = <<>>
  /\ acklist = {} /\ ask_tell = FALSE
  /\ net = {} /\ faults = 0

\* send(): the payload is cut into count chunks, frg counts down to 0
Send(count) ==
  /\ count <= MaxFragments
  /\ ChunksAccepted + count <= MaxChunks
  /\ accepted' = Append(accepted, [i \in 1..count |-> ChunksAccepted + i - 1])
  /\ snd_queue' = snd_queue \o
       [i \in 1..count |-> [data |-> ChunksAccepted + i - 1, frg |-> count - i]]
  /\ UNCHANGED <<snd_buf, snd_una, snd_nxt, rmt_wnd, probing>>
  /\ UNCHANGED <<receiver, delivered, net, faults>>

\* how many queued segments the window lets _flush() number now
Admitted ==
  LET room == Itimediff(snd_una + Smaller(SndWnd, rmt_wnd), snd_nxt)
  IN  IF room <= 0 THEN 0 ELSE Smaller(room, Len(snd_queue))

Numbered(n) ==
  [k \in 1..n |-> [sn   |-> snd_nxt + k - 1,
                   data |-> snd_queue[k].data,
                   frg  |-> snd_queue[k].frg]]

\* the wire is given time: no acknowledgement waits for PacketLife segments
Timely(nxt) == \A sn \in acklist : nxt - sn <= PacketLife

\* _flush() of the sending object; due: the transmitted segments it sends again
SenderFlush(due, probeDue) ==
  LET n     == Admitted
      fresh == {Numbered(n)[k] : k \in 1..n}
      wask  == IF rmt_wnd = 0 /\ probing /\ probeDue
               THEN {[cmd |-> "WASK"]} ELSE {}
  IN  /\ due \subseteq snd_buf
      /\ Timely(snd_nxt + n)
      /\ probing' = (rmt_wnd = 0)
      /\ snd_queue' = SubSeq(snd_queue, n + 1, Len(snd_queue))
      /\ snd_nxt' = snd_nxt + n
      /\ snd_buf' = snd_buf \cup fresh
      /\ net' = {p \in net \cup wask \cup {Push(s) : s \in due \cup fresh} :
                   Fresh(p, snd_nxt + n)}
      /\ UNCHANGED <<accepted, snd_una, rmt_wnd, receiver, delivered, faults>>

\* _flush() of the receiving object
ReceiverFlush ==
  /\ net' = net
       \cup {[cmd |-> "ACK", sn |-> sn, una |-> rcv_nxt, wnd |-> WndUnused] :
               sn \in acklist}
       \cup (IF ask_tell
             THEN {[cmd |-> "WINS", una |-> rcv_nxt, wnd |-> WndUnused]}
             ELSE {})
  /\ acklist' = {}
  /\ ask_tell' = FALSE
  /\ UNCHANGED <<accepted, sender, rcv_nxt, rcv_buf, rcv_queue, delivered, faults>>

\* a packet arrives; the network may keep a copy that arrives again
Arrives(p) ==
  \/ net' = net \ {p} /\ UNCHANGED faults
  \/ faults < MaxFaults /\ faults' = faults + 1 /\ UNCHANGED net

\* input() of a PUSH
RecvPush(p) ==
  /\ p.cmd = "PUSH"
  /\ Arrives(p)
  /\ acklist' = IF Itimediff(p.sn, rcv_nxt + RcvWnd) < 0
                THEN acklist \cup {p.sn} ELSE acklist
  /\ IF InWindow(p.sn)
     THEN Pull(IF Holds(rcv_buf, p.sn) THEN rcv_buf
               ELSE rcv_buf \cup {[sn |-> p.sn, data |-> p.data, frg |-> p.frg]},
               rcv_queue)
     ELSE UNCHANGED <<rcv_nxt, rcv_buf, rcv_queue>>
  /\ UNCHANGED <<accepted, sender, ask_tell, delivered>>

RecvWaskSilent(p) ==
  /\ p.cmd = "WASK"
  /\ Arrives(p)
  /\ UNCHANGED <<accepted, sender, receiver, delivered>>

\* input() of a WASK
RecvWask(p) ==
  /\ p.cmd = "WASK"
  /\ Arrives(p)
  /\ ask_tell' = TRUE
  /\ UNCHANGED <<accepted, sender, rcv_nxt, rcv_buf, rcv_queue, acklist, delivered>>

\* input() of an ACK
RecvAck(p) ==
  LET afterUna == ParseUna(snd_buf, p.una)
      afterAck == ParseAck(afterUna, ShrinkBuf(afterUna, snd_nxt), snd_nxt, p.sn)
  IN  /\ p.cmd = "ACK"
      /\ Arrives(p)
      /\ rmt_wnd' = p.wnd
      /\ snd_buf' = afterAck
      /\ snd_una' = ShrinkBuf(afterAck, snd_nxt)
      /\ UNCHANGED <<accepted, snd_queue, snd_nxt, probing, receiver, delivered>>

\* input() of a WINS
RecvWins(p) ==
  /\ p.cmd = "WINS"
  /\ Arrives(p)
  /\ rmt_wnd' = p.wnd
  /\ snd_buf' = ParseUna(snd_buf, p.una)
  /\ snd_una' = ShrinkBuf(ParseUna(snd_buf, p.una), snd_nxt)
  /\ UNCHANGED <<accepted, snd_queue, snd_nxt, probing, receiver, delivered>>

MessageCompleteOneLess == Len(rcv_queue) >= rcv_queue[1].frg

MessageCompleteOneMore == Len(rcv_queue) > rcv_queue[1].frg + 1

\* peeksize(): frg of the first segment says how many follow it
MessageComplete == Len(rcv_queue) >= rcv_queue[1].frg + 1

\* recv(): the chunks up to the first with frg = 0, once all of them are there
MessageEnd(k) ==
  /\ rcv_queue[k].frg = 0 \/ k = Len(rcv_queue)
  /\ \A j \in 1..(k - 1) : rcv_queue[j].frg # 0

Recv ==
  /\ rcv_queue # <<>>
  /\ MessageComplete
  /\ \E k \in 1..Len(rcv_queue) :
       /\ MessageEnd(k)
       /\ delivered' = Append(delivered, [j \in 1..k |-> rcv_queue[j].data])
       /\ Pull(rcv_buf, SubSeq(rcv_queue, k + 1, Len(rcv_queue)))
  /\ UNCHANGED <<accepted, sender, acklist, ask_tell, net, faults>>

Lose(p) ==
  /\ faults < MaxFaults
  /\ faults' = faults + 1
  /\ net' = net \ {p}
  /\ UNCHANGED <<accepted, sender, receiver, delivered>>

SomeSend == \E count \in 1..MaxFragments : Send(count)

SomeFlush ==
  \E due \in SUBSET snd_buf, probeDue \in BOOLEAN : SenderFlush(due, probeDue)

Input(p) == RecvPush(p) \/ RecvWask(p) \/ RecvAck(p) \/ RecvWins(p)

NetSmall == Cardinality(net) <= MaxNet

Next ==
  \/ SomeSend
  \/ SomeFlush /\ NetSmall'
  \/ ReceiverFlush /\ NetSmall'
  \/ \E p \in net : Input(p)
  \/ Recv
  \/ \E p \in net : Lose(p)

Spec == Init /\ [][Next]_vars

----------------------------------------------------------------------------
(***************************************************************************)
(* Fairness.  update() runs every interval on both sides, and a segment or *)
(* a probe that stays unanswered becomes due; a packet that is not lost    *)
(* arrives; the application calls recv() after every input.  Only send()   *)
(* and the faults, which MaxFaults bounds, are free not to happen.  The    *)
(* actions are fair as the code has them, without the bound on net: FairSpec *)
(* is the fair behaviours of the code with at most MaxNet packets under way. *)
(***************************************************************************)
Resends(sn) ==
  \E due \in SUBSET snd_buf, probeDue \in BOOLEAN :
    (\E s \in due : s.sn = sn) /\ SenderFlush(due, probeDue)

PushArrives(sn) ==
  \E p \in net : p.cmd = "PUSH" /\ p.sn = sn /\ RecvPush(p)

Fairness ==
  /\ WF_vars(SenderFlush({}, TRUE))
  /\ WF_vars(ReceiverFlush)
  /\ WF_vars(Recv)
  /\ WF_vars(\E p \in net : RecvWask(p))
  /\ WF_vars(\E p \in net : RecvAck(p))
  /\ WF_vars(\E p \in net : RecvWins(p))
  /\ \A sn \in 0..(MaxChunks - 1) : WF_vars(Resends(sn)) /\ WF_vars(PushArrives(sn))

FairSpec == Spec /\ Fairness

----------------------------------------------------------------------------
\* Properties

\* Types of the state; rmt_wnd and the numbers are fields of the PythonKCP
\* objects, the ghosts list messages as sequences of chunks.
TypeOK ==
  /\ accepted \in Seq(Seq(Nat)) /\ delivered \in Seq(Seq(Nat))
  /\ snd_queue \in Seq(Chunk) /\ snd_buf \subseteq Segment
  /\ snd_una \in Nat /\ snd_nxt \in Nat /\ rmt_wnd \in Nat /\ probing \in BOOLEAN
  /\ rcv_nxt \in Nat /\ rcv_buf \subseteq Segment /\ rcv_queue \in Seq(Segment)
  /\ acklist \subseteq Nat /\ ask_tell \in BOOLEAN
  /\ net \subseteq Packet /\ faults \in Nat

\* Whatever the network loses, repeats or reorders, recv() returns the messages
\* given to send(): whole, in order, none twice, none skipped.
InOrderExactlyOnce ==
  /\ Len(delivered) <= Len(accepted)
  /\ \A m \in 1..Len(delivered) : delivered[m] = accepted[m]

Received(sn) == sn < rcv_nxt \/ \E s \in rcv_buf : s.sn = sn

\* The sender forgets a segment only once the receiver has it: una, a selective
\* ACK or a late copy of either never releases one that could still be missing.
NothingForgotten ==
  \A sn \in 0..(snd_nxt - 1) : Received(sn) \/ \E s \in snd_buf : s.sn = sn

\* An acknowledgement under way, or about to leave, is for a segment received.
AcksAreTrue ==
  /\ \A sn \in acklist : Received(sn)
  /\ \A p \in net : p.cmd = "ACK" => Received(p.sn)

\* What the peers buffer stays within the windows, however late windows and
\* acknowledgements arrive.
BuffersBounded ==
  /\ snd_nxt - snd_una <= SndWnd
  /\ Len(rcv_queue) <= RcvWnd
  /\ Cardinality(rcv_buf) <= RcvWnd

\* The inductive invariant behind the four properties above.  data is the place
\* of a chunk in the accepted stream: a number and its chunk always agree, and
\* frg counts the chunks that follow in the same message.
CountsDown(messages, s) ==
  \A m \in 1..Len(messages) : \A i \in 1..Len(messages[m]) :
    messages[m][i] = s.data => s.frg = Len(messages[m]) - i

AcceptedOK ==
  /\ \A m \in 1..Len(accepted) :
       /\ Len(accepted[m]) >= 1
       /\ \A i \in 1..Len(accepted[m]) : accepted[m][i] = accepted[m][1] + i - 1
       /\ m < Len(accepted) => accepted[m + 1][1] = accepted[m][1] + Len(accepted[m])
       /\ accepted[m][1] + Len(accepted[m]) <= ChunksAccepted
       /\ m = Len(accepted) => ChunksAccepted = accepted[m][1] + Len(accepted[m])
  /\ ChunksAccepted \in Nat

SenderOK ==
  /\ snd_nxt + Len(snd_queue) = ChunksAccepted
  /\ \A k \in 1..Len(snd_queue) :
       snd_queue[k].data = snd_nxt + k - 1 /\ CountsDown(accepted, snd_queue[k])
  /\ snd_una <= snd_nxt /\ snd_nxt - snd_una <= SndWnd
  /\ \A s \in snd_buf :
       s.data = s.sn /\ CountsDown(accepted, s) /\ snd_una <= s.sn /\ s.sn < snd_nxt

ReceiverOK ==
  /\ rcv_nxt <= snd_nxt /\ Len(rcv_queue) <= rcv_nxt /\ Len(rcv_queue) <= RcvWnd
  /\ \A k \in 1..Len(rcv_queue) :
       /\ rcv_queue[k].data = rcv_nxt - Len(rcv_queue) + k - 1
       /\ CountsDown(accepted, rcv_queue[k])
  /\ \A s \in rcv_buf :
       /\ s.data = s.sn /\ CountsDown(accepted, s)
       /\ rcv_nxt <= s.sn /\ s.sn < rcv_nxt + RcvWnd /\ s.sn < snd_nxt
  /\ \A s, t \in rcv_buf : s.sn = t.sn => s = t

NetOK ==
  /\ \A p \in net :
       /\ Fresh(p, snd_nxt)
       /\ p.cmd = "PUSH" => p.data = p.sn /\ CountsDown(accepted, p) /\ p.sn < snd_nxt
       /\ p.cmd \in {"ACK", "WINS"} => p.una <= rcv_nxt
  /\ \A sn \in acklist : snd_nxt - sn <= PacketLife

DeliveredOK ==
  rcv_nxt - Len(rcv_queue) =
    IF Len(delivered) < Len(accepted) THEN accepted[Len(delivered) + 1][1]
    ELSE ChunksAccepted

IInv ==
  /\ TypeOK /\ InOrderExactlyOnce /\ NothingForgotten /\ AcksAreTrue
  /\ AcceptedOK /\ SenderOK /\ ReceiverOK /\ NetOK /\ DeliveredOK

\* Acknowledged once is acknowledged for good: a stale una or a wrapped
\* comparison never moves either edge of the windows back.
EdgesAdvance == [][snd_una' >= snd_una /\ snd_nxt' >= snd_nxt /\ rcv_nxt' >= rcv_nxt]_vars

\* Every message accepted is in the end acknowledged in full, through losses
\* and through a window that closes and must be probed open again.
EverythingAcknowledged == []<>(snd_queue = <<>> /\ snd_buf = {})

Message == {[i \in 1..c |-> d + i - 1] : d \in 0..(MaxChunks - 1), c \in 1..MaxFragments}

Stream == INSTANCE ReliableStream
            WITH Messages <- Message, sent <- accepted, got <- delivered

\* The link implements the reliable stream of whole messages, and every
\* message accepted is delivered in the end.
ImplementsStream == Stream!FairSpec
=============================================================================
